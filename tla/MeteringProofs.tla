----------------------------- MODULE MeteringProofs -----------------------------
(***************************************************************************)
(* Proofs about Metering: the averages, the daily maximum, what is shown   *)
(* and what the journal may refuse, for every value of the constants.      *)
(***************************************************************************)
EXTENDS Metering, WellFoundedInduction, FiniteSetTheorems, SequenceTheorems,
        TLAPS

(* What each part of the state can be.  A ring is bucket_ticks and its      *)
(* sums.                                                                    *)
Rings == [buckets : [0 .. Buckets - 1 -> SUBSET Ticks], index : 0 .. Buckets - 1,
          count : 0 .. Buckets, sum : SUBSET Ticks, current : SUBSET Ticks]
Peaks == [open : BOOLEAN, start : 0 .. MaxNow, ticks : SUBSET Ticks]
Analyses == [sum : SUBSET Ticks, pending : SUBSET Ticks]
Days == [key : 0 .. DayAt(MaxNow), start : 0 .. Wrap - 1,
         maximum : SUBSET Ticks]
Prefs == [saved : Saved, flash : Saved, restored : Saved]
Sessions == [stale : BOOLEAN, known : BOOLEAN, last : 0 .. MaxNow,
             seq : 0 .. MaxNow, epoch : Nat]
Streams == [running : BOOLEAN, epoch : Nat, seq : 0 .. MaxNow,
            ticks : 0 .. MaxWindow - 1, synced : BOOLEAN, lost : BOOLEAN]
Fed == [session : Sessions, shown : Ticks \cup {Unknown}, demand : Rings,
        daily : Days, peak : Peaks, analysis : Analyses, pref : Prefs]

(* The place of the k-th newest bucket.                                     *)
Slot(i, k) == IF k <= i THEN i - k ELSE i - k + Buckets

(* A ring whose newest tick is t, its newest whole bucket ending at e.      *)
RingTo(r, e, t) ==
  /\ r.current = e + 1 .. t /\ e <= t /\ t - e < BucketTicks
  /\ r.count * BucketTicks <= e
  /\ r.sum = e - r.count * BucketTicks + 1 .. e
  /\ \A k \in 1 .. r.count : r.buckets[Slot(r.index, k)]
       = e - k * BucketTicks + 1 .. e - (k - 1) * BucketTicks
(* A ring whose newest tick is t, wherever its open bucket began.           *)
RingAt(r, t) == \E e \in 0 .. t : RingTo(r, e, t)

(* A run of consecutive ticks whose newest is t.                            *)
Run(S, t) == S = {} \/ \E a \in 1 .. t : S = a .. t

(* A maximum is one whole interval inside the day named by the key.         *)
MaxOk(key, maximum) ==
  maximum # {} => /\ Cardinality(maximum) = Interval
                  /\ \A t \in maximum : DayOfTick(t) = key

(* The day and the preferences at n: no key is of a day to come, every      *)
(* maximum is of its day, and the running day was either restored or begun  *)
(* since the boot (the rule of CountsForToday is about that day's start).   *)
DayInv(day, p, n, v) ==
  /\ day.key # 0 => /\ v /\ day.key <= DayAt(n)
                    /\ \/ day.key = p.restored.key
                       \/ day.start <= n /\ DayAt(day.start) = day.key
  /\ MaxOk(day.key, day.maximum)
  /\ \A s \in {p.saved, p.flash, p.restored} :
       s.key <= DayAt(n) /\ MaxOk(s.key, s.maximum)

(* What the windows were fed to.  After an invalidation nothing is held;    *)
(* otherwise every average is a run that ends at the session's last window, *)
(* and no tick in the demand ring is older than the restored day.           *)
FedInv(c, n, v) ==
  /\ c \in Fed /\ c.session.last <= n
  /\ ~c.session.known => c.session.stale
  /\ c.session.stale => /\ c.demand = EmptyRing /\ c.peak = NoPeak
                        /\ c.analysis = NoAnalysis /\ c.shown = Unknown
  /\ RingAt(c.demand, c.session.last)
  /\ Run(c.peak.ticks, c.session.last) /\ Run(c.analysis.sum, c.session.last)
  /\ Contiguous(c.analysis.pending)
  /\ \A t \in c.demand.sum \cup c.demand.current :
       c.pref.restored.key <= DayOfTick(t)
  /\ DayInv(c.daily, c.pref, n, v)

(* The worker has an open window that nothing was lost from.                *)
Counting(s) == s.running /\ s.synced /\ ~s.lost

(* The worker's stream at n; its open window began after the boot, so not   *)
(* before the restored day.                                                 *)
StreamInv(s, n, key) ==
  /\ s \in Streams /\ s.seq <= n
  /\ ~s.synced => s.ticks = 0
  /\ Counting(s) => s.ticks <= n /\ key <= DayAt(n - s.ticks)

(* A window (seq q, epoch p, end t) is behind the stream s at n.            *)
Behind(s, n, q, p, t) ==
  /\ q <= s.seq /\ p <= s.epoch /\ t <= n
  /\ Counting(s) => t + s.ticks <= n
  /\ q = s.seq /\ p = s.epoch /\ s.running /\ ~s.lost
       => s.synced /\ t + s.ticks = n

(* The window w comes after the window (seq q, epoch p, end t), and         *)
(* directly after it when the numbers say so.                               *)
Follows(w, q, p, t) ==
  /\ q < w.seq /\ t <= w.end - w.duration
  /\ w.seq = q + 1 /\ w.epoch = p => w.end - w.duration = t

(* The journal j of stream s: windows after the session's last one, each    *)
(* after those before it and at least MinWindow apart.                      *)
JournalInv(j, s, n, key, e) ==
  /\ j \in Seq(Window) /\ Len(j) <= Capacity
  /\ e.known => Behind(s, n, e.seq, e.epoch, e.last)
  /\ \A i \in 1 .. Len(j) :
       /\ j[i].duration >= MinWindow /\ j[i].end >= j[i].duration
       /\ key <= DayAt(j[i].end - j[i].duration)
       /\ Behind(s, n, j[i].seq, j[i].epoch, j[i].end)
       /\ e.known => Follows(j[i], e.seq, e.epoch, e.last)
  /\ \A k \in 1 .. Len(j) : \A i \in 1 .. k - 1 :
       /\ Follows(j[k], j[i].seq, j[i].epoch, j[i].end)
       /\ j[k].end - j[i].end >= (k - i) * MinWindow

(* The loop's pass: when nothing is left to drain, what is shown is the     *)
(* session's last window, or that one is older than the timeout.            *)
LoopInv ==
  /\ loop \in [at : {"idle", "drain", "recover", "halt"}, left : 0 .. Len(journal)]
  /\ loop.at = "idle" => loop.left = 0
  /\ loop.left = 0 => \/ shown \in {Unknown, session.last}
                      \/ now - session.last > Timeout

(* The inductive invariant.                                                 *)
IInv ==
  /\ now \in 0 .. MaxNow /\ clockValid \in BOOLEAN
  /\ faults \in 0 .. MaxFaults /\ reboots \in 0 .. MaxReboots
  /\ FedInv(Consumers, now, clockValid)
  /\ StreamInv(stream, now, pref.restored.key)
  /\ JournalInv(journal, stream, now, pref.restored.key, session)
  /\ LoopInv

-----------------------------------------------------------------------------
(* Arithmetic.                                                              *)

(* The constants, one fact at a time.                                       *)
LEMMA Constants ==
  /\ Timeout \in Nat /\ MinWindow \in Nat /\ MaxWindow \in Nat
  /\ JournalLimit \in Nat /\ BucketTicks \in Nat /\ Buckets \in Nat
  /\ PeakTicks \in Nat /\ AnalysisTicks \in Nat /\ DayTicks \in Nat
  /\ Wrap \in Nat /\ MaxNow \in Nat /\ MaxFaults \in Nat /\ MaxReboots \in Nat
  /\ BucketTicks > 0 /\ Buckets > 0 /\ DayTicks > 0 /\ MinWindow > 0
  /\ Timeout > 0 /\ Wrap > 0 /\ MaxNow > 0 /\ JournalLimit > 0
  /\ PeakTicks > 0 /\ AnalysisTicks > 0
  /\ MinWindow <= MaxWindow /\ 2 * MaxNow < Wrap
BY MeteringAssumption DEF MeteringAssumption

(* Quotient and remainder.                                                  *)
LEMMA Divided ==
  ASSUME NEW a \in Int, NEW d \in Nat, d > 0
  PROVE  /\ a = (a \div d) * d + (a % d)
         /\ a % d \in 0 .. d - 1 /\ a \div d \in Int
BY SMTT(30)

(* The remainder of a number less than one turn away from zero.             *)
LEMMA ModuloOnce ==
  ASSUME NEW x \in Int, NEW w \in Nat, w > 0, -w < x, x < w
  PROVE  x % w = IF x >= 0 THEN x ELSE x + w
<1> DEFINE q == x \div w
           r == x % w
<1>1. /\ r \in 0 .. w - 1 /\ q \in Int /\ x = q * w + r
  BY Divided
<1> HIDE DEF q, r
<1>2. q > 0 => q * w >= w
  BY <1>1, SMTT(30)
<1>3. q < -1 => q * w <= -w - w
  <2> SUFFICES ASSUME q <= -2 PROVE q * w <= -w - w
    BY <1>1
  <2>1. (-2 - q) * w >= 0 /\ (-2 - q) * w = -2 * w - q * w
    BY <1>1, SMTT(30)
  <2> QED BY <1>1, <2>1
<1>4. q = 0 \/ q = -1
  BY <1>1, <1>2, <1>3
<1>5. q * w = IF q = 0 THEN 0 ELSE -w
  BY <1>4, SMTT(30)
<1> QED BY <1>1, <1>4, <1>5 DEF r

(* Division keeps the order.                                                *)
LEMMA Quotient ==
  ASSUME NEW a \in Int, NEW b \in Int, NEW d \in Nat, d > 0, a <= b
  PROVE  a \div d <= b \div d
<1>1. \A x \in {a, b} : /\ x = (x \div d) * d + (x % d)
                          /\ x % d \in 0 .. d - 1 /\ x \div d \in Int
  BY Divided
<1> DEFINE p == a \div d
           q == b \div d
<1> SUFFICES ASSUME q + 1 <= p PROVE FALSE
  BY <1>1
<1>2. p \in Int /\ q \in Int
  BY <1>1
<1> HIDE DEF p, q
<1>3. (q + 1) * d <= p * d
  BY <1>2, SMTT(30)
<1>4. (q + 1) * d = q * d + d
  BY <1>2, SMTT(30)
<1>5. q * d \in Int /\ p * d \in Int
  BY <1>2
<1>6. a = p * d + (a % d) /\ b = q * d + (b % d) /\ a % d \in Nat /\ b % d < d
      /\ b % d \in Nat
  BY <1>1 DEF p, q
<1> DEFINE pd == p * d
           qd == q * d
           qe == (q + 1) * d
           ra == a % d
           rb == b % d
<1>7. /\ qe <= pd /\ qe = qd + d /\ pd \in Int /\ qd \in Int /\ a = pd + ra
      /\ b = qd + rb /\ ra \in Nat /\ rb \in Nat /\ rb < d
  BY <1>3, <1>4, <1>5, <1>6
<1> HIDE DEF pd, qd, qe, ra, rb
<1> QED BY <1>7

(* Later ticks are of the same day or a later one, and the tick that ends   *)
(* now is of the day that is now.                                           *)
LEMMA DayOrder ==
  ASSUME NEW a \in Int, NEW b \in Int, a <= b
  PROVE  /\ DayAt(a) <= DayAt(b) /\ DayAt(a) \in Int
         /\ DayOfTick(a + 1) = DayAt(a)
<1>1. a \div DayTicks <= b \div DayTicks
  BY Constants, Quotient
<1> QED BY <1>1, Constants DEF DayAt, DayOfTick

(* The day keys there can be.                                               *)
LEMMA DayRange ==
  ASSUME NEW n \in 0 .. MaxNow
  PROVE  DayAt(n) \in 1 .. DayAt(MaxNow)
<1>1. 0 \div DayTicks = 0
  BY Constants
<1>2. DayAt(0) = 1 /\ DayAt(0) <= DayAt(n) /\ DayAt(n) <= DayAt(MaxNow)
  BY <1>1, Constants, DayOrder DEF DayAt
<1>3. DayAt(n) \in Int
  BY DayOrder
<1> QED BY <1>2, <1>3

(* Products one step further and one step back.                             *)
LEMMA Times ==
  ASSUME NEW k \in Nat, NEW b \in Nat
  PROVE  /\ (k + 1) * b = k * b + b /\ k * b \in Nat
         /\ k > 0 => (k - 1) * b = k * b - b
BY SMTT(30)

(* Products keep the order.                                                 *)
LEMMA TimesOrder ==
  ASSUME NEW a \in Nat, NEW k \in Nat, a <= k, NEW b \in Nat
  PROVE  a * b <= k * b
BY SMTT(30)

(* Interval is what the whole ring holds.                                   *)
LEMMA IntervalIs == Interval = Buckets * BucketTicks /\ Interval \in Nat \ {0}
BY Constants, SMTT(30) DEF Interval

(* Differences of the millisecond counter that wraps.                       *)
LEMMA ElapsedRange ==
  ASSUME NEW a \in Int, NEW b \in Int
  PROVE  Elapsed(a, b) \in 0 .. Wrap - 1
BY Constants DEF Elapsed

(* Between two times of the model the counter's difference is the real one. *)
LEMMA ElapsedValue ==
  ASSUME NEW a \in 0 .. MaxNow, NEW b \in 0 .. MaxNow, Elapsed(a, b) <= IntMax
  PROVE  Elapsed(a, b) = b - a
<1> DEFINE x == b - a
<1>1. x \in Int /\ -MaxNow <= x /\ x <= MaxNow
  BY Constants
<1>2. Elapsed(a, b) = x % Wrap
  BY DEF Elapsed
<1>3. IntMax < Wrap - MaxNow /\ IntMax \in Int
  <2>1. 2 * (Wrap \div 2) <= Wrap /\ Wrap \div 2 \in Int
    BY Constants
  <2> QED BY <2>1, Constants DEF IntMax
<1>4. -Wrap < x /\ x < Wrap /\ Wrap \in Nat /\ Wrap > 0
  BY <1>1, Constants
<1> HIDE DEF x
<1>5. x % Wrap = IF x >= 0 THEN x ELSE x + Wrap
  BY <1>1, <1>4, ModuloOnce
<1>6. x >= 0
  <2> SUFFICES ASSUME x < 0 PROVE FALSE
    BY <1>1
  <2>1. x + Wrap <= IntMax
    BY <1>1, <1>2, <1>5
  <2> QED BY <1>1, <1>3, <1>4, <2>1, Constants
<1> QED BY <1>2, <1>5, <1>6 DEF x

(* The number of ticks from a to b.                                         *)
LEMMA IntervalSize ==
  ASSUME NEW a \in Int, NEW b \in Int, a <= b + 1
  PROVE  IsFiniteSet(a .. b) /\ Cardinality(a .. b) = b - a + 1
<1>1. IsFiniteSet(a .. b)
      /\ Cardinality(a .. b) = IF a > b THEN 0 ELSE b - a + 1
  BY FS_Interval
<1> QED BY <1>1

-----------------------------------------------------------------------------
(* The bucket ring.                                                         *)

LEMMA EmptyRingAt ==
  /\ EmptyRing \in Rings
  /\ \A t \in Nat : RingAt(EmptyRing, t)
<1>1. EmptyRing \in Rings
  BY Constants DEF EmptyRing, Rings
<1>2. ASSUME NEW t \in Nat PROVE RingAt(EmptyRing, t)
  <2>1. t + 1 .. t = {} /\ t - 0 + 1 .. t = {} /\ 1 .. 0 = {}
    OBVIOUS
  <2>2. RingTo(EmptyRing, t, t)
    <3>1. 0 * BucketTicks = 0
      BY Constants
    <3> QED BY <2>1, <3>1, Constants DEF RingTo, EmptyRing
  <2> QED BY <2>2 DEF RingAt
<1> QED BY <1>1, <1>2

(* Advancing the index makes the old place the newest bucket and moves      *)
(* every other bucket one place back.                                       *)
LEMMA NextSlot ==
  ASSUME NEW i \in 0 .. Buckets - 1, NEW n, n = (i + 1) % Buckets
  PROVE  /\ n \in 0 .. Buckets - 1 /\ Slot(n, 1) = i
         /\ \A k \in 2 .. Buckets : /\ Slot(n, k) = Slot(i, k - 1)
                                    /\ Slot(i, k - 1) # i
                                    /\ Slot(i, k - 1) \in 0 .. Buckets - 1
         /\ Slot(i, Buckets) = i
<1>1. n = IF i + 1 = Buckets THEN 0 ELSE i + 1
  <2>1. CASE i + 1 = Buckets
    BY <2>1, Constants
  <2>2. CASE i + 1 < Buckets
    <3> DEFINE x == i + 1
    <3>1. x \in Int /\ Buckets \in Nat /\ Buckets > 0 /\ -Buckets < x
          /\ x < Buckets /\ x >= 0
      BY <2>2, Constants
    <3> HIDE DEF x
    <3>2. x % Buckets = x
      BY <3>1, ModuloOnce
    <3> QED BY <2>2, <3>2, Constants DEF x
  <2> QED BY <2>1, <2>2, Constants
<1> QED BY <1>1, Constants DEF Slot

(* Two adjoining intervals.                                                 *)
LEMMA Joined ==
  ASSUME NEW a \in Int, NEW b \in Int, NEW c \in Int, a <= b + 1, b <= c
  PROVE  (a .. b) \cup (b + 1 .. c) = a .. c
OBVIOUS

(* A tick that does not fill the bucket.                                    *)
LEMMA TickInBucket ==
  ASSUME NEW r \in Rings, NEW t \in Nat, NEW e \in 0 .. t, RingTo(r, e, t),
         t + 1 \in Ticks,
         NEW q, q = [r EXCEPT !.current = @ \union {t + 1}]
  PROVE  /\ q \in Rings /\ q.count = r.count /\ q.sum = r.sum
         /\ q.buckets = r.buckets /\ q.index = r.index
         /\ q.current = e + 1 .. t + 1
         /\ Cardinality(q.current) = t + 1 - e
         /\ Cardinality(q.current) # BucketTicks => RingTo(q, e, t + 1)
<1>1. r.current = e + 1 .. t /\ r.current \subseteq Ticks
  BY DEF RingTo, Rings
<1>2. (e + 1 .. t) \cup {t + 1} = e + 1 .. t + 1
  OBVIOUS
<1>3. /\ q \in Rings /\ q.count = r.count /\ q.sum = r.sum
      /\ q.buckets = r.buckets /\ q.index = r.index
      /\ q.current = r.current \cup {t + 1}
  BY <1>1 DEF Rings
<1>4. q.current = e + 1 .. t + 1
  BY <1>1, <1>2, <1>3
<1>5. Cardinality(q.current) = t + 1 - e
  <2> DEFINE a == e + 1
             b == t + 1
  <2>1. a \in Int /\ b \in Int /\ a <= b + 1 /\ b - a + 1 = t + 1 - e
        /\ q.current = a .. b
    BY <1>4
  <2> HIDE DEF a, b
  <2> QED BY <2>1, IntervalSize
<1>6. ASSUME Cardinality(q.current) # BucketTicks PROVE RingTo(q, e, t + 1)
  <2>0. t - e < BucketTicks
    BY DEF RingTo
  <2>1. t + 1 - e < BucketTicks /\ e <= t + 1
    BY <1>5, <1>6, <2>0, Constants
  <2> QED BY <1>3, <1>4, <2>1 DEF RingTo
<1> QED BY <1>3, <1>4, <1>5, <1>6

(* A ring whose newest bucket is full, from e to f.                         *)
Filled(r, e, f) ==
  /\ f = e + BucketTicks /\ r.current = e + 1 .. f
  /\ r.count * BucketTicks <= e
  /\ r.sum = e - r.count * BucketTicks + 1 .. e
  /\ \A k \in 1 .. r.count : r.buckets[Slot(r.index, k)]
       = e - k * BucketTicks + 1 .. e - (k - 1) * BucketTicks

(* The ring n after r, whose newest bucket ends at f.                       *)
NewRing(n, r, f) ==
  /\ n \in Rings /\ RingTo(n, f, f)
  /\ n.count = Buckets => n.sum = f - Interval + 1 .. f /\ Interval <= f
  /\ n.current = {} /\ n.sum \subseteq r.sum \cup r.current

(* One that does.                                                           *)
LEMMA BucketFills ==
  ASSUME NEW r \in Rings, NEW e \in Nat, NEW f \in Nat, Filled(r, e, f),
         NEW n, n = NextBucket(r)
  PROVE  NewRing(n, r, f)
<1> USE DEF Filled, NewRing
<1> DEFINE full == r.count = Buckets
           oldest == r.buckets[r.index]
           c == IF full THEN r.count ELSE r.count + 1
           i == (r.index + 1) % Buckets
           s == (IF full THEN r.sum \ oldest ELSE r.sum) \union r.current
           b == [r.buckets EXCEPT ![r.index] = r.current]
           T(k) == k * BucketTicks
<1>1. /\ r.index \in 0 .. Buckets - 1 /\ r.count \in 0 .. Buckets
      /\ r.buckets \in [0 .. Buckets - 1 -> SUBSET Ticks]
      /\ r.sum \subseteq Ticks /\ r.current \subseteq Ticks
  BY DEF Rings
<1>2. n = [buckets |-> b, index |-> i, count |-> c, sum |-> s, current |-> {}]
  BY DEF NextBucket
<1>3. /\ i \in 0 .. Buckets - 1 /\ Slot(i, 1) = r.index
      /\ \A k \in 2 .. Buckets : /\ Slot(i, k) = Slot(r.index, k - 1)
                                 /\ Slot(r.index, k - 1) # r.index
                                 /\ Slot(r.index, k - 1) \in 0 .. Buckets - 1
      /\ Slot(r.index, Buckets) = r.index
  BY <1>1, NextSlot
<1>4. \A k \in Nat : /\ T(k) \in Nat /\ T(k + 1) = T(k) + BucketTicks
                     /\ k > 0 => T(k - 1) = T(k) - BucketTicks
  BY Constants, Times
<1>5. T(r.count) <= e /\ r.sum = e - T(r.count) + 1 .. e
  OBVIOUS
<1>6. \A k \in 1 .. r.count : r.buckets[Slot(r.index, k)] = e - T(k) + 1 .. e - T(k - 1)
  OBVIOUS
<1>7. T(Buckets) = Interval
  BY IntervalIs
<1>8. T(1) = BucketTicks /\ T(0) = 0
  BY Constants
<1> HIDE DEF T, b, i
<1>9. /\ c \in 1 .. Buckets /\ c <= r.count + 1 /\ r.count \in Nat
      /\ c = IF full THEN Buckets ELSE r.count + 1
  BY <1>1, Constants
<1>9a. /\ b \in [0 .. Buckets - 1 -> SUBSET Ticks] /\ b[r.index] = r.current
       /\ \A x \in 0 .. Buckets - 1 : x # r.index => b[x] = r.buckets[x]
  BY <1>1 DEF b
<1>10. T(c) <= f /\ s = f - T(c) + 1 .. f
  <2>1. CASE full
    <3>1. oldest = e - T(Buckets) + 1 .. e - T(Buckets - 1)
      BY <1>1, <1>3, <1>6, <2>1, Constants
    <3>2. T(Buckets - 1) = T(Buckets) - BucketTicks /\ T(Buckets) \in Nat
      BY <1>4, Constants
    <3>3. r.sum \ oldest = e - T(Buckets - 1) + 1 .. e
      BY <1>5, <2>1, <3>1, <3>2, Constants
    <3>4. T(Buckets) <= e
      BY <1>5, <2>1
    <3>5. (e - T(Buckets - 1) + 1 .. e) \cup (e + 1 .. f) = e - T(Buckets - 1) + 1 .. f
      <4> DEFINE a == e - T(Buckets - 1) + 1
      <4>1. a \in Int /\ a <= e + 1 /\ e <= f
        <5>0. Buckets - 1 \in Nat
          BY Constants
        <5>1. T(Buckets - 1) \in Nat
          BY <1>4, <5>0
        <5> QED BY <5>1, Constants
      <4> HIDE DEF a
      <4>2. (a .. e) \cup (e + 1 .. f) = a .. f
        BY <4>1, Joined
      <4> QED BY <4>2 DEF a
    <3>6. e - T(Buckets - 1) + 1 = f - T(Buckets) + 1
      BY <3>2, Constants
    <3>7. T(Buckets) <= f
      BY <3>2, <3>4, Constants
    <3>8. c = Buckets /\ s = (r.sum \ oldest) \cup r.current
      BY <2>1
    <3> HIDE DEF c, s, oldest
    <3> QED BY <3>3, <3>5, <3>6, <3>7, <3>8
  <2>2. CASE ~full
    <3>1. T(r.count + 1) = T(r.count) + BucketTicks /\ T(r.count) \in Nat
      BY <1>4, <1>9
    <3>2. (e - T(r.count) + 1 .. e) \cup (e + 1 .. f) = e - T(r.count) + 1 .. f
      <4> DEFINE a == e - T(r.count) + 1
      <4>1. a \in Int /\ a <= e + 1 /\ e <= f
        BY <3>1, Constants
      <4> HIDE DEF a
      <4>2. (a .. e) \cup (e + 1 .. f) = a .. f
        BY <4>1, Joined
      <4> QED BY <4>2 DEF a
    <3>3. e - T(r.count) + 1 = f - T(r.count + 1) + 1
      BY <3>1, Constants
    <3>4. T(r.count + 1) <= f
      BY <1>5, <3>1, Constants
    <3>5. c = r.count + 1 /\ s = r.sum \cup r.current
      BY <2>2
    <3> HIDE DEF c, s
    <3> QED BY <1>5, <3>2, <3>3, <3>4, <3>5
  <2> QED BY <2>1, <2>2
<1>11. \A k \in 1 .. c : b[Slot(i, k)] = f - T(k) + 1 .. f - T(k - 1)
  <2> SUFFICES ASSUME NEW k \in 1 .. c
               PROVE  b[Slot(i, k)] = f - T(k) + 1 .. f - T(k - 1)
    OBVIOUS
  <2>1. CASE k = 1
    <3>1. f - T(1) + 1 = e + 1 /\ f - T(0) = f
      BY <1>8, Constants
    <3> QED BY <1>3, <1>9a, <2>1, <3>1
  <2>2. CASE k > 1
    <3> DEFINE j == k - 1
    <3>1. /\ j \in 1 .. r.count /\ j \in Nat /\ j > 0 /\ k = j + 1
          /\ k \in 2 .. Buckets
      <4> HIDE DEF c, Filled, NewRing, j
      <4>1. k \in Int /\ k >= 2 /\ k <= c
        BY <1>9, <2>2
      <4>2. /\ r.count \in Int /\ c \in Int /\ Buckets \in Int
            /\ c <= Buckets /\ c <= r.count + 1
        BY <1>9, Constants
      <4>3. j = k - 1
        BY DEF j
      <4> QED BY <4>1, <4>2, <4>3
    <3>2. b[Slot(i, k)] = r.buckets[Slot(r.index, j)]
      <4>1. j = k - 1
        OBVIOUS
      <4> HIDE DEF c, s, j
      <4>2. /\ Slot(i, k) = Slot(r.index, k - 1)
            /\ Slot(r.index, k - 1) # r.index
            /\ Slot(r.index, k - 1) \in 0 .. Buckets - 1
        BY <1>3, <3>1
      <4>3. b[Slot(r.index, k - 1)] = r.buckets[Slot(r.index, k - 1)]
        BY <1>9a, <4>2
      <4> QED BY <4>1, <4>2, <4>3
    <3>3. T(k) = T(j) + BucketTicks /\ T(k - 1) = T(j - 1) + BucketTicks
          /\ T(j) \in Nat /\ T(j - 1) \in Nat
      <4>1. /\ T(j) \in Nat /\ T(j + 1) = T(j) + BucketTicks
            /\ T(j - 1) = T(j) - BucketTicks
        BY <1>4, <3>1
      <4>2. j - 1 \in Nat
        BY <3>1
      <4>3. T(j - 1) \in Nat
        BY <1>4, <4>2
      <4> QED BY <3>1, <4>1, <4>3, Constants
    <3>4. r.buckets[Slot(r.index, j)] = e - T(j) + 1 .. e - T(j - 1)
      BY <1>6, <3>1
    <3>5. f - T(k) + 1 = e - T(j) + 1 /\ f - T(k - 1) = e - T(j - 1)
      BY <3>3, Constants
    <3> QED BY <3>2, <3>4, <3>5
  <2> QED BY <2>1, <2>2, <1>9
<1>12. s \subseteq r.sum \cup r.current
  OBVIOUS
<1> HIDE DEF c, s
<1>13. /\ n.buckets = b /\ n.index = i /\ n.count = c /\ n.sum = s
       /\ n.current = {}
  BY <1>2
<1>14. n \in Rings
  <2>1. s \in SUBSET Ticks /\ {} \in SUBSET Ticks /\ c \in 0 .. Buckets
    BY <1>1, <1>9, <1>12
  <2>2. i \in 0 .. Buckets - 1 /\ b \in [0 .. Buckets - 1 -> SUBSET Ticks]
    BY <1>3, <1>9a
  <2> QED BY <1>2, <2>1, <2>2 DEF Rings
<1>15. f + 1 .. f = {} /\ f - f < BucketTicks
  BY Constants
<1>16. RingTo(n, f, f)
  BY <1>10, <1>11, <1>13, <1>15 DEF RingTo, T
<1>17. n.count = Buckets => n.sum = f - Interval + 1 .. f /\ Interval <= f
  BY <1>7, <1>10, <1>13
<1> QED BY <1>12, <1>13, <1>14, <1>16, <1>17

(* A non-empty set of naturals has a least element: the induction over the  *)
(* ticks of a window uses this one.                                         *)
LEMMA Least ==
  ASSUME NEW T \in SUBSET Nat, T # {}
  PROVE  \E m \in T : \A k \in T : m <= k
<1> DEFINE R == OpToRel(<, Nat)
<1>1. IsWellFoundedOn(R, Nat)
  BY NatLessThanWellFounded
<1>2. \A x, y \in Nat : <<y, x>> \in R <=> y < x
  BY DEF OpToRel
<1> HIDE DEF R
<1>3. \E x \in T : \A y \in T : <<y, x>> \notin R
  BY <1>1, WFMin
<1>4. PICK x \in T : \A y \in T : <<y, x>> \notin R
  BY <1>3
<1>5. \A y \in T : x <= y
  <2> SUFFICES ASSUME NEW y \in T PROVE x <= y
    OBVIOUS
  <2>1. x \in Nat /\ y \in Nat
    OBVIOUS
  <2>2. ~(y < x)
    BY <1>2, <1>4, <2>1
  <2> QED BY <2>1, <2>2
<1> QED BY <1>5

(* f is the recursion of AddInterval for n ticks after b.                   *)
Ticked(f, d, n, b, larger) ==
  f = [i \in 0 .. n |-> IF i = 0 THEN d ELSE AddTick(f[i - 1], b + i, larger)]

(* That recursion has a value: the greatest one without would have a        *)
(* predecessor with.                                                        *)
LEMMA TicksExist ==
  ASSUME NEW d, NEW n \in Nat, NEW b \in Int, NEW larger
  PROVE  \E f : Ticked(f, d, n, b, larger)
<1> DEFINE Good(m) == \E f : f = [i \in 0 .. m |-> IF i = 0 THEN d
                       ELSE AddTick(f[i - 1], b + i, larger)]
           T == {m \in Nat : ~Good(m)}
<1>1. Good(0)
  <2>1. [i \in 0 .. 0 |-> d] = [i \in 0 .. 0 |-> IF i = 0 THEN d
                       ELSE AddTick([j \in 0 .. 0 |-> d][i - 1], b + i, larger)]
    OBVIOUS
  <2> QED BY <2>1
<1>2. ASSUME NEW m \in Nat, Good(m) PROVE Good(m + 1)
  <2>1. PICK f : f = [i \in 0 .. m |-> IF i = 0 THEN d
                       ELSE AddTick(f[i - 1], b + i, larger)]
    BY <1>2
  <2> DEFINE g == [i \in 0 .. m + 1 |-> IF i <= m THEN f[i]
                      ELSE AddTick(f[m], b + m + 1, larger)]
  <2>2. g = [i \in 0 .. m + 1 |-> IF i = 0 THEN d
                       ELSE AddTick(g[i - 1], b + i, larger)]
    <3> SUFFICES ASSUME NEW i \in 0 .. m + 1
                 PROVE  g[i] = IF i = 0 THEN d
                               ELSE AddTick(g[i - 1], b + i, larger)
      OBVIOUS
    <3>1. CASE i = 0
      BY <2>1, <3>1
    <3>2. CASE i \in 1 .. m
      <4>1. g[i] = f[i] /\ g[i - 1] = f[i - 1]
        BY <3>2
      <4>2. f[i] = AddTick(f[i - 1], b + i, larger)
        BY <2>1, <3>2
      <4> QED BY <3>2, <4>1, <4>2
    <3>3. CASE i = m + 1
      <4>1. g[i] = AddTick(f[m], b + i, larger) /\ g[i - 1] = f[m]
        BY <3>3
      <4> QED BY <3>3, <4>1
    <3> QED BY <3>1, <3>2, <3>3
  <2> QED BY <2>2
<1> HIDE DEF Good
<1>3. T = {}
  <2> SUFFICES ASSUME T # {} PROVE FALSE
    OBVIOUS
  <2>1. PICK m \in T : \A k \in T : m <= k
    BY Least
  <2>2. m # 0 /\ m - 1 \in Nat /\ m - 1 \notin T
    BY <1>1, <2>1
  <2>3. Good(m - 1)
    BY <2>2
  <2>4. Good(m - 1 + 1)
    BY <1>2, <2>2, <2>3
  <2> QED BY <2>1, <2>2, <2>4
<1>4. Good(n)
  BY <1>3
<1> QED BY <1>4 DEF Good, Ticked

(* The values an interval goes through, tick by tick.                       *)
Steps(f, d, w, larger) ==
  /\ f[0] = d
  /\ \A i \in 1 .. w.duration :
       f[i] = AddTick(f[i - 1], w.end - w.duration + i, larger)
  /\ AddInterval(d, w, larger) = f[w.duration]

(* AddInterval goes through its steps.                                      *)
LEMMA Added ==
  ASSUME NEW d, NEW w, w.ok, w.duration \in Nat, w.end \in Int, NEW larger
  PROVE  \E f : Steps(f, d, w, larger)
<1> DEFINE b == w.end - w.duration
           n == w.duration
           f == CHOOSE g : g = [i \in 0 .. w.duration |-> IF i = 0 THEN d
                       ELSE AddTick(g[i - 1], w.end - w.duration + i, larger)]
<1>1. AddInterval(d, w, larger) = f[w.duration]
  BY DEF AddInterval
<1>2. \E g : Ticked(g, d, n, b, larger)
  <2>1. b \in Int /\ n \in Nat
    OBVIOUS
  <2> HIDE DEF b, n
  <2> QED BY <2>1, TicksExist
<1>3. Ticked(f, d, n, b, larger)
  BY <1>2, Zenon DEF Ticked
<1> HIDE DEF f
<1>3a. f = [i \in 0 .. w.duration |-> IF i = 0 THEN d
                       ELSE AddTick(f[i - 1], w.end - w.duration + i, larger)]
  BY <1>3 DEF Ticked
<1>4. f[0] = d /\ \A i \in 1 .. w.duration :
         f[i] = AddTick(f[i - 1], w.end - w.duration + i, larger)
  BY <1>3a
<1> QED BY <1>1, <1>4 DEF Steps

-----------------------------------------------------------------------------
(* The day and its maximum.                                                 *)

(* The day and the preferences as check_day_ handles them.                  *)
Pairs == [day : Days, pref : Prefs]
PairInv(d) == d \in Pairs /\ DayInv(d.day, d.pref, now, clockValid)

(* save_maximum_ keeps the day's invariant for any maximum of that day.     *)
LEMMA SaveForm ==
  ASSUME NEW d, d.day \in Days, d.pref \in Prefs,
         DayInv(d.day, d.pref, now, clockValid),
         NEW maximum \in SUBSET Ticks, MaxOk(d.day.key, maximum),
         d.day.key <= DayAt(now),
         NEW q, q = SaveMaximum(d, maximum)
  PROVE  /\ PairInv(q) /\ q.day.key = d.day.key
         /\ q.pref.restored = d.pref.restored
<1> DEFINE y == [d.day EXCEPT !.maximum = maximum]
           s == [key |-> d.day.key, maximum |-> maximum]
           p == [d.pref EXCEPT !.saved = s]
<1>1. q = [day |-> y, pref |-> p]
  BY DEF SaveMaximum
<1>2. /\ y \in Days /\ y.key = d.day.key /\ y.start = d.day.start
      /\ y.maximum = maximum
  BY DEF Days
<1>3. /\ s \in Saved /\ s.key = d.day.key /\ s.maximum = maximum
  BY DEF Days, Saved
<1> HIDE DEF s, y
<1>4. /\ p \in Prefs /\ p.saved = s /\ p.flash = d.pref.flash
      /\ p.restored = d.pref.restored
  BY <1>3 DEF Prefs
<1> HIDE DEF p
<1>5. /\ q \in Pairs /\ q.day = y /\ q.pref = p
  BY <1>1, <1>2, <1>4 DEF Pairs
<1>6. DayInv(y, p, now, clockValid)
  BY <1>2, <1>3, <1>4 DEF DayInv
<1> QED BY <1>2, <1>4, <1>5, <1>6 DEF PairInv

(* reset_daily_maximum_ starts the day that is now, without a maximum.      *)
LEMMA ResetForm ==
  ASSUME NEW d, d.day \in Days, d.pref \in Prefs,
         DayInv(d.day, d.pref, now, clockValid),
         d = [day |-> d.day, pref |-> d.pref],
         clockValid, now \in 0 .. MaxNow, NEW q, q = ResetDailyMaximum(d, DayAt(now))
  PROVE  /\ PairInv(q) /\ q.day.key = DayAt(now)
         /\ q.pref.restored = d.pref.restored
<1> DEFINE none == {}
           k == DayAt(now)
           b == [key |-> k, start |-> now, maximum |-> d.day.maximum]
           m == [d EXCEPT !.day = b]
<1>1. k \in 1 .. DayAt(MaxNow) /\ now \in 0 .. Wrap - 1 /\ none \in SUBSET Ticks
      /\ k \in Int
  BY DayRange, Constants
<1>2. /\ m.day = b /\ m.pref = d.pref
  OBVIOUS
<1>3. /\ b \in Days /\ b.key = k /\ b.start = now /\ b.maximum = d.day.maximum
  <2>1. d.day.maximum \in SUBSET Ticks
    BY DEF Days
  <2>2. now \in 0 .. Wrap - 1 /\ k \in 0 .. DayAt(MaxNow)
    BY <1>1
  <2> HIDE DEF k
  <2> QED BY <2>1, <2>2 DEF Days
<1>4. q = SaveMaximum(m, none)
  BY DEF ResetDailyMaximum
<1>5. q = [day |-> [b EXCEPT !.maximum = none],
           pref |-> [d.pref EXCEPT !.saved = [key |-> b.key, maximum |-> none]]]
  BY <1>2, <1>4 DEF SaveMaximum
<1> DEFINE w == [b EXCEPT !.maximum = none]
           s == [key |-> b.key, maximum |-> none]
           p == [d.pref EXCEPT !.saved = s]
<1> HIDE DEF b, m, none, k
<1>6. /\ w \in Days /\ w.key = k /\ w.start = now /\ w.maximum = none
  BY <1>1, <1>3 DEF Days
<1>7. s \in Saved /\ s.key = k /\ s.maximum = none
  BY <1>1, <1>3 DEF Saved
<1> HIDE DEF s, w
<1>8. /\ p \in Prefs /\ p.saved = s /\ p.flash = d.pref.flash
      /\ p.restored = d.pref.restored
  BY <1>7 DEF Prefs
<1>9. q = [day |-> w, pref |-> p]
  BY <1>5 DEF s, w
<1> HIDE DEF p
<1>10. q \in Pairs /\ q.day = w /\ q.pref = p
  BY <1>6, <1>8, <1>9 DEF Pairs
<1>11. MaxOk(k, none)
  BY DEF MaxOk, none
<1>12. now <= now /\ k <= k /\ k = DayAt(now)
  BY <1>1 DEF k
<1>13. DayInv(w, p, now, clockValid)
  BY <1>6, <1>7, <1>8, <1>11, <1>12 DEF DayInv
<1> QED BY <1>6, <1>8, <1>10, <1>12, <1>13 DEF PairInv

(* check_day_ leaves the day that is now, if the clock is known.            *)
LEMMA CheckForm ==
  ASSUME NEW d, PairInv(d), clockValid \in BOOLEAN, now \in 0 .. MaxNow,
         NEW q, q = CheckDay(d)
  PROVE  /\ PairInv(q)
         /\ clockValid => q.day.key = DayAt(now)
         /\ q.pref.restored = d.pref.restored
<1>1. /\ d.day \in Days /\ d.pref \in Prefs
      /\ DayInv(d.day, d.pref, now, clockValid)
      /\ d = [day |-> d.day, pref |-> d.pref]
  BY DEF PairInv, Pairs
<1>2. CASE ~clockValid \/ d.day.key = DayAt(now)
  BY <1>2 DEF CheckDay
<1>3. CASE clockValid /\ d.day.key # DayAt(now)
           /\ d.day.key = 0 /\ d.pref.restored.key = DayAt(now)
  <2> DEFINE maximum == d.pref.restored.maximum
             start == IF maximum = {} THEN now ELSE (now - Interval) % Wrap
             y == [key |-> DayAt(now), maximum |-> maximum, start |-> start]
  <2>1. q = [d EXCEPT !.day = y]
    BY <1>3 DEF CheckDay
  <2>2. d.pref.restored \in Saved
    BY <1>1 DEF Prefs
  <2>3. start \in 0 .. Wrap - 1
    BY Constants, IntervalIs
  <2>4. DayAt(now) \in 0 .. DayAt(MaxNow)
    BY DayRange
  <2> HIDE DEF start
  <2>5. y \in Days
    BY <2>2, <2>3, <2>4 DEF Days, Saved
  <2>6. q = [day |-> y, pref |-> d.pref]
    BY <1>1, <2>1
  <2>7. MaxOk(y.key, y.maximum)
    BY <1>1, <1>3 DEF DayInv
  <2>8. y.key <= DayAt(now) /\ y.key = d.pref.restored.key /\ y.key = DayAt(now)
    BY <1>3, <2>4
  <2> HIDE DEF y
  <2>9. DayInv(y, d.pref, now, clockValid)
    BY <1>1, <1>3, <2>7, <2>8 DEF DayInv
  <2> QED BY <1>1, <2>5, <2>6, <2>8, <2>9 DEF PairInv, Pairs
<1>4. CASE clockValid /\ d.day.key # DayAt(now)
           /\ ~(d.day.key = 0 /\ d.pref.restored.key = DayAt(now))
  <2>1. q = ResetDailyMaximum(d, DayAt(now))
    BY <1>4 DEF CheckDay
  <2> QED BY <1>1, <1>4, <2>1, ResetForm
<1> QED BY <1>2, <1>3, <1>4

(* A full ring that counts for the day lies in it.                          *)
LEMMA TodayMaximum ==
  ASSUME NEW d, PairInv(d), clockValid => d.day.key = DayAt(now),
         now \in 0 .. MaxNow,
         NEW end \in Nat, end <= now, Interval <= end,
         NEW S, S = end - Interval + 1 .. end,
         \A x \in S : d.pref.restored.key <= DayOfTick(x),
         CountsForToday(d, end)
  PROVE  MaxOk(d.day.key, S)
<1> DEFINE key == d.day.key
           start == d.day.start
<1>1. /\ key # 0 /\ Elapsed(start, end) <= IntMax
      /\ Elapsed(start, end) >= Interval
  BY DEF CountsForToday
<1>2. /\ key \in Int /\ start \in 0 .. Wrap - 1
      /\ d.pref.restored \in Saved
  BY DEF PairInv, Pairs, Days, Saved, Prefs
<1>3. /\ key = DayAt(now)
      /\ key = d.pref.restored.key \/ (start <= now /\ DayAt(start) = key)
  BY <1>1 DEF PairInv, DayInv
<1>4. \A x \in S : DayOfTick(x) <= key
  <2> SUFFICES ASSUME NEW x \in S PROVE DayOfTick(x) <= key
    OBVIOUS
  <2> DEFINE a == x - 1
  <2>1. a \in Int /\ a <= now /\ now \in Int /\ a + 1 = x
    BY IntervalIs
  <2> HIDE DEF a
  <2>2. DayAt(a) <= DayAt(now) /\ DayOfTick(a + 1) = DayAt(a)
    BY <2>1, DayOrder
  <2> QED BY <1>3, <2>1, <2>2
<1>5. \A x \in S : key <= DayOfTick(x)
  <2>1. CASE key = d.pref.restored.key
    BY <2>1
  <2>2. CASE start <= now /\ DayAt(start) = key
    <3>1. start \in 0 .. MaxNow /\ end \in 0 .. MaxNow
      BY <1>2, <2>2, Constants
    <3>2. end - start >= Interval
      BY <1>1, <3>1, ElapsedValue
    <3> SUFFICES ASSUME NEW x \in S PROVE key <= DayOfTick(x)
      OBVIOUS
    <3> DEFINE a == x - 1
    <3>3. a \in Int /\ start <= a /\ start \in Int /\ a + 1 = x
      BY <3>1, <3>2, IntervalIs
    <3> HIDE DEF a, start
    <3>4. DayAt(start) <= DayAt(a) /\ DayOfTick(a + 1) = DayAt(a)
      <4>1. a \in Int
        BY <3>3
      <4>2. start \in Int
        BY <3>3
      <4>3. start <= a
        BY <3>3
      <4>4. DayAt(start) <= DayAt(a)
        BY <4>1, <4>2, <4>3, DayOrder
      <4>5. a <= a
        BY <4>1
      <4>6. DayOfTick(a + 1) = DayAt(a)
        BY <4>1, <4>5, DayOrder
      <4> QED BY <4>4, <4>6
    <3> QED BY <2>2, <3>3, <3>4
  <2> QED BY <1>3, <2>1, <2>2
<1>6. \A x \in S : DayOfTick(x) \in Int
  <2> SUFFICES ASSUME NEW x \in S PROVE DayOfTick(x) \in Int
    OBVIOUS
  <2> QED BY IntervalIs, Constants DEF DayOfTick
<1>7. Cardinality(S) = Interval
  <2> DEFINE a == end - Interval + 1
  <2>1. a \in Int /\ end \in Int /\ a <= end + 1 /\ end - a + 1 = Interval /\ S = a .. end
    BY IntervalIs
  <2> HIDE DEF a
  <2> QED BY <2>1, IntervalSize
<1> QED BY <1>2, <1>4, <1>5, <1>6, <1>7 DEF MaxOk

-----------------------------------------------------------------------------
(* The demand tracker: a tick, then an interval.                            *)

Demands == [ring : Rings, day : Days, pref : Prefs]

(* A tracker whose newest tick is t.                                        *)
DemandInv(d, t) ==
  /\ d \in Demands /\ RingAt(d.ring, t)
  /\ DayInv(d.day, d.pref, now, clockValid)
  /\ \A x \in d.ring.sum \cup d.ring.current :
       d.pref.restored.key <= DayOfTick(x)

(* finish_bucket_ on a ring that just got its new bucket n.                 *)
LEMMA FinishForm ==
  ASSUME clockValid \in BOOLEAN, now \in 0 .. MaxNow,
         NEW d, d \in Demands, DayInv(d.day, d.pref, now, clockValid),
         NEW f \in Nat, f <= now, NEW n \in Rings, n = NextBucket(d.ring),
         n.count = Buckets => n.sum = f - Interval + 1 .. f /\ Interval <= f,
         \A x \in n.sum : d.pref.restored.key <= DayOfTick(x),
         NEW larger \in BOOLEAN, NEW q, q = FinishBucket(d, f, larger)
  PROVE  /\ q \in Demands /\ q.ring = n
         /\ DayInv(q.day, q.pref, now, clockValid)
         /\ q.pref.restored = d.pref.restored
<1> DEFINE pair == [day |-> d.day, pref |-> d.pref]
           today == CheckDay(pair)
           kept == IF CountsForToday(today, f)
                      /\ (today.day.maximum = {} \/ larger)
                   THEN SaveMaximum(today, n.sum)
                   ELSE today
<1>1. q = IF n.count # Buckets THEN [d EXCEPT !.ring = n]
          ELSE [ring |-> n, day |-> kept.day, pref |-> kept.pref]
  BY DEF FinishBucket
<1>2. PairInv(pair) /\ pair.pref.restored = d.pref.restored
  BY DEF PairInv, Pairs, Demands
<1> HIDE DEF pair
<1>3. /\ PairInv(today)
      /\ clockValid => today.day.key = DayAt(now)
      /\ today.pref.restored = pair.pref.restored
  BY <1>2, CheckForm
<1> HIDE DEF today
<1>4. CASE n.count # Buckets
  <2>1. q = [ring |-> n, day |-> d.day, pref |-> d.pref]
    BY <1>1, <1>4 DEF Demands
  <2> QED BY <2>1 DEF Demands
<1>5. CASE n.count = Buckets
  <2>1. PairInv(kept) /\ kept.pref.restored = today.pref.restored
    <3>1. CASE CountsForToday(today, f) /\ (today.day.maximum = {} \/ larger)
      <4> DEFINE S == n.sum
      <4>1. S = f - Interval + 1 .. f /\ Interval <= f /\ S \in SUBSET Ticks
        BY <1>5 DEF Rings
      <4>2. \A x \in S : today.pref.restored.key <= DayOfTick(x)
        BY <1>2, <1>3
      <4>3. CountsForToday(today, f) /\ kept = SaveMaximum(today, S)
        BY <3>1
      <4>4. today.day \in Days /\ today.pref \in Prefs
            /\ DayInv(today.day, today.pref, now, clockValid)
        BY <1>3 DEF PairInv, Pairs
      <4>5. today.day.key <= DayAt(now)
        BY <4>3, <4>4 DEF CountsForToday, DayInv
      <4> HIDE DEF S, kept
      <4>6. MaxOk(today.day.key, S)
        <5>1. S = f - Interval + 1 .. f
          BY <4>1
        <5>2. Interval <= f
          BY <4>1
        <5>3. CountsForToday(today, f)
          BY <4>3
        <5>4. PairInv(today)
          BY <1>3
        <5>5. clockValid => today.day.key = DayAt(now)
          BY <1>3
        <5> QED BY <4>2, <5>1, <5>2, <5>3, <5>4, <5>5, TodayMaximum
      <4>7. /\ PairInv(kept) /\ kept.day.key = today.day.key
            /\ kept.pref.restored = today.pref.restored
        <5>1. today.day \in Days
          BY <4>4
        <5>2. today.pref \in Prefs
          BY <4>4
        <5>3. DayInv(today.day, today.pref, now, clockValid)
          BY <4>4
        <5>4. S \in SUBSET Ticks
          BY <4>1
        <5>5. kept = SaveMaximum(today, S)
          BY <4>3
        <5> QED BY <4>5, <4>6, <5>1, <5>2, <5>3, <5>4, <5>5, SaveForm
      <4> QED BY <4>7
    <3>2. CASE ~(CountsForToday(today, f) /\ (today.day.maximum = {} \/ larger))
      BY <1>3, <3>2
    <3> QED BY <3>1, <3>2
  <2>2. q = [ring |-> n, day |-> kept.day, pref |-> kept.pref]
    BY <1>1, <1>5
  <2> HIDE DEF kept
  <2>3. /\ kept.day \in Days /\ kept.pref \in Prefs
        /\ DayInv(kept.day, kept.pref, now, clockValid)
    BY <2>1 DEF PairInv, Pairs
  <2>4. /\ q \in Demands /\ q.ring = n /\ q.day = kept.day
        /\ q.pref = kept.pref
    BY <2>2, <2>3 DEF Demands
  <2> QED BY <1>2, <1>3, <2>1, <2>3, <2>4
<1> QED BY <1>4, <1>5

(* One tick more: it stays in the open bucket or closes it.                 *)
LEMMA AddTickForm ==
  ASSUME clockValid \in BOOLEAN, now \in 0 .. MaxNow,
         NEW d, NEW t \in Nat, DemandInv(d, t), t + 1 <= now,
         d.pref.restored.key <= DayAt(t), NEW larger \in BOOLEAN,
         NEW q, q = AddTick(d, t + 1, larger)
  PROVE  DemandInv(q, t + 1) /\ q.pref.restored = d.pref.restored
<1> DEFINE r == d.ring
           p == [r EXCEPT !.current = @ \union {t + 1}]
           next == [ring |-> p, day |-> d.day, pref |-> d.pref]
           n == NextBucket(p)
<1>1. d \in Demands /\ r \in Rings /\ d.day \in Days /\ d.pref \in Prefs
  BY DEF DemandInv, Demands
<1>2. PICK e \in 0 .. t : RingTo(r, e, t)
  BY DEF DemandInv, RingAt
<1>3. t + 1 \in Ticks
  BY Constants DEF Ticks
<1>4. /\ p \in Rings /\ p.count = r.count /\ p.sum = r.sum
      /\ p.buckets = r.buckets /\ p.index = r.index
      /\ p.current = e + 1 .. t + 1
      /\ Cardinality(p.current) = t + 1 - e
      /\ Cardinality(p.current) # BucketTicks => RingTo(p, e, t + 1)
  <2> HIDE DEF r
  <2> QED BY <1>1, <1>2, <1>3, TickInBucket
<1>5. [d EXCEPT !.ring.current = @ \union {t + 1}] = next
  BY <1>1 DEF Demands
<1>6. q = IF Cardinality(p.current) = BucketTicks
          THEN FinishBucket(next, t + 1, larger) ELSE next
  BY <1>5 DEF AddTick
<1>7. p.current = r.current \cup {t + 1}
  BY <1>1 DEF Rings
<1> HIDE DEF p
<1>8. next \in Demands /\ DayInv(next.day, next.pref, now, clockValid)
  BY <1>1, <1>4 DEF Demands, DemandInv
<1>9. \A x \in p.sum \cup p.current : d.pref.restored.key <= DayOfTick(x)
  <2>1. \A x \in r.sum \cup r.current : d.pref.restored.key <= DayOfTick(x)
    BY DEF DemandInv
  <2>2. d.pref.restored.key <= DayOfTick(t + 1)
    <3>1. t \in Int /\ t <= t
      OBVIOUS
    <3>2. DayOfTick(t + 1) = DayAt(t)
      BY <3>1, DayOrder
    <3> QED BY <3>2
  <2> HIDE DEF r
  <2> QED BY <1>4, <1>7, <2>1, <2>2
<1>10. CASE Cardinality(p.current) # BucketTicks
  <2>1. q = next
    BY <1>6, <1>10
  <2>2. RingTo(p, e, t + 1) /\ e \in 0 .. t + 1
    BY <1>4, <1>10
  <2>3. q.ring = p /\ q.day = d.day /\ q.pref = d.pref
    BY <2>1
  <2> HIDE DEF next
  <2>4. RingAt(q.ring, t + 1)
    BY <2>2, <2>3 DEF RingAt
  <2> QED BY <1>8, <1>9, <2>1, <2>3, <2>4 DEF DemandInv
<1>11. CASE Cardinality(p.current) = BucketTicks
  <2> DEFINE f == t + 1
  <2>1. f = e + BucketTicks /\ p.current = e + 1 .. f /\ f \in Nat /\ e \in Nat
    BY <1>4, <1>11, Constants
  <2>2. /\ p.count * BucketTicks <= e
        /\ p.sum = e - p.count * BucketTicks + 1 .. e
        /\ \A k \in 1 .. p.count : p.buckets[Slot(p.index, k)]
             = e - k * BucketTicks + 1 .. e - (k - 1) * BucketTicks
    BY <1>2, <1>4 DEF RingTo
  <2>3. /\ n \in Rings /\ RingTo(n, f, f)
        /\ n.count = Buckets => n.sum = f - Interval + 1 .. f /\ Interval <= f
        /\ n.current = {} /\ n.sum \subseteq p.sum \cup p.current
    <3> HIDE DEF f
    <3>0. n = NextBucket(p)
      OBVIOUS
    <3> HIDE DEF n
    <3>1. Filled(p, e, f)
      BY <2>1, <2>2 DEF Filled
    <3>2. f \in Nat
      BY <2>1
    <3>3. e \in Nat
      BY <2>1
    <3>4. p \in Rings
      BY <1>4
    <3>5. NewRing(n, p, f)
      BY <3>0, <3>1, <3>2, <3>3, <3>4, BucketFills
    <3> QED BY <3>5 DEF NewRing
  <2>4. q = FinishBucket(next, f, larger) /\ n = NextBucket(next.ring)
        /\ next.pref = d.pref
    BY <1>6, <1>11
  <2>5. \A x \in n.sum : next.pref.restored.key <= DayOfTick(x)
    BY <1>9, <2>3, <2>4
  <2> HIDE DEF n, f, next
  <2>6. /\ q \in Demands /\ q.ring = n
        /\ DayInv(q.day, q.pref, now, clockValid)
        /\ q.pref.restored = next.pref.restored
    <3>1. f \in Nat
      BY <2>1
    <3>2. f <= now
      BY DEF f
    <3>3. n \in Rings
      BY <2>3
    <3>4. n.count = Buckets => n.sum = f - Interval + 1 .. f /\ Interval <= f
      BY <2>3
    <3>5. n = NextBucket(next.ring)
      BY <2>4
    <3>6. q = FinishBucket(next, f, larger)
      BY <2>4
    <3>7. next \in Demands
      BY <1>8
    <3>8. DayInv(next.day, next.pref, now, clockValid)
      BY <1>8
    <3> QED BY <2>5, <3>1, <3>2, <3>3, <3>4, <3>5, <3>6, <3>7, <3>8, FinishForm
  <2>7. RingAt(q.ring, f)
    <3>1. f \in 0 .. f
      BY <2>1
    <3> QED BY <2>3, <2>6, <3>1 DEF RingAt
  <2>8. \A x \in q.ring.sum \cup q.ring.current :
          q.pref.restored.key <= DayOfTick(x)
    BY <2>3, <2>5, <2>6
  <2> QED BY <2>4, <2>6, <2>7, <2>8 DEF DemandInv, f
<1> QED BY <1>10, <1>11

-----------------------------------------------------------------------------
(* The consumers of a window.                                               *)

LEMMA AddIntervalForm ==
  ASSUME clockValid \in BOOLEAN, now \in 0 .. MaxNow,
         NEW w, w.ok, w.duration \in Nat, w.end \in Nat, w.end <= now,
         NEW t \in Nat, t = w.end - w.duration,
         NEW d, DemandInv(d, t), d.pref.restored.key <= DayAt(t),
         NEW larger \in BOOLEAN, NEW q, q = AddInterval(d, w, larger)
  PROVE  DemandInv(q, w.end) /\ q.pref.restored = d.pref.restored
<1>0. PICK f : Steps(f, d, w, larger)
  <2>1. w.duration \in Nat
    OBVIOUS
  <2>2. w.end \in Int
    OBVIOUS
  <2> QED BY <2>1, <2>2, Added
<1>1. /\ f[0] = d
      /\ \A i \in 1 .. w.duration :
           f[i] = AddTick(f[i - 1], w.end - w.duration + i, larger)
      /\ AddInterval(d, w, larger) = f[w.duration]
  BY <1>0 DEF Steps
<1> DEFINE key == d.pref.restored.key
           Good(i) == /\ DemandInv(f[i], t + i)
                      /\ f[i].pref.restored = d.pref.restored
           T == {i \in 0 .. w.duration : ~Good(i)}
<1>2. Good(0)
  BY <1>1
<1>3. ASSUME NEW i \in Nat, i < w.duration, Good(i) PROVE Good(i + 1)
  <2> DEFINE s == t + i
             x == f[i]
             y == f[i + 1]
  <2>1. i + 1 \in 1 .. w.duration /\ i + 1 - 1 = i
        /\ w.end - w.duration + (i + 1) = s + 1 /\ s + 1 <= now /\ s \in Nat
        /\ t <= s /\ t \in Int /\ t + (i + 1) = s + 1
    BY <1>3
  <2>2. y = AddTick(x, s + 1, larger)
    BY <1>1, <2>1
  <2>3. DemandInv(x, s) /\ x.pref.restored = d.pref.restored
    BY <1>3
  <2>4. x.pref.restored.key <= DayAt(s)
    <3>1. DayAt(t) <= DayAt(s) /\ DayAt(s) \in Int /\ DayAt(t) \in Int
      <4> HIDE DEF s
      <4>1. s \in Int
        BY <2>1
      <4>2. t <= s
        BY <2>1
      <4>3. t <= t /\ s <= s
        BY <4>1
      <4>4. DayAt(t) <= DayAt(s) /\ DayAt(t) \in Int
        BY <4>1, <4>2, DayOrder
      <4>5. DayAt(s) \in Int
        BY <4>1, <4>3, DayOrder
      <4> QED BY <4>4, <4>5
    <3>2. d.pref.restored.key \in Int
      BY DEF DemandInv, Demands, Prefs, Saved
    <3> HIDE DEF s, x
    <3>3. x.pref.restored.key = d.pref.restored.key
      BY <2>3
    <3> QED BY <3>1, <3>2, <3>3
  <2> HIDE DEF s, x, y
  <2>5. s \in Nat
    BY <2>1
  <2>6. s + 1 <= now
    BY <2>1
  <2>7. DemandInv(x, s)
    BY <2>3
  <2>8. DemandInv(y, s + 1) /\ y.pref.restored = x.pref.restored
    BY <2>2, <2>4, <2>5, <2>6, <2>7, AddTickForm
  <2>9. DemandInv(y, t + (i + 1)) /\ y.pref.restored = d.pref.restored
    BY <2>1, <2>3, <2>8
  <2> QED BY <2>9 DEF y
<1> HIDE DEF Good
<1>4. T = {}
  <2> SUFFICES ASSUME T # {} PROVE FALSE
    OBVIOUS
  <2>1. T \in SUBSET Nat
    OBVIOUS
  <2>2. PICK m \in T : \A k \in T : m <= k
    BY <2>1, Least
  <2>3. /\ m # 0 /\ m - 1 \in Nat /\ m - 1 \notin T /\ m - 1 < w.duration
        /\ m - 1 \in 0 .. w.duration /\ m - 1 + 1 = m
    BY <1>2, <2>2
  <2>4. Good(m - 1)
    BY <2>3
  <2>5. Good(m - 1 + 1)
    BY <1>3, <2>3, <2>4
  <2> QED BY <2>2, <2>3, <2>5
<1>5. Good(w.duration)
  BY <1>4
<1>6. t + w.duration = w.end
  OBVIOUS
<1> QED BY <1>1, <1>5, <1>6 DEF Good

(* TicksOf(w) continues a run that ends where the window begins.            *)
LEMMA RunGrows ==
  ASSUME NEW t \in Nat, NEW e \in Nat, t < e, NEW S, Run(S, t)
  PROVE  Run(S \cup (t + 1 .. e), e)
<1>1. CASE S = {}
  <2>1. S \cup (t + 1 .. e) = t + 1 .. e /\ t + 1 \in 1 .. e
    BY <1>1
  <2> QED BY <2>1 DEF Run
<1>2. CASE S # {}
  <2>1. PICK a \in 1 .. t : S = a .. t
    BY <1>2 DEF Run
  <2>2. a \in Int /\ t \in Int /\ e \in Int /\ a <= t + 1 /\ t <= e
    OBVIOUS
  <2>3. (a .. t) \cup (t + 1 .. e) = a .. e
    BY <2>2, Joined
  <2>4. a \in 1 .. e
    OBVIOUS
  <2> QED BY <2>1, <2>3, <2>4 DEF Run
<1> QED BY <1>1, <1>2

(* A run has no hole.                                                       *)
LEMMA RunContiguous ==
  ASSUME NEW t \in Nat, NEW S, Run(S, t)
  PROVE  Contiguous(S)
BY DEF Run, Contiguous

(* The peak window continues its run or starts with this window.            *)
LEMMA PeakForm ==
  ASSUME NEW p \in Peaks, NEW w \in Window, w.end <= MaxNow,
         NEW t \in Nat, t = w.end - w.duration, Run(p.ticks, t),
         NEW q, q = AddPeak(p, w)
  PROVE  q \in Peaks /\ Run(q.ticks, w.end)
<1> DEFINE o == ClosePeak(p, w.end)
<1>1. w.end \in Nat /\ t < w.end /\ TicksOf(w) = t + 1 .. w.end
      /\ w.end \in 0 .. MaxNow /\ w.ok \in BOOLEAN
  BY Constants DEF Window, TicksOf, Ticks
<1>2. NoPeak \in Peaks /\ NoPeak.ticks = {}
  BY Constants DEF NoPeak, Peaks
<1>3. o \in Peaks /\ Run(o.ticks, t)
  BY <1>2 DEF ClosePeak, Run
<1> HIDE DEF o
<1>4. CASE ~w.ok
  <2>1. q = NoPeak
    BY <1>4 DEF AddPeak
  <2> QED BY <1>2, <2>1 DEF Run
<1>5. CASE w.ok
  <2> DEFINE s == IF o.open THEN o.start ELSE w.end
             S == o.ticks \cup (t + 1 .. w.end)
  <2>1. q = [open |-> TRUE, start |-> s, ticks |-> S]
    BY <1>1, <1>5 DEF AddPeak, o
  <2>2. s \in 0 .. MaxNow
    BY <1>1, <1>3 DEF Peaks
  <2>3. t + 1 .. w.end \subseteq Ticks
    BY <1>1, Constants DEF Ticks
  <2>4. S \in SUBSET Ticks
    BY <1>3, <2>3 DEF Peaks
  <2>5. Run(S, w.end)
    BY <1>1, <1>3, RunGrows
  <2> HIDE DEF s, S
  <2> QED BY <2>1, <2>2, <2>4, <2>5 DEF Peaks
<1> QED BY <1>1, <1>4, <1>5

(* The analysis sums continue their run or start with this window.          *)
LEMMA AnalysisForm ==
  ASSUME NEW a \in Analyses, NEW w \in Window, w.end <= MaxNow,
         NEW t \in Nat, t = w.end - w.duration, Run(a.sum, t),
         Contiguous(a.pending), NEW publish \in BOOLEAN,
         NEW q, q = AddAnalysis(a, w, publish)
  PROVE  q \in Analyses /\ Run(q.sum, w.end) /\ Contiguous(q.pending)
<1> DEFINE sum == a.sum \cup (t + 1 .. w.end)
           done == Cardinality(sum) >= AnalysisTicks
           stored == IF ~w.ok THEN NoAnalysis
                     ELSE IF done THEN [sum |-> {}, pending |-> sum]
                     ELSE [a EXCEPT !.sum = sum]
<1>1. w.end \in Nat /\ t < w.end /\ TicksOf(w) = t + 1 .. w.end
  BY Constants DEF Window, TicksOf, Ticks
<1>2. t + 1 .. w.end \subseteq Ticks
  BY <1>1, Constants DEF Ticks
<1>3. sum \in SUBSET Ticks
  BY <1>2 DEF Analyses
<1>4. Run(sum, w.end)
  BY <1>1, RunGrows
<1>5. Contiguous(sum)
  BY <1>1, <1>4, RunContiguous
<1>6. q = IF publish THEN [stored EXCEPT !.pending = {}] ELSE stored
  BY <1>1 DEF AddAnalysis
<1>7. Run({}, w.end) /\ Contiguous({})
  BY DEF Run, Contiguous
<1> HIDE DEF sum, done
<1>8. stored \in Analyses /\ Run(stored.sum, w.end) /\ Contiguous(stored.pending)
  <2>1. CASE ~w.ok
    <3>1. stored = [sum |-> {}, pending |-> {}]
      BY <2>1 DEF NoAnalysis
    <3> QED BY <1>7, <3>1 DEF Analyses
  <2>2. CASE w.ok /\ done
    BY <1>3, <1>5, <1>7, <2>2 DEF Analyses
  <2>3. CASE w.ok /\ ~done
    <3>1. stored = [a EXCEPT !.sum = sum]
      BY <2>3
    <3> QED BY <1>3, <1>4, <3>1 DEF Analyses
  <2> QED BY <2>1, <2>2, <2>3
<1> HIDE DEF stored
<1>9. CASE publish
  <2>1. q = [stored EXCEPT !.pending = {}]
    BY <1>6, <1>9
  <2>2. q \in Analyses /\ q.sum = stored.sum /\ q.pending = {}
    BY <1>8, <2>1 DEF Analyses
  <2> QED BY <1>7, <1>8, <2>2
<1>10. CASE ~publish
  BY <1>6, <1>8, <1>10
<1> QED BY <1>9, <1>10

-----------------------------------------------------------------------------
(* What the consumers hold.                                                 *)

(* The clock and the time have their types.                                 *)
Current == clockValid \in BOOLEAN /\ now \in 0 .. MaxNow
(* The consumers c hold their invariant now.                                *)
Held(c) == FedInv(c, now, clockValid)

(* q holds what c held except that it may have been invalidated.            *)
Kept(q, c) ==
  /\ Held(q) /\ q.pref = c.pref
  /\ q.session.known = c.session.known /\ q.session.last = c.session.last
  /\ q.session.seq = c.session.seq /\ q.session.epoch = c.session.epoch
  /\ c.session.stale => q.session.stale
  /\ q.shown \in {Unknown, c.shown}

(* Consumers that do not change keep what they held.                        *)
LEMMA HeldKept ==
  ASSUME NEW c, Held(c)
  PROVE  Kept(c, c)
BY DEF Kept

(* invalidate_metering_ leaves nothing averaged and nothing shown.          *)
LEMMA InvalidatedForm ==
  ASSUME Current, NEW c, Held(c), NEW q, q = Invalidated(c)
  PROVE  Kept(q, c) /\ q.session.stale /\ q.shown = Unknown
<1> DEFINE s == [c.session EXCEPT !.stale = TRUE]
           r == IF c.session.stale THEN c.demand ELSE EmptyRing
<1>1. q = [session |-> s, shown |-> Unknown, demand |-> r, peak |-> NoPeak,
           analysis |-> NoAnalysis, daily |-> c.daily, pref |-> c.pref]
  BY DEF Invalidated
<1>2. /\ c \in Fed /\ c.session \in Sessions /\ c.daily \in Days
      /\ c.pref \in Prefs /\ c.session.last <= now
      /\ DayInv(c.daily, c.pref, now, clockValid)
  BY DEF Held, FedInv, Fed
<1>3. /\ s \in Sessions /\ s.stale = TRUE /\ s.known = c.session.known
      /\ s.last = c.session.last /\ s.seq = c.session.seq
      /\ s.epoch = c.session.epoch
  BY <1>2 DEF Sessions
<1>4. r = EmptyRing
  BY DEF Held, FedInv
<1>5. /\ EmptyRing \in Rings /\ RingAt(EmptyRing, s.last)
      /\ EmptyRing.sum = {} /\ EmptyRing.current = {}
  <2>1. s.last \in Nat
    BY <1>3, Constants DEF Sessions
  <2>2. EmptyRing.sum = {} /\ EmptyRing.current = {}
    BY DEF EmptyRing
  <2> QED BY <2>1, <2>2, EmptyRingAt
<1>6. /\ NoPeak \in Peaks /\ NoPeak.ticks = {}
  BY Constants DEF NoPeak, Peaks
<1>7. /\ NoAnalysis \in Analyses /\ NoAnalysis.sum = {} /\ NoAnalysis.pending = {}
  BY DEF NoAnalysis, Analyses
<1>8. Run({}, s.last) /\ Contiguous({})
  BY DEF Run, Contiguous
<1> HIDE DEF s, r
<1>9. /\ q.session = s /\ q.shown = Unknown /\ q.demand = EmptyRing
      /\ q.peak = NoPeak /\ q.analysis = NoAnalysis /\ q.daily = c.daily
      /\ q.pref = c.pref
  BY <1>1, <1>4
<1>10. q \in Fed
  <2>1. Unknown \in Ticks \cup {Unknown}
    OBVIOUS
  <2> DEFINE u == Unknown
             e == EmptyRing
             p == NoPeak
             a == NoAnalysis
  <2> HIDE DEF u, e, p, a
  <2>2. /\ u \in Ticks \cup {Unknown} /\ e \in Rings /\ p \in Peaks /\ a \in Analyses
        /\ q = [session |-> s, shown |-> u, demand |-> e, peak |-> p,
                analysis |-> a, daily |-> c.daily, pref |-> c.pref]
    BY <1>1, <1>4, <1>5, <1>6, <1>7, <2>1 DEF u, e, p, a
  <2> QED BY <1>2, <1>3, <2>2 DEF Fed
<1>11. Held(q)
  <2>1. \A x \in q.demand.sum \cup q.demand.current :
          q.pref.restored.key <= DayOfTick(x)
    BY <1>5, <1>9
  <2>2. q.session.last <= now /\ (~q.session.known => q.session.stale)
    BY <1>2, <1>3, <1>9
  <2>3. RingAt(q.demand, q.session.last)
    BY <1>5, <1>9
  <2>4. /\ Run(q.peak.ticks, q.session.last) /\ Run(q.analysis.sum, q.session.last)
        /\ Contiguous(q.analysis.pending)
    BY <1>6, <1>7, <1>8, <1>9
  <2>5. DayInv(q.daily, q.pref, now, clockValid)
    BY <1>2, <1>9
  <2>6. /\ q.demand = EmptyRing /\ q.peak = NoPeak
        /\ q.analysis = NoAnalysis /\ q.shown = Unknown
    BY <1>9
  <2> QED BY <1>10, <2>1, <2>2, <2>3, <2>4, <2>5, <2>6 DEF Held, FedInv
<1>12. q.session.stale
  BY <1>3, <1>9
<1>13. Kept(q, c)
  BY <1>3, <1>9, <1>11, <1>12 DEF Kept
<1> QED BY <1>9, <1>12, <1>13

(* A loop that stood still too long invalidates, or does nothing.           *)
LEMMA StalledForm ==
  ASSUME Current, NEW c, Held(c), NEW q, q = StalledLoop(c)
  PROVE  Kept(q, c)
BY InvalidatedForm, HeldKept DEF StalledLoop

(* After Discontinuity, either nothing is averaged yet or the window follows *)
(* the last one.                                                             *)
LEMMA DiscontinuityForm ==
  ASSUME Current, NEW c, Held(c), NEW w \in Window, NEW q, q = Discontinuity(c, w)
  PROVE  /\ Kept(q, c)
         /\ q.session.stale \/ (w.epoch = c.session.epoch /\ w.seq = c.session.seq + 1)
<1>1. CASE c.session.known /\ (w.epoch # c.session.epoch \/ w.seq - c.session.seq # 1)
  <2>1. q = Invalidated(c)
    BY <1>1 DEF Discontinuity
  <2> QED BY <2>1, InvalidatedForm
<1>2. CASE ~(c.session.known /\ (w.epoch # c.session.epoch \/ w.seq - c.session.seq # 1))
  <2>1. q = c
    BY <1>2 DEF Discontinuity
  <2>2. c.session.stale \/ (w.epoch = c.session.epoch /\ w.seq - c.session.seq = 1)
    BY <1>2 DEF Held, FedInv
  <2>3. c.session.seq \in Nat /\ w.seq \in Nat
    BY Constants DEF Held, FedInv, Fed, Sessions, Window
  <2> QED BY <2>1, <2>2, <2>3, HeldKept
<1> QED BY <1>1, <1>2

(* After the metering timeout was checked nothing older is shown.           *)
LEMMA TimeoutForm ==
  ASSUME Current, NEW c, Held(c), NEW q, q = CheckTimeout(c)
  PROVE  /\ Kept(q, c)
         /\ q.shown = Unknown \/ now - q.session.last <= Timeout
<1>1. CASE c.session.known /\ now - c.session.last > Timeout
  <2>1. q = Invalidated(c)
    BY <1>1 DEF CheckTimeout
  <2> QED BY <2>1, InvalidatedForm
<1>2. CASE ~c.session.known
  <2>1. q = c
    BY <1>2 DEF CheckTimeout
  <2>2. c.shown = Unknown
    BY <1>2 DEF Held, FedInv
  <2> QED BY <2>1, <2>2, HeldKept
<1>3. CASE c.session.known /\ ~(now - c.session.last > Timeout)
  <2>1. q = c
    BY <1>3 DEF CheckTimeout
  <2>2. c.session.last \in Nat /\ now \in Nat
    BY Constants DEF Held, FedInv, Fed, Sessions, Current
  <2>3. now - c.session.last <= Timeout
    BY <1>3, <2>2, Constants
  <2> QED BY <2>1, <2>3, HeldKept
<1> QED BY <1>1, <1>2, <1>3

(* A window the consumers may be given; key is the day key restored.        *)
Ready(w, key) ==
  /\ w \in Window /\ w.duration <= w.end /\ w.end <= now
  /\ w.seq \in 0 .. MaxNow /\ key <= DayAt(w.end - w.duration)

(* The session once w was accepted.                                         *)
After(w) == [stale |-> FALSE, known |-> TRUE, last |-> w.end, seq |-> w.seq,
             epoch |-> w.epoch]

(* publish_metering_frame_ on a window that continues what is held, or      *)
(* finds nothing held.                                                      *)
LEMMA PublishForm ==
  ASSUME Current, NEW c, Held(c), NEW w, Ready(w, c.pref.restored.key),
         c.session.stale \/ c.session.last = w.end - w.duration,
         NEW publish \in BOOLEAN, NEW larger \in BOOLEAN,
         NEW q, q = PublishFrame(Accept(c, w), w, publish, larger)
  PROVE  /\ Held(q) /\ q.pref.restored = c.pref.restored
         /\ q.session = After(w)
         /\ publish => q.shown \in {Unknown, w.end}
<1> DEFINE t == w.end - w.duration
           s == After(w)
           d0 == [ring |-> c.demand, day |-> c.daily, pref |-> c.pref]
           d == AddInterval(d0, w, larger)
           sh == IF ~publish THEN c.shown ELSE IF w.ok THEN w.end ELSE Unknown
           p == AddPeak(c.peak, w)
           a == AddAnalysis(c.analysis, w, publish)
<1>1. /\ w \in Window /\ w.end \in Nat /\ w.duration \in Nat /\ w.ok \in BOOLEAN
      /\ w.end <= now /\ w.end \in Ticks /\ w.epoch \in Nat
      /\ w.seq \in 0 .. MaxNow /\ w.end <= MaxNow /\ t \in Nat
      /\ c.pref.restored.key <= DayAt(t)
      /\ w.end \in 0 .. MaxNow
  BY Constants DEF Ready, Window, Ticks, Current
<1>2. /\ c \in Fed /\ c.session \in Sessions /\ c.daily \in Days
      /\ c.pref \in Prefs /\ c.demand \in Rings /\ c.peak \in Peaks
      /\ c.analysis \in Analyses /\ c.shown \in Ticks \cup {Unknown}
      /\ DayInv(c.daily, c.pref, now, clockValid)
  BY DEF Held, FedInv, Fed
<1>3. /\ RingAt(c.demand, t) /\ Run(c.peak.ticks, t) /\ Run(c.analysis.sum, t)
  <2>1. CASE c.session.stale
    <3>1. /\ c.demand = EmptyRing /\ c.peak.ticks = {} /\ c.analysis.sum = {}
      BY <2>1 DEF Held, FedInv, NoPeak, NoAnalysis
    <3>2. RingAt(EmptyRing, t)
      BY <1>1, EmptyRingAt
    <3> QED BY <3>1, <3>2 DEF Run
  <2>2. CASE c.session.last = t
    BY <2>2 DEF Held, FedInv
  <2> QED BY <2>1, <2>2
<1>4. q = [session |-> s, shown |-> sh, demand |-> d.ring, daily |-> d.day,
           pref |-> d.pref, peak |-> p, analysis |-> a]
  <2> DEFINE e == Accept(c, w)
  <2>1. e = [c EXCEPT !.session = s]
    BY DEF Accept, After
  <2>2. /\ e.session = s /\ e.shown = c.shown /\ e.demand = c.demand
        /\ e.daily = c.daily /\ e.pref = c.pref /\ e.peak = c.peak
        /\ e.analysis = c.analysis
    <3> HIDE DEF e, s
    <3> QED BY <1>2, <2>1 DEF Fed
  <2>3. q = PublishFrame(e, w, publish, larger)
    OBVIOUS
  <2> HIDE DEF e, s
  <2> QED BY <2>2, <2>3 DEF PublishFrame
<1>5. s \in Sessions /\ s.last = w.end /\ s.known /\ ~s.stale
  BY <1>1 DEF After, Sessions
<1>6. DemandInv(d0, t)
  <2>1. d0 \in Demands
    BY <1>2 DEF Demands
  <2>2. \A x \in c.demand.sum \cup c.demand.current :
          c.pref.restored.key <= DayOfTick(x)
    BY DEF Held, FedInv
  <2> QED BY <1>2, <1>3, <2>1, <2>2 DEF DemandInv
<1>7. DemandInv(d, w.end) /\ d.pref.restored = c.pref.restored
  <2>1. CASE w.ok
    <3>1. d0.pref.restored.key <= DayAt(t)
      BY <1>1
    <3>2. clockValid \in BOOLEAN /\ now \in 0 .. MaxNow
      BY DEF Current
    <3>3. d0.pref.restored = c.pref.restored
      OBVIOUS
    <3> HIDE DEF d0
    <3>4. t = w.end - w.duration
      OBVIOUS
    <3>5. d = AddInterval(d0, w, larger)
      OBVIOUS
    <3> HIDE DEF t, d
    <3>6. w.duration \in Nat
      BY <1>1
    <3>7. w.end \in Nat
      BY <1>1
    <3>8. w.end <= now
      BY <1>1
    <3>9. t \in Nat
      BY <1>1
    <3>10. clockValid \in BOOLEAN
      BY <3>2
    <3>11. now \in 0 .. MaxNow
      BY <3>2
    <3>12. DemandInv(d, w.end) /\ d.pref.restored = d0.pref.restored
      BY <1>6, <2>1, <3>1, <3>4, <3>5, <3>6, <3>7, <3>8, <3>9, <3>10, <3>11,
         AddIntervalForm
    <3> QED BY <3>3, <3>12
  <2>2. CASE ~w.ok
    <3>1. d = [d0 EXCEPT !.ring = EmptyRing]
      BY <2>2 DEF AddInterval
    <3>2. /\ EmptyRing \in Rings /\ RingAt(EmptyRing, w.end)
          /\ EmptyRing.sum = {} /\ EmptyRing.current = {}
      <4>1. EmptyRing.sum = {} /\ EmptyRing.current = {}
        BY DEF EmptyRing
      <4> QED BY <1>1, <4>1, EmptyRingAt
    <3>3. d = [ring |-> EmptyRing, day |-> c.daily, pref |-> c.pref]
      BY <3>1
    <3>4. d.ring = EmptyRing /\ d.day = c.daily /\ d.pref = c.pref
      BY <3>3
    <3>5. d \in Demands
      <4> DEFINE e == EmptyRing
      <4> HIDE DEF e
      <4>1. e \in Rings /\ d = [ring |-> e, day |-> c.daily, pref |-> c.pref]
        BY <3>2, <3>3 DEF e
      <4> HIDE DEF d
      <4> QED BY <1>2, <4>1 DEF Demands
    <3> HIDE DEF d
    <3>6. \A x \in d.ring.sum \cup d.ring.current :
            d.pref.restored.key <= DayOfTick(x)
      BY <3>2, <3>4
    <3> QED BY <1>2, <3>2, <3>4, <3>5, <3>6 DEF DemandInv
  <2> QED BY <1>1, <2>1, <2>2
<1> HIDE DEF d0, d
<1>8. p \in Peaks /\ Run(p.ticks, w.end)
  <2> HIDE DEF p, t
  <2>1. w \in Window
    BY <1>1
  <2>2. w.end <= MaxNow
    BY <1>1
  <2>3. t = w.end - w.duration
    BY DEF t
  <2>4. t \in Nat
    BY <1>1
  <2>5. Run(c.peak.ticks, t)
    BY <1>3
  <2>6. c.peak \in Peaks
    BY <1>2
  <2>7. p = AddPeak(c.peak, w)
    BY DEF p
  <2> QED BY <2>1, <2>2, <2>3, <2>4, <2>5, <2>6, <2>7, PeakForm
<1>9. a \in Analyses /\ Run(a.sum, w.end) /\ Contiguous(a.pending)
  <2> HIDE DEF a, t
  <2>1. w \in Window
    BY <1>1
  <2>2. w.end <= MaxNow
    BY <1>1
  <2>3. t = w.end - w.duration
    BY DEF t
  <2>4. t \in Nat
    BY <1>1
  <2>5. Run(c.analysis.sum, t)
    BY <1>3
  <2>6. c.analysis \in Analyses
    BY <1>2
  <2>7. a = AddAnalysis(c.analysis, w, publish)
    BY DEF a
  <2>8. Contiguous(c.analysis.pending)
    BY DEF Held, FedInv
  <2> QED BY <2>1, <2>2, <2>3, <2>4, <2>5, <2>6, <2>7, <2>8, AnalysisForm
<1>10. sh \in Ticks \cup {Unknown} /\ (publish => sh \in {Unknown, w.end})
  BY <1>1, <1>2
<1> HIDE DEF s, sh, p, a, t
<1>11. /\ q.session = s /\ q.shown = sh /\ q.demand = d.ring /\ q.daily = d.day
       /\ q.pref = d.pref /\ q.peak = p /\ q.analysis = a
  BY <1>4
<1>12. /\ d.ring \in Rings /\ d.day \in Days /\ d.pref \in Prefs
       /\ RingAt(d.ring, w.end) /\ DayInv(d.day, d.pref, now, clockValid)
       /\ \A x \in d.ring.sum \cup d.ring.current :
            d.pref.restored.key <= DayOfTick(x)
  BY <1>7 DEF DemandInv, Demands
<1>13. q \in Fed
  BY <1>4, <1>5, <1>8, <1>9, <1>10, <1>12 DEF Fed
<1>14. Held(q)
  <2>1. q.session.known /\ ~q.session.stale /\ q.session.last = w.end
        /\ q.session.last <= now
    BY <1>1, <1>5, <1>11
  <2>2. RingAt(q.demand, q.session.last)
    BY <1>11, <1>12, <2>1
  <2>3. /\ Run(q.peak.ticks, q.session.last) /\ Run(q.analysis.sum, q.session.last)
        /\ Contiguous(q.analysis.pending)
    BY <1>8, <1>9, <1>11, <2>1
  <2>4. DayInv(q.daily, q.pref, now, clockValid)
    BY <1>11, <1>12
  <2>5. \A x \in q.demand.sum \cup q.demand.current :
          q.pref.restored.key <= DayOfTick(x)
    BY <1>11, <1>12
  <2> QED BY <1>13, <2>1, <2>2, <2>3, <2>4, <2>5 DEF Held, FedInv
<1> QED BY <1>7, <1>10, <1>11, <1>14 DEF s

(* submit_metering_frame_ on a window that follows what the session has.    *)
LEMMA SubmitForm ==
  ASSUME Current, NEW c, c = Consumers, Held(c),
         NEW w, Ready(w, c.pref.restored.key),
         c.session.known => Follows(w, c.session.seq, c.session.epoch, c.session.last),
         NEW publish \in BOOLEAN, NEW larger \in BOOLEAN,
         NEW q, q = Submit(w, publish, larger)
  PROVE  /\ Held(q) /\ q.pref.restored = c.pref.restored
         /\ q.session \in {c.session, After(w)}
         /\ publish => q.shown \in {Unknown, q.session.last}
                       \/ now - q.session.last > Timeout
<1>1. /\ w.end \in Nat /\ w.duration \in Nat /\ w.duration > 0 /\ w \in Window
      /\ w.end <= now /\ now \in Nat /\ c.session.last \in Nat
  BY Constants DEF Ready, Window, Ticks, Current, Held, FedInv, Fed, Sessions
<1>2. CASE now - w.end > Timeout
  <2>1. q = c
    BY <1>2 DEF Submit
  <2>2. CASE ~c.session.known
    <3>1. c.shown = Unknown
      BY <2>2 DEF Held, FedInv
    <3> QED BY <2>1, <3>1
  <2>3. CASE c.session.known
    <3>1. c.session.last <= w.end - w.duration
      BY <2>3 DEF Follows
    <3>2. now - c.session.last > Timeout
      BY <1>1, <1>2, <3>1, Constants
    <3> QED BY <2>1, <3>2
  <2>4. c.session.known \in BOOLEAN
    BY DEF Held, FedInv, Fed, Sessions
  <2> QED BY <2>2, <2>3, <2>4
<1>3. CASE ~(now - w.end > Timeout)
  <2> DEFINE a == StalledLoop(c)
             b == Discontinuity(a, w)
  <2>1. q = PublishFrame(Accept(b, w), w, publish, larger)
    BY <1>3 DEF Submit
  <2>2. Kept(a, c)
    BY StalledForm
  <2> HIDE DEF a
  <2>3. Held(a)
    BY <2>2 DEF Kept
  <2>4. /\ Kept(b, a)
        /\ b.session.stale \/ (w.epoch = a.session.epoch /\ w.seq = a.session.seq + 1)
    BY <1>1, <2>3, DiscontinuityForm
  <2> HIDE DEF b
  <2>5. Held(b) /\ b.pref = c.pref
    BY <2>2, <2>4 DEF Kept
  <2>6. b.session.stale \/ b.session.last = w.end - w.duration
    <3> SUFFICES ASSUME ~b.session.stale
                 PROVE  b.session.last = w.end - w.duration
      OBVIOUS
    <3>1. b.session.known
      BY <2>5 DEF Held, FedInv
    <3>2. /\ c.session.known /\ b.session.last = c.session.last
          /\ w.epoch = c.session.epoch /\ w.seq = c.session.seq + 1
      BY <2>2, <2>4, <3>1 DEF Kept
    <3> QED BY <3>2 DEF Follows
  <2>7. Ready(w, b.pref.restored.key)
    BY <2>5
  <2>8. /\ Held(q) /\ q.pref.restored = b.pref.restored
        /\ q.session = After(w)
        /\ publish => q.shown \in {Unknown, w.end}
    BY <2>1, <2>5, <2>6, <2>7, PublishForm
  <2>9. After(w).last = w.end
    BY DEF After
  <2> QED BY <2>5, <2>8, <2>9
<1> QED BY <1>2, <1>3

(* The timeout, the peaks and the day after the receiver.                   *)
LEMMA ChecksForm ==
  ASSUME Current, NEW c, c = Consumers, Held(c),
         NEW peakDue \in BOOLEAN, NEW dayDue \in BOOLEAN,
         NEW q, q = Checks(peakDue, dayDue)
  PROVE  /\ Held(q) /\ q.pref.restored = c.pref.restored
         /\ q.session.known = c.session.known /\ q.session.last = c.session.last
         /\ q.session.seq = c.session.seq /\ q.session.epoch = c.session.epoch
         /\ q.shown \in {Unknown, c.shown}
         /\ q.shown = Unknown \/ now - q.session.last <= Timeout
<1> DEFINE o == CheckTimeout(c)
           at == IF o.session.stale THEN now ELSE o.session.last
           day == [day |-> o.daily, pref |-> o.pref]
           d == IF dayDue THEN CheckDay(day) ELSE day
           p == IF peakDue THEN ClosePeak(o.peak, at) ELSE o.peak
<1>1. /\ Kept(o, c)
      /\ o.shown = Unknown \/ now - o.session.last <= Timeout
  BY TimeoutForm
<1>2. q = [session |-> o.session, shown |-> o.shown, demand |-> o.demand,
           daily |-> d.day, pref |-> d.pref, analysis |-> o.analysis, peak |-> p]
  BY DEF Checks
<1> HIDE DEF o
<1>3. Held(o) /\ o.pref = c.pref
  BY <1>1 DEF Kept
<1>4. /\ o \in Fed /\ o.session \in Sessions /\ o.shown \in Ticks \cup {Unknown}
      /\ o.demand \in Rings /\ o.analysis \in Analyses /\ o.peak \in Peaks
      /\ o.daily \in Days /\ o.pref \in Prefs
      /\ DayInv(o.daily, o.pref, now, clockValid)
  BY <1>3 DEF Held, FedInv, Fed
<1>5. PairInv(day) /\ day.pref = o.pref
  BY <1>4 DEF PairInv, Pairs
<1> HIDE DEF day
<1>6. PairInv(d) /\ d.pref.restored = o.pref.restored
  <2>1. CASE dayDue
    <3>1. clockValid \in BOOLEAN
      BY DEF Current
    <3>2. now \in 0 .. MaxNow
      BY DEF Current
    <3>3. d = CheckDay(day)
      BY <2>1
    <3> HIDE DEF d
    <3>4. /\ PairInv(d)
          /\ clockValid => d.day.key = DayAt(now)
          /\ d.pref.restored = day.pref.restored
      BY <1>5, <3>1, <3>2, <3>3, CheckForm
    <3> QED BY <1>5, <3>4
  <2>2. CASE ~dayDue
    BY <1>5, <2>2
  <2> QED BY <2>1, <2>2
<1> HIDE DEF d
<1>7. /\ d.day \in Days /\ d.pref \in Prefs
      /\ DayInv(d.day, d.pref, now, clockValid)
  BY <1>6 DEF PairInv, Pairs
<1>8. /\ p \in Peaks /\ Run(p.ticks, o.session.last)
      /\ o.peak = NoPeak => p = NoPeak
  <2>1. NoPeak \in Peaks /\ NoPeak.ticks = {}
    BY Constants DEF NoPeak, Peaks
  <2>2. p \in {o.peak, NoPeak}
    BY DEF ClosePeak
  <2>3. Run(o.peak.ticks, o.session.last)
    BY <1>3 DEF Held, FedInv
  <2> HIDE DEF p
  <2> QED BY <1>4, <2>1, <2>2, <2>3 DEF Run
<1> HIDE DEF p
<1>9. /\ q.session = o.session /\ q.shown = o.shown /\ q.demand = o.demand
      /\ q.daily = d.day /\ q.pref = d.pref /\ q.analysis = o.analysis
      /\ q.peak = p
  BY <1>2
<1>10. q \in Fed
  BY <1>2, <1>4, <1>7, <1>8 DEF Fed
<1>11. Held(q)
  <2>1. /\ q.session.last <= now /\ (~q.session.known => q.session.stale)
        /\ RingAt(q.demand, q.session.last) /\ Run(q.analysis.sum, q.session.last)
        /\ Contiguous(q.analysis.pending)
        /\ q.session.stale => /\ q.demand = EmptyRing
                              /\ q.analysis = NoAnalysis /\ q.shown = Unknown
    BY <1>3, <1>9 DEF Held, FedInv
  <2>2. q.session.stale => q.peak = NoPeak
    BY <1>3, <1>8, <1>9 DEF Held, FedInv
  <2>3. Run(q.peak.ticks, q.session.last)
    BY <1>8, <1>9
  <2>4. DayInv(q.daily, q.pref, now, clockValid)
    BY <1>7, <1>9
  <2>5. \A x \in o.demand.sum \cup o.demand.current :
          o.pref.restored.key <= DayOfTick(x)
    BY <1>3 DEF Held, FedInv
  <2>6. \A x \in q.demand.sum \cup q.demand.current :
          q.pref.restored.key <= DayOfTick(x)
    BY <1>6, <1>9, <2>5
  <2> QED BY <1>10, <2>1, <2>2, <2>3, <2>4, <2>6 DEF Held, FedInv
<1> QED BY <1>1, <1>3, <1>6, <1>9, <1>11 DEF Kept

-----------------------------------------------------------------------------
(* The stream and the journal.                                              *)

(* Whatever was behind the stream s at n is behind the stream u at m.       *)
Outruns(u, m, s, n) ==
  \A q \in Nat, p \in Nat, t \in 0 .. MaxNow :
    Behind(s, n, q, p, t) => Behind(u, m, q, p, t)

(* A stream is its fields.                                                  *)
LEMMA StreamFields ==
  ASSUME NEW s, s \in Streams
  PROVE  /\ s = [running |-> s.running, epoch |-> s.epoch, seq |-> s.seq,
                 ticks |-> s.ticks, synced |-> s.synced, lost |-> s.lost]
         /\ s.running \in BOOLEAN /\ s.epoch \in Nat /\ s.seq \in 0 .. MaxNow
         /\ s.ticks \in 0 .. MaxWindow - 1 /\ s.synced \in BOOLEAN
         /\ s.lost \in BOOLEAN /\ s.seq \in Nat /\ s.ticks \in Nat
BY Constants DEF Streams

(* A stream that starts over, synced or not, running or not.                *)
Fresh(u, s, running, synced) ==
  u = [running |-> running, epoch |-> s.epoch + 1, seq |-> s.seq, ticks |-> 0,
       synced |-> synced, lost |-> FALSE]

(* FreshStream is a stream that starts over.                                *)
LEMMA FreshForm ==
  ASSUME NEW s \in Streams
  PROVE  Fresh(FreshStream(s), s, s.running, FALSE)
<1>1. FreshStream(s) = [s EXCEPT !.epoch = @ + 1, !.ticks = 0, !.synced = FALSE, !.lost = FALSE]
  BY DEF FreshStream
<1>2. s = [running |-> s.running, epoch |-> s.epoch, seq |-> s.seq,
           ticks |-> s.ticks, synced |-> s.synced, lost |-> s.lost]
  BY StreamFields
<1> QED BY <1>1, <1>2 DEF Fresh

(* Starting over outruns every window, because the epoch changes.           *)
LEMMA FreshStep ==
  ASSUME NEW s, NEW n \in 0 .. MaxNow, NEW key, StreamInv(s, n, key),
         NEW m \in {n, n + 1}, m <= MaxNow, key <= DayAt(m),
         NEW running \in BOOLEAN, NEW synced \in BOOLEAN,
         NEW u, Fresh(u, s, running, synced)
  PROVE  StreamInv(u, m, key) /\ Outruns(u, m, s, n)
<1>1. s \in Streams /\ s.seq <= n
  BY DEF StreamInv
<1>2. /\ s.epoch \in Nat /\ s.seq \in 0 .. MaxNow /\ s.seq \in Nat
  BY <1>1, StreamFields
<1> DEFINE e == s.epoch + 1
           z == 0
           f == FALSE
<1>3. e \in Nat /\ z \in 0 .. MaxWindow - 1 /\ f \in BOOLEAN
  BY <1>2, Constants
<1>4. u = [running |-> running, epoch |-> e, seq |-> s.seq, ticks |-> z,
           synced |-> synced, lost |-> f]
  BY DEF Fresh
<1> HIDE DEF e, z, f
<1>5. /\ u \in Streams /\ u.epoch = e /\ u.seq = s.seq /\ u.ticks = z
  BY <1>2, <1>3, <1>4 DEF Streams
<1>6. /\ u.ticks = 0 /\ u.epoch = s.epoch + 1
  BY <1>5 DEF e, z
<1>7. StreamInv(u, m, key)
  <2>1. m - 0 = m /\ 0 <= m /\ s.seq <= m
    BY <1>1, <1>2
  <2> QED BY <1>5, <1>6, <2>1 DEF StreamInv
<1>8. ASSUME NEW q \in Nat, NEW p \in Nat, NEW t \in 0 .. MaxNow,
             Behind(s, n, q, p, t)
      PROVE  Behind(u, m, q, p, t)
  <2>1. q <= s.seq /\ p <= s.epoch /\ t <= n
    BY <1>8 DEF Behind
  <2>2. q <= u.seq /\ p <= u.epoch /\ p # u.epoch /\ t <= m /\ t + u.ticks <= m
    BY <1>2, <1>5, <1>6, <2>1
  <2> QED BY <2>2 DEF Behind
<1> QED BY <1>7, <1>8 DEF Outruns

(* Nothing is behind a stream later because the stream stands still.        *)
LEMMA IdleStep ==
  ASSUME NEW s, NEW n \in 0 .. MaxNow, NEW key, StreamInv(s, n, key),
         NEW m \in {n, n + 1}, m <= MaxNow,
         NEW u \in Streams, u.seq = s.seq, u.epoch = s.epoch,
         ~u.synced => u.ticks = 0, ~u.running \/ u.lost
  PROVE  StreamInv(u, m, key) /\ Outruns(u, m, s, n)
<1>1. s \in Streams /\ s.seq <= n
  BY DEF StreamInv
<1>2. s.epoch \in Nat /\ s.seq \in Nat
  BY <1>1, StreamFields
<1>3. ~Counting(u) /\ u.seq <= m
  BY <1>1, <1>2 DEF Counting
<1>4. StreamInv(u, m, key)
  BY <1>3 DEF StreamInv
<1>5. ASSUME NEW q \in Nat, NEW p \in Nat, NEW t \in 0 .. MaxNow,
             Behind(s, n, q, p, t)
      PROVE  Behind(u, m, q, p, t)
  <2>1. q <= s.seq /\ p <= s.epoch /\ t <= n
    BY <1>5 DEF Behind
  <2>2. q <= u.seq /\ p <= u.epoch /\ t <= m
    BY <1>2, <2>1
  <2> QED BY <1>3, <2>2 DEF Behind
<1> QED BY <1>4, <1>5 DEF Outruns

(* A lost frame.                                                            *)
LEMMA LoseStep ==
  ASSUME NEW key, NEW n \in 0 .. MaxNow, n + 1 <= MaxNow,
         StreamInv(stream, n, key), LoseFrame
  PROVE  StreamInv(stream', n + 1, key) /\ Outruns(stream', n + 1, stream, n)
<1>1. stream \in Streams /\ (~stream.synced => stream.ticks = 0)
  BY DEF StreamInv
<1>2. /\ stream' = [stream EXCEPT !.lost = TRUE]
  BY DEF LoseFrame
<1>3. /\ stream' \in Streams /\ stream'.seq = stream.seq
      /\ stream'.epoch = stream.epoch /\ stream'.synced = stream.synced
      /\ stream'.ticks = stream.ticks /\ stream'.lost
  BY <1>1, <1>2 DEF Streams
<1> DEFINE u == stream'
           m == n + 1
<1>4. m \in {n, n + 1} /\ m <= MaxNow
  OBVIOUS
<1> HIDE DEF u, m
<1>5. /\ u \in Streams /\ u.seq = stream.seq /\ u.epoch = stream.epoch
      /\ (~u.synced => u.ticks = 0) /\ (~u.running \/ u.lost)
  BY <1>1, <1>3 DEF u
<1>6. StreamInv(u, m, key) /\ Outruns(u, m, stream, n)
  BY <1>4, <1>5, IdleStep
<1> QED BY <1>6 DEF u, m

(* The worker finds its place in the stream again.                          *)
LEMMA ResyncStep ==
  ASSUME NEW key, NEW n \in 0 .. MaxNow, n + 1 <= MaxNow, key <= DayAt(n + 1),
         StreamInv(stream, n, key), stream.running, Resync
  PROVE  StreamInv(stream', n + 1, key) /\ Outruns(stream', n + 1, stream, n)
<1>1. stream \in Streams /\ (~stream.synced => stream.ticks = 0)
      /\ stream.seq <= n
  BY DEF StreamInv
<1>2. /\ stream.epoch \in Nat /\ stream.seq \in Nat /\ stream.seq \in 0 .. MaxNow
      /\ stream.lost \in BOOLEAN /\ stream.synced \in BOOLEAN
  BY <1>1, StreamFields
<1> DEFINE u == stream'
           m == n + 1
           base == IF stream.lost THEN FreshStream(stream) ELSE stream
<1>3. u = [base EXCEPT !.synced = TRUE]
  BY DEF Resync
<1>4. CASE stream.lost
  <2>1. Fresh(base, stream, stream.running, FALSE)
    BY <1>1, <1>4, FreshForm
  <2> HIDE DEF base, u
  <2>2. Fresh(u, stream, TRUE, TRUE)
    BY <1>3, <2>1 DEF Fresh
  <2>3. m \in {n, n + 1} /\ m <= MaxNow /\ key <= DayAt(m)
    OBVIOUS
  <2>4. TRUE \in BOOLEAN
    OBVIOUS
  <2> HIDE DEF m
  <2>5. StreamInv(u, m, key) /\ Outruns(u, m, stream, n)
    BY <2>2, <2>3, <2>4, FreshStep
  <2> QED BY <2>5 DEF u, m
<1>5. CASE ~stream.lost
  <2>1. ~stream.synced
    BY <1>5 DEF Resync
  <2>2. u = [stream EXCEPT !.synced = TRUE]
    BY <1>3, <1>5
  <2> HIDE DEF base, u
  <2>3. /\ u \in Streams /\ u.seq = stream.seq /\ u.epoch = stream.epoch
        /\ u.ticks = 0 /\ u.synced
    BY <1>1, <2>1, <2>2 DEF Streams
  <2>4. StreamInv(u, m, key)
    <3>1. m - 0 = m /\ 0 <= m /\ stream.seq <= m
      BY <1>1, <1>2
    <3> QED BY <2>3, <3>1 DEF StreamInv
  <2>5. ASSUME NEW q \in Nat, NEW p \in Nat, NEW t \in 0 .. MaxNow,
               Behind(stream, n, q, p, t)
        PROVE  Behind(u, m, q, p, t)
    <3>1. /\ q <= stream.seq /\ p <= stream.epoch /\ t <= n
          /\ ~(q = stream.seq /\ p = stream.epoch)
      BY <1>5, <2>1, <2>5 DEF Behind
    <3>2. q <= u.seq /\ p <= u.epoch /\ t <= m /\ t + u.ticks <= m
          /\ ~(q = u.seq /\ p = u.epoch)
      BY <2>3, <3>1
    <3> QED BY <3>2 DEF Behind
  <2> QED BY <2>4, <2>5 DEF Outruns, u
<1> QED BY <1>2, <1>4, <1>5

(* A frame that does not end the window.                                    *)
LEMMA AccumulateStep ==
  ASSUME NEW key, NEW n \in 0 .. MaxNow, n + 1 <= MaxNow,
         StreamInv(stream, n, key), stream.running, Accumulate
  PROVE  StreamInv(stream', n + 1, key) /\ Outruns(stream', n + 1, stream, n)
<1>1. stream \in Streams /\ stream.seq <= n /\ Counting(stream)
      /\ stream.ticks <= n /\ key <= DayAt(n - stream.ticks)
  BY DEF StreamInv, Accumulate, Counting
<1>2. /\ stream.epoch \in Nat /\ stream.seq \in Nat /\ stream.ticks \in Nat
      /\ stream.ticks + 1 \in 0 .. MaxWindow - 1
  <2>1. stream.ticks + 1 < MaxWindow
    BY DEF Accumulate
  <2>2. /\ stream.epoch \in Nat /\ stream.seq \in Nat /\ stream.ticks \in Nat
    BY <1>1, StreamFields
  <2> QED BY <2>1, <2>2, Constants
<1> DEFINE u == stream'
           m == n + 1
           k == stream.ticks + 1
<1>3. u = [stream EXCEPT !.ticks = k]
  BY DEF Accumulate
<1> HIDE DEF u, k
<1>4. /\ u \in Streams /\ u.seq = stream.seq /\ u.epoch = stream.epoch
      /\ u.ticks = k /\ u.synced = stream.synced /\ u.lost = stream.lost
      /\ u.running = stream.running
  BY <1>1, <1>2, <1>3 DEF Streams, k
<1>5. StreamInv(u, m, key)
  <2>1. m - k = n - stream.ticks /\ k <= m /\ stream.seq <= m
    BY <1>1, <1>2 DEF k
  <2> QED BY <1>1, <1>4, <2>1 DEF StreamInv, Counting
<1>6. ASSUME NEW q \in Nat, NEW p \in Nat, NEW t \in 0 .. MaxNow,
             Behind(stream, n, q, p, t)
      PROVE  Behind(u, m, q, p, t)
  <2>1. /\ q <= stream.seq /\ p <= stream.epoch /\ t <= n
        /\ t + stream.ticks <= n
        /\ q = stream.seq /\ p = stream.epoch => t + stream.ticks = n
    BY <1>1, <1>6 DEF Behind, Counting
  <2>2. t + k <= m /\ t <= m /\ (t + stream.ticks = n => t + k = m)
    BY <1>2, <2>1 DEF k
  <2> QED BY <1>1, <1>4, <2>1, <2>2 DEF Behind, Counting
<1> QED BY <1>5, <1>6 DEF Outruns, u

(* A window that is given up.                                               *)
LEMMA RejectStep ==
  ASSUME NEW key, NEW n \in 0 .. MaxNow, n + 1 <= MaxNow, key <= DayAt(n + 1),
         StreamInv(stream, n, key), stream.running, RejectWindow
  PROVE  StreamInv(stream', n + 1, key) /\ Outruns(stream', n + 1, stream, n)
<1>1. stream \in Streams
  BY DEF StreamInv
<1> DEFINE u == stream'
           m == n + 1
<1>2. Fresh(u, stream, TRUE, TRUE)
  <2>1. u = [stream EXCEPT !.ticks = 0, !.epoch = @ + 1]
        /\ ~stream.lost /\ stream.synced
    BY DEF RejectWindow
  <2>2. stream = [running |-> stream.running, epoch |-> stream.epoch,
                  seq |-> stream.seq, ticks |-> stream.ticks,
                  synced |-> stream.synced, lost |-> stream.lost]
        /\ stream.running = TRUE /\ stream.synced = TRUE /\ stream.lost = FALSE
    BY <1>1, <2>1, StreamFields
  <2> HIDE DEF u
  <2> QED BY <2>1, <2>2 DEF Fresh
<1>3. m \in {n, n + 1} /\ m <= MaxNow /\ key <= DayAt(m)
  OBVIOUS
<1>4. TRUE \in BOOLEAN
  OBVIOUS
<1> HIDE DEF m, u
<1>5. StreamInv(u, m, key) /\ Outruns(u, m, stream, n)
  BY <1>2, <1>3, <1>4, FreshStep
<1> QED BY <1>5 DEF u, m

(* A window that lasts too long.                                            *)
LEMMA TimesOutStep ==
  ASSUME NEW key, NEW n \in 0 .. MaxNow, n + 1 <= MaxNow, key <= DayAt(n + 1),
         StreamInv(stream, n, key), WindowTimesOut
  PROVE  StreamInv(stream', n + 1, key) /\ Outruns(stream', n + 1, stream, n)
<1>1. stream \in Streams
  BY DEF StreamInv
<1> DEFINE u == stream'
           m == n + 1
           r == stream.running
           f == FALSE
<1>2. Fresh(u, stream, r, f)
  <2>1. u = FreshStream(stream)
    BY DEF WindowTimesOut
  <2> QED BY <1>1, <2>1, FreshForm
<1>3. m \in {n, n + 1} /\ m <= MaxNow /\ key <= DayAt(m)
  OBVIOUS
<1>4. r \in BOOLEAN /\ f \in BOOLEAN
  BY <1>1, StreamFields
<1> HIDE DEF m, u, r, f
<1>5. StreamInv(u, m, key) /\ Outruns(u, m, stream, n)
  BY <1>2, <1>3, <1>4, FreshStep
<1> QED BY <1>5 DEF u, m

(* Two sessions that name the same last window.                             *)
SameLast(f, e) == /\ f.known = e.known /\ f.last = e.last
                  /\ f.seq = e.seq /\ f.epoch = e.epoch

(* The types of a journal entry.                                            *)
LEMMA EntryTypes ==
  ASSUME NEW j, j \in Seq(Window), NEW i \in 1 .. Len(j)
  PROVE  /\ j[i] \in Window /\ j[i].seq \in Nat /\ j[i].epoch \in Nat
         /\ j[i].end \in 0 .. MaxNow /\ j[i].duration \in Nat
         /\ j[i].end \in Nat /\ j[i].duration > 0
<1> DEFINE w == j[i]
<1>1. w \in Window
  BY ElementOfSeq
<1> HIDE DEF w
<1>2. /\ w.seq \in Nat /\ w.epoch \in Nat /\ w.end \in 0 .. MaxNow
      /\ w.duration \in Nat /\ w.end \in Nat /\ w.duration > 0
  <2>1. w.seq \in Nat /\ w.epoch \in Nat
    BY <1>1 DEF Window
  <2>2. w.end \in 1 .. MaxNow /\ w.duration \in 1 .. MaxWindow
    BY <1>1 DEF Window, Ticks
  <2> QED BY <2>1, <2>2, Constants
<1> QED BY <1>1, <1>2 DEF w

(* The types of a session.                                                  *)
LEMMA SessionTypes ==
  ASSUME NEW e \in Sessions
  PROVE  /\ e.seq \in Nat /\ e.epoch \in Nat /\ e.last \in 0 .. MaxNow
         /\ e.known \in BOOLEAN /\ e.last \in Nat
BY Constants DEF Sessions

(* The journal is kept by a stream that outruns its windows.                *)
LEMMA JournalStep ==
  ASSUME NEW j, NEW s, NEW n, NEW key, NEW e \in Sessions,
         JournalInv(j, s, n, key, e), NEW u, NEW m, Outruns(u, m, s, n),
         NEW f, SameLast(f, e)
  PROVE  JournalInv(j, u, m, key, f)
<1>1. j \in Seq(Window)
  BY DEF JournalInv
<1>2. \A i \in 1 .. Len(j) : Behind(u, m, j[i].seq, j[i].epoch, j[i].end)
  <2> SUFFICES ASSUME NEW i \in 1 .. Len(j)
               PROVE  Behind(u, m, j[i].seq, j[i].epoch, j[i].end)
    OBVIOUS
  <2>1. Behind(s, n, j[i].seq, j[i].epoch, j[i].end)
    BY DEF JournalInv
  <2>2. j[i].seq \in Nat /\ j[i].epoch \in Nat /\ j[i].end \in 0 .. MaxNow
    BY <1>1, EntryTypes
  <2> QED BY <2>1, <2>2 DEF Outruns
<1>3. f.known => Behind(u, m, f.seq, f.epoch, f.last)
  <2> SUFFICES ASSUME f.known PROVE Behind(u, m, f.seq, f.epoch, f.last)
    OBVIOUS
  <2>1. Behind(s, n, e.seq, e.epoch, e.last)
    BY DEF JournalInv, SameLast
  <2>2. e.seq \in Nat /\ e.epoch \in Nat /\ e.last \in 0 .. MaxNow
    BY SessionTypes
  <2>3. Behind(u, m, e.seq, e.epoch, e.last)
    BY <2>1, <2>2 DEF Outruns
  <2> QED BY <2>3 DEF SameLast
<1> QED BY <1>2, <1>3 DEF JournalInv, SameLast

(* A window w that follows everything the journal j holds and the session.  *)
Entry(w, u, m, key) ==
  /\ w \in Window /\ w.duration >= MinWindow /\ w.end >= w.duration
  /\ key <= DayAt(w.end - w.duration)
  /\ Behind(u, m, w.seq, w.epoch, w.end)

(* A window that follows a journal ends MinWindow later for each entry      *)
(* since.                                                                   *)
LEMMA Spaced ==
  ASSUME NEW j, NEW s, NEW n, NEW key, NEW e, JournalInv(j, s, n, key, e),
         NEW w \in Window, w.duration >= MinWindow,
         \A i \in 1 .. Len(j) : Follows(w, j[i].seq, j[i].epoch, j[i].end)
  PROVE  \A i \in 1 .. Len(j) : w.end - j[i].end >= (Len(j) + 1 - i) * MinWindow
<1> SUFFICES ASSUME NEW i \in 1 .. Len(j)
             PROVE  w.end - j[i].end >= (Len(j) + 1 - i) * MinWindow
  OBVIOUS
<1>1. j \in Seq(Window) /\ Len(j) \in Nat
  BY DEF JournalInv
<1> DEFINE l == Len(j)
           k == l - i
           a == j[i].end
           b == j[l].end
<1>2. l \in 1 .. Len(j) /\ k \in Nat /\ l + 1 - i = k + 1
  BY <1>1
<1>3. a \in Nat /\ b \in Nat
  BY <1>1, <1>2, EntryTypes
<1>4. w.end \in Nat /\ w.duration \in Nat
  BY Constants DEF Window, Ticks
<1>5. b <= w.end - w.duration
  BY <1>2 DEF Follows
<1>6. b - a >= k * MinWindow
  <2>1. CASE i = l
    <3>1. k = 0 /\ a = b /\ 0 * MinWindow = 0
      BY <2>1, Constants
    <3> QED BY <1>3, <3>1
  <2>2. CASE i # l
    <3>1. i \in 1 .. l - 1 /\ l \in 1 .. Len(j)
      BY <1>1, <2>2
    <3> QED BY <3>1 DEF JournalInv
  <2> QED BY <2>1, <2>2
<1>7. (k + 1) * MinWindow = k * MinWindow + MinWindow /\ k * MinWindow \in Nat
  BY <1>2, Constants, Times
<1> DEFINE x == k * MinWindow
           y == (k + 1) * MinWindow
<1>8. b - a >= x /\ y = x + MinWindow /\ x \in Nat
  BY <1>6, <1>7
<1>9. (l + 1 - i) * MinWindow = y
  BY <1>2
<1> HIDE DEF a, b, x, y, k
<1>10. w.end - a >= y
  BY <1>3, <1>4, <1>5, <1>8, Constants
<1> QED BY <1>9, <1>10 DEF a

(* Appending a window that follows all the others.                          *)
LEMMA AppendStep ==
  ASSUME NEW j, NEW u, NEW m, NEW key, NEW e, JournalInv(j, u, m, key, e),
         NEW w, Entry(w, u, m, key), Len(j) < Capacity,
         e.known => Follows(w, e.seq, e.epoch, e.last),
         \A i \in 1 .. Len(j) : Follows(w, j[i].seq, j[i].epoch, j[i].end)
  PROVE  JournalInv(Append(j, w), u, m, key, e)
<1>1. j \in Seq(Window) /\ Len(j) \in Nat /\ w \in Window
  BY DEF JournalInv, Entry
<1> DEFINE g == Append(j, w)
           l == Len(j)
<1>2. /\ g \in Seq(Window) /\ Len(g) = l + 1
      /\ \A i \in 1 .. l : g[i] = j[i]
      /\ g[l + 1] = w
  BY <1>1
<1>3. Len(g) <= Capacity
  <2>1. Capacity \in Int
    BY Constants DEF Capacity
  <2> QED BY <1>1, <1>2, <2>1
<1> HIDE DEF g
<1>4. \A i \in 1 .. Len(g) :
        /\ g[i].duration >= MinWindow /\ g[i].end >= g[i].duration
        /\ key <= DayAt(g[i].end - g[i].duration)
        /\ Behind(u, m, g[i].seq, g[i].epoch, g[i].end)
        /\ e.known => Follows(g[i], e.seq, e.epoch, e.last)
  <2> SUFFICES ASSUME NEW i \in 1 .. Len(g)
               PROVE  /\ g[i].duration >= MinWindow /\ g[i].end >= g[i].duration
                      /\ key <= DayAt(g[i].end - g[i].duration)
                      /\ Behind(u, m, g[i].seq, g[i].epoch, g[i].end)
                      /\ e.known => Follows(g[i], e.seq, e.epoch, e.last)
    OBVIOUS
  <2>1. CASE i \in 1 .. l
    <3>1. g[i] = j[i]
      BY <1>2, <2>1
    <3> QED BY <2>1, <3>1 DEF JournalInv
  <2>2. CASE i = l + 1
    <3>1. g[i] = w
      BY <1>2, <2>2
    <3> QED BY <3>1 DEF Entry
  <2> QED BY <1>1, <1>2, <2>1, <2>2
<1>5. \A i \in 1 .. l : w.end - j[i].end >= (l + 1 - i) * MinWindow
  <2>1. w.duration >= MinWindow
    BY DEF Entry
  <2> QED BY <1>1, <2>1, Spaced
<1>6. \A k \in 1 .. Len(g) : \A i \in 1 .. k - 1 :
        /\ Follows(g[k], g[i].seq, g[i].epoch, g[i].end)
        /\ g[k].end - g[i].end >= (k - i) * MinWindow
  <2> SUFFICES ASSUME NEW k \in 1 .. Len(g), NEW i \in 1 .. k - 1
               PROVE  /\ Follows(g[k], g[i].seq, g[i].epoch, g[i].end)
                      /\ g[k].end - g[i].end >= (k - i) * MinWindow
    OBVIOUS
  <2>0. i \in 1 .. l
    BY <1>1, <1>2
  <2>1. g[i] = j[i]
    BY <1>2, <2>0
  <2>2. CASE k \in 1 .. l
    <3>1. g[k] = j[k]
      BY <1>2, <2>2
    <3> QED BY <2>1, <2>2, <3>1 DEF JournalInv
  <2>3. CASE k = l + 1
    <3>1. g[k] = w
      BY <1>2, <2>3
    <3>2. w.end - j[i].end >= (k - i) * MinWindow
      BY <1>5, <2>0, <2>3
    <3> QED BY <2>0, <2>1, <3>1, <3>2
  <2> QED BY <1>1, <1>2, <2>2, <2>3
<1>7. e.known => Behind(u, m, e.seq, e.epoch, e.last)
  BY DEF JournalInv
<1>8. JournalInv(g, u, m, key, e)
  BY <1>2, <1>3, <1>4, <1>6, <1>7 DEF JournalInv
<1> QED BY <1>8 DEF g

(* Taking the oldest window, whether it was accepted or ignored.            *)
LEMMA TailStep ==
  ASSUME NEW j, NEW s, NEW n, NEW key, NEW e, JournalInv(j, s, n, key, e),
         Len(j) > 0, NEW f, SameLast(f, e) \/ SameLast(f, After(j[1]))
  PROVE  JournalInv(Tail(j), s, n, key, f)
<1> DEFINE g == Tail(j)
<1>1. j \in Seq(Window) /\ Len(j) \in Nat /\ Len(j) <= Capacity
  BY DEF JournalInv
<1>2. /\ g \in Seq(Window) /\ Len(g) = Len(j) - 1
      /\ \A i \in 1 .. Len(g) : g[i] = j[i + 1]
  <2>1. j # <<>>
    BY <1>1
  <2> QED BY <1>1, <2>1, HeadTailProperties
<1> HIDE DEF g
<1>3. Len(g) <= Capacity
  BY <1>1, <1>2, Constants DEF Capacity
<1>4. \A i \in 1 .. Len(g) :
        /\ g[i].duration >= MinWindow /\ g[i].end >= g[i].duration
        /\ key <= DayAt(g[i].end - g[i].duration)
        /\ Behind(s, n, g[i].seq, g[i].epoch, g[i].end)
        /\ f.known => Follows(g[i], f.seq, f.epoch, f.last)
  <2> SUFFICES ASSUME NEW i \in 1 .. Len(g)
               PROVE  /\ g[i].duration >= MinWindow /\ g[i].end >= g[i].duration
                      /\ key <= DayAt(g[i].end - g[i].duration)
                      /\ Behind(s, n, g[i].seq, g[i].epoch, g[i].end)
                      /\ f.known => Follows(g[i], f.seq, f.epoch, f.last)
    OBVIOUS
  <2>1. i + 1 \in 1 .. Len(j) /\ g[i] = j[i + 1] /\ 1 \in 1 .. (i + 1) - 1
    BY <1>1, <1>2
  <2>2. /\ j[i + 1].duration >= MinWindow /\ j[i + 1].end >= j[i + 1].duration
        /\ key <= DayAt(j[i + 1].end - j[i + 1].duration)
        /\ Behind(s, n, j[i + 1].seq, j[i + 1].epoch, j[i + 1].end)
        /\ e.known => Follows(j[i + 1], e.seq, e.epoch, e.last)
    BY <2>1 DEF JournalInv
  <2>3. Follows(j[i + 1], j[1].seq, j[1].epoch, j[1].end)
    BY <2>1 DEF JournalInv
  <2>4. f.known => Follows(g[i], f.seq, f.epoch, f.last)
    <3>1. CASE SameLast(f, e)
      BY <2>1, <2>2, <3>1 DEF SameLast
    <3>2. CASE SameLast(f, After(j[1]))
      BY <2>1, <2>3, <3>2 DEF SameLast, After
    <3> QED BY <3>1, <3>2
  <2> QED BY <2>1, <2>2, <2>4
<1>5. \A k \in 1 .. Len(g) : \A i \in 1 .. k - 1 :
        /\ Follows(g[k], g[i].seq, g[i].epoch, g[i].end)
        /\ g[k].end - g[i].end >= (k - i) * MinWindow
  <2> SUFFICES ASSUME NEW k \in 1 .. Len(g), NEW i \in 1 .. k - 1
               PROVE  /\ Follows(g[k], g[i].seq, g[i].epoch, g[i].end)
                      /\ g[k].end - g[i].end >= (k - i) * MinWindow
    OBVIOUS
  <2>1. /\ k + 1 \in 1 .. Len(j) /\ i + 1 \in 1 .. (k + 1) - 1
        /\ g[k] = j[k + 1] /\ g[i] = j[i + 1] /\ (k + 1) - (i + 1) = k - i
    <3>1. i \in 1 .. Len(g) /\ k \in Nat /\ i \in Nat
      BY <1>1, <1>2
    <3>2. g[k] = j[k + 1] /\ g[i] = j[i + 1]
      BY <1>2, <3>1
    <3>3. /\ k + 1 \in 1 .. Len(j) /\ i + 1 \in 1 .. (k + 1) - 1
          /\ (k + 1) - (i + 1) = k - i
      BY <1>1, <1>2, <3>1
    <3> QED BY <3>2, <3>3
  <2>2. /\ Follows(j[k + 1], j[i + 1].seq, j[i + 1].epoch, j[i + 1].end)
        /\ j[k + 1].end - j[i + 1].end >= ((k + 1) - (i + 1)) * MinWindow
    BY <2>1 DEF JournalInv
  <2> QED BY <2>1, <2>2
<1>6. f.known => Behind(s, n, f.seq, f.epoch, f.last)
  <2>1. CASE SameLast(f, e)
    BY <2>1 DEF JournalInv, SameLast
  <2>2. CASE SameLast(f, After(j[1]))
    <3>1. Behind(s, n, j[1].seq, j[1].epoch, j[1].end)
      <4>1. 1 \in 1 .. Len(j)
        BY <1>1
      <4> QED BY <4>1 DEF JournalInv
    <3> QED BY <2>2, <3>1 DEF SameLast, After
  <2> QED BY <2>1, <2>2
<1>7. JournalInv(g, s, n, key, f)
  BY <1>2, <1>3, <1>4, <1>5, <1>6 DEF JournalInv
<1> QED BY <1>7 DEF g

(* The empty journal, as setup leaves it.                                   *)
LEMMA EmptyJournal ==
  ASSUME NEW s, NEW n, NEW key, NEW e,
         e.known => Behind(s, n, e.seq, e.epoch, e.last)
  PROVE  JournalInv(<<>>, s, n, key, e)
<1>1. /\ <<>> \in Seq(Window) /\ Len(<<>>) = 0 /\ 1 .. 0 = {}
  BY EmptySeq
<1>2. 0 <= Capacity
  BY Constants DEF Capacity
<1> QED BY <1>1, <1>2 DEF JournalInv

(* The window that CloseWindow completes.                                   *)
NextWindow(ok) ==
  [seq |-> stream.seq + 1, epoch |-> stream.epoch, end |-> now + 1,
   duration |-> stream.ticks + 1, ok |-> ok]

(* Completing a window moves the stream past it and past whatever was       *)
(* behind.                                                                  *)
LEMMA CloseStep ==
  ASSUME NEW key \in Nat, now \in 0 .. MaxNow, now + 1 <= MaxNow,
         StreamInv(stream, now, key), stream.running,
         NEW ok \in BOOLEAN, CloseWindow(ok)
  PROVE  /\ StreamInv(stream', now + 1, key)
         /\ Outruns(stream', now + 1, stream, now)
         /\ Entry(NextWindow(ok), stream', now + 1, key)
         /\ \A q \in Nat, p \in Nat, t \in 0 .. MaxNow :
              Behind(stream, now, q, p, t) => Follows(NextWindow(ok), q, p, t)
         /\ stream'.seq = stream.seq + 1
<1> DEFINE u == stream'
           m == now + 1
           s == stream.seq + 1
           z == 0
           d == stream.ticks + 1
           w == NextWindow(ok)
<1>1. /\ stream \in Streams /\ stream.seq <= now /\ Counting(stream)
      /\ stream.ticks <= now /\ key <= DayAt(now - stream.ticks)
      /\ stream.ticks + 1 >= MinWindow
  BY DEF StreamInv, CloseWindow, Counting
<1>2. /\ stream.epoch \in Nat /\ stream.seq \in Nat /\ stream.ticks \in Nat
      /\ s \in 0 .. MaxNow /\ z \in 0 .. MaxWindow - 1 /\ d \in 1 .. MaxWindow
      /\ m \in 1 .. MaxNow
  <2>1. /\ stream.epoch \in Nat /\ stream.seq \in Nat /\ stream.ticks \in Nat
        /\ stream.ticks \in 0 .. MaxWindow - 1
    BY <1>1, StreamFields
  <2> QED BY <1>1, <2>1, Constants
<1>3. u = [running |-> stream.running, epoch |-> stream.epoch, seq |-> s,
           ticks |-> z, synced |-> stream.synced, lost |-> stream.lost]
  <2>1. u = [stream EXCEPT !.seq = @ + 1, !.ticks = 0]
    BY DEF CloseWindow
  <2>2. stream = [running |-> stream.running, epoch |-> stream.epoch,
                  seq |-> stream.seq, ticks |-> stream.ticks,
                  synced |-> stream.synced, lost |-> stream.lost]
    BY <1>1, StreamFields
  <2> HIDE DEF u
  <2> QED BY <2>1, <2>2
<1>4. w = [seq |-> s, epoch |-> stream.epoch, end |-> m, duration |-> d, ok |-> ok]
  BY DEF NextWindow
<1> HIDE DEF u, s, z, d, w, m
<1>5. /\ u \in Streams /\ u.seq = s /\ u.ticks = z /\ u.epoch = stream.epoch
      /\ u.synced = stream.synced /\ u.lost = stream.lost
      /\ u.running = stream.running
  <2>1. /\ stream.running \in BOOLEAN /\ stream.synced \in BOOLEAN
        /\ stream.lost \in BOOLEAN
    BY <1>1, StreamFields
  <2> QED BY <1>2, <1>3, <2>1 DEF Streams
<1>6. /\ w \in Window /\ w.seq = s /\ w.epoch = stream.epoch /\ w.end = m
      /\ w.duration = d
  BY <1>2, <1>4 DEF Window, Ticks
<1>7. w.end - w.duration = now - stream.ticks /\ s = stream.seq + 1 /\ z = 0
      /\ s \in Nat /\ m \in Nat /\ m = now + 1 /\ d = stream.ticks + 1
  BY <1>2, <1>6 DEF m, d, s, z
<1>8. StreamInv(u, m, key)
  <2>1. m - 0 = now + 1 /\ 0 <= m /\ s <= m
    BY <1>1, <1>2, <1>7
  <2>2. key <= DayAt(m)
    <3> DEFINE a == now - stream.ticks
    <3>1. a \in Int /\ m \in Int /\ a <= m
      BY <1>2, <1>7
    <3> HIDE DEF a
    <3>2. DayAt(a) <= DayAt(m) /\ DayAt(a) \in Int
      BY <3>1, DayOrder
    <3>3. DayAt(m) \in Int
      <4>1. m <= m
        BY <3>1
      <4> QED BY <3>1, <4>1, DayOrder
    <3>4. key <= DayAt(a)
      BY <1>1 DEF a
    <3> QED BY <3>2, <3>3, <3>4
  <2>3. m - z = m
    BY <1>7
  <2> QED BY <1>5, <1>7, <2>1, <2>2, <2>3 DEF StreamInv
<1>9. ASSUME NEW q \in Nat, NEW p \in Nat, NEW t \in 0 .. MaxNow,
             Behind(stream, now, q, p, t)
      PROVE  Behind(u, m, q, p, t) /\ Follows(w, q, p, t)
  <2>1. /\ q <= stream.seq /\ p <= stream.epoch /\ t <= now
        /\ t + stream.ticks <= now
        /\ q = stream.seq /\ p = stream.epoch => t + stream.ticks = now
    BY <1>1, <1>9 DEF Behind, Counting
  <2>2. /\ q <= s /\ q # s /\ t <= m /\ t + 0 <= m
        /\ t <= now - stream.ticks
        /\ s = q + 1 => q = stream.seq
        /\ t + stream.ticks = now => now - stream.ticks = t
    BY <1>2, <1>7, <2>1
  <2>3. Behind(u, m, q, p, t)
    BY <1>5, <1>7, <2>1, <2>2 DEF Behind
  <2>4. Follows(w, q, p, t)
    <3>1. q < s
      BY <1>7, <2>1, <1>2
    <3> QED BY <1>6, <1>7, <2>1, <2>2, <3>1 DEF Follows
  <2> QED BY <2>3, <2>4
<1>10. Entry(w, u, m, key)
  <2>1. d >= MinWindow /\ m >= d
    BY <1>1, <1>2, <1>7, Constants
  <2>2. Behind(u, m, s, stream.epoch, m)
    <3>1. /\ s <= s /\ stream.epoch <= stream.epoch /\ m <= m /\ m + 0 = m
      BY <1>2, <1>7
    <3> QED BY <1>1, <1>5, <1>7, <3>1 DEF Behind, Counting
  <2> QED BY <1>1, <1>6, <1>7, <2>1, <2>2 DEF Entry
<1> QED BY <1>5, <1>7, <1>8, <1>9, <1>10 DEF Outruns, u, m, w

(* The window closed follows whatever the journal and the session hold.     *)
LEMMA ClosedFollows ==
  ASSUME NEW j, NEW s, NEW n, NEW key, NEW e \in Sessions,
         JournalInv(j, s, n, key, e), NEW w,
         \A q \in Nat, p \in Nat, t \in 0 .. MaxNow :
           Behind(s, n, q, p, t) => Follows(w, q, p, t)
  PROVE  /\ e.known => Follows(w, e.seq, e.epoch, e.last)
         /\ \A i \in 1 .. Len(j) : Follows(w, j[i].seq, j[i].epoch, j[i].end)
<1>1. j \in Seq(Window)
  BY DEF JournalInv
<1>2. e.known => Follows(w, e.seq, e.epoch, e.last)
  <2>1. e.seq \in Nat /\ e.epoch \in Nat /\ e.last \in 0 .. MaxNow
    BY SessionTypes
  <2>2. e.known => Behind(s, n, e.seq, e.epoch, e.last)
    BY DEF JournalInv
  <2> QED BY <2>1, <2>2
<1>3. ASSUME NEW i \in 1 .. Len(j)
      PROVE  Follows(w, j[i].seq, j[i].epoch, j[i].end)
  <2>1. j[i].seq \in Nat /\ j[i].epoch \in Nat /\ j[i].end \in 0 .. MaxNow
    BY <1>1, EntryTypes
  <2>2. Behind(s, n, j[i].seq, j[i].epoch, j[i].end)
    BY DEF JournalInv
  <2> QED BY <2>1, <2>2
<1> QED BY <1>2, <1>3

(* The journal after CloseWindow, whether it had room for the window or     *)
(* refused it.                                                              *)
LEMMA JournalGrows ==
  ASSUME NEW key \in Nat, NEW e \in Sessions, now \in 0 .. MaxNow, now + 1 <= MaxNow,
         StreamInv(stream, now, key), stream.running,
         JournalInv(journal, stream, now, key, e),
         NEW ok \in BOOLEAN, CloseWindow(ok)
  PROVE  JournalInv(journal', stream', now + 1, key, e)
<1> DEFINE w == NextWindow(ok)
           m == now + 1
           u == stream'
<1>1. /\ Outruns(u, m, stream, now) /\ Entry(w, u, m, key)
      /\ \A q \in Nat, p \in Nat, t \in 0 .. MaxNow :
           Behind(stream, now, q, p, t) => Follows(w, q, p, t)
  BY CloseStep
<1>2. journal' = IF Len(journal) < Capacity THEN Append(journal, w) ELSE journal
  BY DEF CloseWindow, NextWindow
<1> HIDE DEF w, m, u
<1>3. SameLast(e, e)
  BY DEF SameLast
<1>4. JournalInv(journal, u, m, key, e)
  BY <1>1, <1>3, JournalStep
<1>5. /\ e.known => Follows(w, e.seq, e.epoch, e.last)
      /\ \A i \in 1 .. Len(journal) : Follows(w, journal[i].seq, journal[i].epoch, journal[i].end)
  BY <1>1, ClosedFollows
<1>6. CASE Len(journal) < Capacity
  <2>1. e.known => Follows(w, e.seq, e.epoch, e.last)
    BY <1>5
  <2>2. \A i \in 1 .. Len(journal) : Follows(w, journal[i].seq, journal[i].epoch, journal[i].end)
    BY <1>5
  <2>3. Entry(w, u, m, key)
    BY <1>1
  <2>4. JournalInv(Append(journal, w), u, m, key, e)
    BY <1>4, <1>6, <2>1, <2>2, <2>3, AppendStep
  <2> QED BY <1>2, <1>6, <2>4 DEF u, m
<1>7. CASE ~(Len(journal) < Capacity)
  BY <1>2, <1>4, <1>7 DEF u, m
<1> QED BY <1>6, <1>7

(* A refused window ends that much after the oldest one held.               *)
LEMMA Refused ==
  ASSUME NEW key \in Nat, NEW e \in Sessions, now \in 0 .. MaxNow, now + 1 <= MaxNow,
         StreamInv(stream, now, key), stream.running,
         JournalInv(journal, stream, now, key, e),
         NEW ok \in BOOLEAN, CloseWindow(ok), Len(journal) > 0
  PROVE  now + 1 - journal[1].end >= Len(journal) * MinWindow
<1> DEFINE w == NextWindow(ok)
           m == now + 1
           u == stream'
<1>1. /\ Entry(w, u, m, key)
      /\ \A q \in Nat, p \in Nat, t \in 0 .. MaxNow :
           Behind(stream, now, q, p, t) => Follows(w, q, p, t)
  BY CloseStep
<1>2. w.end = now + 1
  BY DEF NextWindow
<1> HIDE DEF w
<1>3. \A i \in 1 .. Len(journal) : Follows(w, journal[i].seq, journal[i].epoch, journal[i].end)
  BY <1>1, ClosedFollows
<1>4. w \in Window /\ w.duration >= MinWindow
  BY <1>1 DEF Entry
<1>5. \A i \in 1 .. Len(journal) :
        w.end - journal[i].end >= (Len(journal) + 1 - i) * MinWindow
  BY <1>3, <1>4, Spaced
<1>6. 1 \in 1 .. Len(journal) /\ Len(journal) + 1 - 1 = Len(journal)
  BY DEF JournalInv
<1> DEFINE l == Len(journal)
           a == journal[1].end
<1>7. w.end - a >= (l + 1 - 1) * MinWindow
  BY <1>5, <1>6
<1>8. l + 1 - 1 = l
  BY <1>6
<1> HIDE DEF l, a
<1>9. w.end - a >= l * MinWindow
  BY <1>7, <1>8
<1>10. now + 1 - a >= l * MinWindow
  <2> DEFINE x == l * MinWindow
  <2>1. a \in Nat /\ now \in Nat
    <3>1. journal \in Seq(Window)
      BY DEF JournalInv
    <3> QED BY <1>6, <3>1, EntryTypes, Constants DEF a
  <2>2. l \in Nat /\ MinWindow \in Nat
    <3>1. journal \in Seq(Window)
      BY DEF JournalInv
    <3> QED BY <3>1, Constants DEF l
  <2>3. x \in Nat
    BY <2>2
  <2>4. w.end - a >= x
    BY <1>9
  <2> HIDE DEF x
  <2>5. now + 1 - a >= x
    BY <1>2, <2>1, <2>3, <2>4
  <2> QED BY <2>5, Zenon DEF x
<1> QED BY <1>10, Zenon DEF l, a

-----------------------------------------------------------------------------
(* The invariant, action by action.                                         *)

(* The day that was restored at the boot.                                   *)
Key == pref.restored.key

(* What the invariant says, one fact at a time.                             *)
LEMMA Facts ==
  ASSUME IInv
  PROVE  /\ Current /\ Held(Consumers) /\ Consumers.session = session
         /\ Consumers.shown = shown /\ Consumers.pref = pref
         /\ now \in 0 .. MaxNow /\ now \in Nat /\ session \in Sessions
         /\ pref \in Prefs /\ Key \in Nat /\ Key <= DayAt(now)
         /\ StreamInv(stream, now, Key) /\ stream \in Streams
         /\ JournalInv(journal, stream, now, Key, session)
         /\ journal \in Seq(Window) /\ Len(journal) \in Nat
<1>1. /\ Consumers.session = session /\ Consumers.shown = shown
      /\ Consumers.pref = pref
  BY DEF Consumers
<1>2. Current /\ now \in 0 .. MaxNow /\ Held(Consumers)
  BY DEF IInv, Current, Held
<1>3. now \in Nat
  BY <1>2, Constants
<1>4. session \in Sessions /\ pref \in Prefs
  BY <1>1, <1>2 DEF Held, FedInv, Fed
<1>5. Key \in Nat
  <2>1. Key \in 0 .. DayAt(MaxNow)
    BY <1>4 DEF Prefs, Saved, Key
  <2> QED BY <2>1
<1>6. Key <= DayAt(now)
  BY <1>1, <1>2 DEF Held, FedInv, DayInv, Key
<1>7. /\ StreamInv(stream, now, Key) /\ stream \in Streams
      /\ JournalInv(journal, stream, now, Key, session)
      /\ journal \in Seq(Window) /\ Len(journal) \in Nat
  <2>1. StreamInv(stream, now, Key)
    BY DEF IInv, Key
  <2>2. JournalInv(journal, stream, now, Key, session)
    BY DEF IInv, Key
  <2>3. stream \in Streams
    BY <2>1 DEF StreamInv
  <2>4. journal \in Seq(Window)
    BY <2>2 DEF JournalInv
  <2>5. Len(journal) \in Nat
    BY <2>4
  <2> QED BY <2>1, <2>2, <2>3, <2>4, <2>5
<1> QED BY <1>1, <1>2, <1>3, <1>4, <1>5, <1>6, <1>7

(* A tick of time, or the clock becoming known, disturbs nothing held.      *)
LEMMA Later ==
  ASSUME NEW c, NEW n \in 0 .. MaxNow, NEW v \in BOOLEAN, FedInv(c, n, v),
         NEW m \in {n, n + 1}, m <= MaxNow, NEW x \in BOOLEAN, v => x
  PROVE  FedInv(c, m, x)
<1>1. n \in Int /\ m \in Int /\ n <= m
  OBVIOUS
<1>2. DayAt(n) <= DayAt(m) /\ DayAt(n) \in Int
  BY <1>1, DayOrder
<1>3. DayAt(m) \in Int
  <2>1. m <= m
    BY <1>1
  <2> QED BY <1>1, <2>1, DayOrder
<1>4. c \in Fed /\ c.daily \in Days /\ c.pref \in Prefs /\ c.session \in Sessions
      /\ c.session.last \in Nat /\ c.session.last <= n
  BY SessionTypes DEF FedInv, Fed
<1>5. /\ c.daily.key \in Int /\ c.daily.start \in Int
      /\ \A s \in {c.pref.saved, c.pref.flash, c.pref.restored} : s.key \in Int
  BY <1>4 DEF Days, Prefs, Saved
<1>6. DayInv(c.daily, c.pref, n, v)
  BY DEF FedInv
<1>7. DayInv(c.daily, c.pref, m, x)
  <2>1. c.daily.key # 0 =>
          /\ x /\ c.daily.key <= DayAt(m)
          /\ \/ c.daily.key = c.pref.restored.key
             \/ c.daily.start <= m /\ DayAt(c.daily.start) = c.daily.key
    <3> SUFFICES ASSUME c.daily.key # 0
                 PROVE  /\ x /\ c.daily.key <= DayAt(m)
                        /\ \/ c.daily.key = c.pref.restored.key
                           \/ c.daily.start <= m /\ DayAt(c.daily.start) = c.daily.key
      OBVIOUS
    <3>1. /\ v /\ c.daily.key <= DayAt(n)
          /\ \/ c.daily.key = c.pref.restored.key
             \/ c.daily.start <= n /\ DayAt(c.daily.start) = c.daily.key
      BY <1>6 DEF DayInv
    <3>2. c.daily.key <= DayAt(m)
      BY <1>2, <1>3, <1>5, <3>1
    <3>3. c.daily.start <= n => c.daily.start <= m
      BY <1>1, <1>5
    <3> QED BY <3>1, <3>2, <3>3
  <2>2. ASSUME NEW s \in {c.pref.saved, c.pref.flash, c.pref.restored}
        PROVE  s.key <= DayAt(m) /\ MaxOk(s.key, s.maximum)
    <3>1. s.key <= DayAt(n) /\ MaxOk(s.key, s.maximum)
      BY <1>6 DEF DayInv
    <3>2. s.key \in Int
      BY <1>5
    <3> QED BY <1>2, <1>3, <3>1, <3>2
  <2>3. MaxOk(c.daily.key, c.daily.maximum)
    BY <1>6 DEF DayInv
  <2> QED BY <2>1, <2>2, <2>3 DEF DayInv
<1>8. c.session.last <= m
  BY <1>1, <1>4
<1> QED BY <1>7, <1>8 DEF FedInv

(* The consumers are their variables.                                       *)
LEMMA SameConsumers ==
  ASSUME UNCHANGED <<session, shown, demand, daily, peak, analysis, pref>>
  PROVE  Consumers' = Consumers
BY DEF Consumers

(* SetConsumers makes the consumers what it is given.                       *)
LEMMA SetForm ==
  ASSUME NEW q \in Fed, SetConsumers(q)
  PROVE  /\ Consumers' = q /\ session' = q.session /\ shown' = q.shown
         /\ pref' = q.pref
<1>1. q = [session |-> q.session, shown |-> q.shown, demand |-> q.demand,
           daily |-> q.daily, peak |-> q.peak, analysis |-> q.analysis,
           pref |-> q.pref]
  BY DEF Fed
<1> QED BY <1>1, Zenon DEF SetConsumers, Consumers

(* A start after a reboot, or the first one.                                *)
LEMMA StartForm ==
  ASSUME NEW n \in 0 .. MaxNow, NEW v \in BOOLEAN, NEW p \in Prefs,
         \A s \in {p.saved, p.flash, p.restored} :
           s.key <= DayAt(n) /\ MaxOk(s.key, s.maximum),
         NEW c, c = [session |-> NoSession, shown |-> Unknown,
                     demand |-> EmptyRing, daily |-> NoDay, peak |-> NoPeak,
                     analysis |-> NoAnalysis, pref |-> p]
  PROVE  FedInv(c, n, v)
<1>1. /\ NoSession \in Sessions /\ NoSession.last = 0 /\ NoSession.stale
      /\ ~NoSession.known
  BY Constants DEF NoSession, Sessions
<1>2. NoDay \in Days /\ NoDay.key = 0 /\ NoDay.maximum = {}
  <2>1. 0 \in 0 .. DayAt(MaxNow) /\ 0 \in 0 .. Wrap - 1
    <3>1. MaxNow \in 0 .. MaxNow
      BY Constants
    <3>2. DayAt(MaxNow) \in 1 .. DayAt(MaxNow)
      BY <3>1, DayRange
    <3>3. DayAt(MaxNow) \in Int
      <4>1. MaxNow \in Int /\ MaxNow <= MaxNow
        BY Constants
      <4> QED BY <4>1, DayOrder
    <3> QED BY <3>2, <3>3, Constants
  <2> QED BY <2>1 DEF NoDay, Days
<1>3. NoPeak \in Peaks /\ NoPeak.ticks = {}
  BY Constants DEF NoPeak, Peaks
<1>4. NoAnalysis \in Analyses /\ NoAnalysis.sum = {} /\ NoAnalysis.pending = {}
  BY DEF NoAnalysis, Analyses
<1>5. /\ EmptyRing \in Rings /\ RingAt(EmptyRing, 0)
      /\ EmptyRing.sum = {} /\ EmptyRing.current = {}
  <2>1. EmptyRing.sum = {} /\ EmptyRing.current = {}
    BY DEF EmptyRing
  <2> QED BY <2>1, EmptyRingAt
<1>6. /\ c.session = NoSession /\ c.shown = Unknown /\ c.demand = EmptyRing
      /\ c.daily = NoDay /\ c.peak = NoPeak /\ c.analysis = NoAnalysis
      /\ c.pref = p
  OBVIOUS
<1>7. c \in Fed
  <2> DEFINE s == NoSession
             u == Unknown
             e == EmptyRing
             y == NoDay
             k == NoPeak
             a == NoAnalysis
  <2>1. /\ s \in Sessions /\ u \in Ticks \cup {Unknown} /\ e \in Rings
        /\ y \in Days /\ k \in Peaks /\ a \in Analyses
        /\ c = [session |-> s, shown |-> u, demand |-> e, daily |-> y,
                peak |-> k, analysis |-> a, pref |-> p]
    BY <1>1, <1>2, <1>3, <1>4, <1>5
  <2> HIDE DEF s, u, e, y, k, a
  <2> QED BY <2>1 DEF Fed
<1>8. DayInv(NoDay, p, n, v)
  BY <1>2 DEF DayInv, MaxOk
<1>9. Run({}, 0) /\ Contiguous({})
  BY DEF Run, Contiguous
<1>10. NoSession.last <= n
  BY <1>1
<1> QED BY <1>1, <1>3, <1>4, <1>5, <1>6, <1>7, <1>8, <1>9, <1>10 DEF FedInv

(* The stream of a start.                                                   *)
LEMMA FirstForm ==
  ASSUME NEW n \in 0 .. MaxNow, NEW key
  PROVE  StreamInv(FirstStream, n, key)
<1> DEFINE t == TRUE
           f == FALSE
           one == 1
           z == 0
           u == [running |-> t, epoch |-> one, seq |-> z, ticks |-> z,
                 synced |-> f, lost |-> f]
<1>1. FirstStream = u /\ t \in BOOLEAN /\ f \in BOOLEAN /\ one \in Nat
      /\ z \in 0 .. MaxNow /\ z \in 0 .. MaxWindow - 1 /\ z <= n
  BY Constants DEF FirstStream
<1>2. ~f /\ z = 0
  OBVIOUS
<1> HIDE DEF t, f, one, z
<1>3. u \in Streams /\ u.synced = f /\ u.ticks = z /\ u.seq = z
  BY <1>1 DEF Streams
<1> HIDE DEF u
<1> QED BY <1>1, <1>2, <1>3 DEF StreamInv, Counting

(* What a step that leaves the stream, the journal and the time keeps.      *)
LEMMA SameStream ==
  ASSUME IInv, UNCHANGED <<stream, journal, now>>, Key' = Key,
         SameLast(session', session)
  PROVE  /\ StreamInv(stream', now', Key')
         /\ JournalInv(journal', stream', now', Key', session')
<1>1. /\ StreamInv(stream, now, Key) /\ session \in Sessions
      /\ JournalInv(journal, stream, now, Key, session)
  BY Facts
<1>2. Outruns(stream, now, stream, now)
  BY DEF Outruns
<1> DEFINE f == session'
           k == Key
<1>3. SameLast(f, session)
  OBVIOUS
<1>4. JournalInv(journal, stream, now, k, session)
  BY <1>1
<1> HIDE DEF f, k
<1>5. JournalInv(journal, stream, now, k, f)
  BY <1>1, <1>2, <1>3, <1>4, JournalStep
<1> QED BY <1>1, <1>5 DEF f, k

(* The restored day changes with the preferences only.                      *)
LEMMA KeyOf ==
  ASSUME pref'.restored = pref.restored
  PROVE  Key' = Key
BY DEF Key

(* The parts make the invariant.                                            *)
LEMMA Assemble ==
  ASSUME now' \in 0 .. MaxNow, clockValid' \in BOOLEAN,
         faults' \in 0 .. MaxFaults, reboots' \in 0 .. MaxReboots,
         FedInv(Consumers', now', clockValid'),
         StreamInv(stream', now', Key'),
         JournalInv(journal', stream', now', Key', session'),
         LoopInv'
  PROVE  IInv'
BY DEF IInv, Key

(* The bounded counters stay in their bounds.                               *)
LEMMA Counters ==
  ASSUME IInv
  PROVE  /\ faults \in 0 .. MaxFaults /\ reboots \in 0 .. MaxReboots
         /\ clockValid \in BOOLEAN /\ now \in 0 .. MaxNow
         /\ \A f : f = faults \/ (faults < MaxFaults /\ f = faults + 1)
              => f \in 0 .. MaxFaults
         /\ \A r : r = reboots \/ (reboots < MaxReboots /\ r = reboots + 1)
              => r \in 0 .. MaxReboots
BY Constants DEF IInv

(* The loop keeps its promise when nothing but time and the journal's tail   *)
(* change.                                                                   *)
LEMMA LoopLater ==
  ASSUME IInv, UNCHANGED <<loop, shown, session>>, now' \in {now, now + 1},
         Len(journal') \in Nat, Len(journal') >= Len(journal)
  PROVE  LoopInv'
<1>1. /\ loop \in [at : {"idle", "drain", "recover", "halt"}, left : 0 .. Len(journal)]
      /\ loop.at = "idle" => loop.left = 0
      /\ loop.left = 0 => \/ shown \in {Unknown, session.last}
                          \/ now - session.last > Timeout
  BY DEF IInv, LoopInv
<1>2. now \in Nat /\ session.last \in Nat /\ Len(journal) \in Nat
  BY Facts, SessionTypes
<1>3. now - session.last > Timeout => now' - session.last > Timeout
  BY <1>2, Constants
<1>4. 0 .. Len(journal) \subseteq 0 .. Len(journal')
  BY <1>2
<1> QED BY <1>1, <1>3, <1>4 DEF LoopInv

(* Tick keeps the invariant: the worker with one raw frame, and time.       *)
LEMMA TickStep ==
  ASSUME IInv, Tick
  PROVE  IInv'
<1>1. /\ Current /\ Held(Consumers) /\ now \in 0 .. MaxNow /\ now \in Nat
      /\ session \in Sessions /\ Key \in Nat /\ Key <= DayAt(now)
      /\ StreamInv(stream, now, Key) /\ stream \in Streams
      /\ JournalInv(journal, stream, now, Key, session)
      /\ Len(journal) \in Nat
  BY Facts
<1>2. /\ now' = now + 1 /\ now + 1 <= MaxNow /\ now' \in 0 .. MaxNow
      /\ UNCHANGED <<clockValid, loop, session, shown, demand, daily, peak,
                     analysis, pref, reboots>>
  BY <1>1, Constants DEF Tick
<1>3. FedInv(Consumers', now', clockValid')
  <2> DEFINE m == now + 1
             c == Consumers
  <2>1. m \in {now, now + 1} /\ m <= MaxNow
    BY <1>2
  <2>2. FedInv(c, now, clockValid) /\ clockValid \in BOOLEAN
    BY <1>1 DEF Held, Current
  <2> HIDE DEF m, c
  <2>3. FedInv(c, m, clockValid)
    BY <1>1, <2>1, <2>2, Later
  <2>4. Consumers' = c
    BY <1>2, SameConsumers DEF c
  <2> QED BY <1>2, <2>3, <2>4 DEF m
<1>4. Key' = Key
  BY <1>2 DEF Key
<1>5. Key <= DayAt(now + 1)
  <2>1. now \in Int /\ now + 1 \in Int /\ now <= now + 1 /\ now + 1 <= now + 1
    BY <1>1
  <2> DEFINE m == now + 1
  <2> HIDE DEF m
  <2>2. m \in Int /\ now <= m /\ m <= m /\ now \in Int
    BY <2>1 DEF m
  <2>3. DayAt(now) <= DayAt(m) /\ DayAt(now) \in Int
    BY <2>2, DayOrder
  <2>4. DayAt(m) \in Int
    BY <2>2, DayOrder
  <2>5. Key <= DayAt(m)
    BY <1>1, <2>3, <2>4
  <2> QED BY <2>5 DEF m
<1>6. /\ faults' \in 0 .. MaxFaults /\ reboots' \in 0 .. MaxReboots
      /\ clockValid' \in BOOLEAN
  <2>1. faults' = faults \/ (faults < MaxFaults /\ faults' = faults + 1)
    BY DEF Tick, LoseFrame, Resync, Accumulate, RejectWindow, WindowTimesOut,
           CloseWindow
  <2> QED BY <1>2, <2>1, Counters
<1>7. StreamInv(stream', now + 1, Key) /\ JournalInv(journal', stream', now + 1, Key, session)
      /\ Len(journal') \in Nat /\ Len(journal') >= Len(journal)
  <2>1. CASE stream.running /\ \E ok \in BOOLEAN : CloseWindow(ok)
    <3>1. PICK ok \in BOOLEAN : CloseWindow(ok)
      BY <2>1
    <3>2. StreamInv(stream', now + 1, Key)
      BY <1>1, <1>2, <2>1, <3>1, CloseStep
    <3>3. JournalInv(journal', stream', now + 1, Key, session)
      BY <1>1, <1>2, <2>1, <3>1, JournalGrows
    <3>4. journal' \in Seq(Window) /\ journal \in Seq(Window)
      BY <1>1, <3>3 DEF JournalInv
    <3>5. Len(journal') >= Len(journal)
      <4>1. CASE Len(journal) < Capacity
        <5>1. journal' = Append(journal, NextWindow(ok))
          BY <3>1, <4>1 DEF CloseWindow, NextWindow
        <5> DEFINE w == NextWindow(ok)
        <5>2. w \in Window
          BY <1>1, <1>2, <2>1, <3>1, CloseStep DEF Entry
        <5> HIDE DEF w
        <5>3. Len(journal') = Len(journal) + 1
          BY <3>4, <5>1, <5>2 DEF w
        <5> QED BY <1>1, <5>3
      <4>2. CASE ~(Len(journal) < Capacity)
        BY <1>1, <3>1, <4>2 DEF CloseWindow
      <4> QED BY <4>1, <4>2
    <3> QED BY <3>2, <3>3, <3>4, <3>5
  <2>2. CASE ~(stream.running /\ \E ok \in BOOLEAN : CloseWindow(ok))
    <3>1. journal' = journal
      BY <2>2 DEF Tick, LoseFrame, Resync, Accumulate, RejectWindow, WindowTimesOut
    <3>2. StreamInv(stream', now + 1, Key) /\ Outruns(stream', now + 1, stream, now)
      <4>1. CASE stream.running /\ LoseFrame
        BY <1>1, <1>2, <4>1, LoseStep
      <4>2. CASE stream.running /\ Resync
        BY <1>1, <1>2, <1>5, <4>2, ResyncStep
      <4>3. CASE stream.running /\ Accumulate
        BY <1>1, <1>2, <4>3, AccumulateStep
      <4>4. CASE stream.running /\ RejectWindow
        BY <1>1, <1>2, <1>5, <4>4, RejectStep
      <4>5. CASE stream.running /\ WindowTimesOut
        BY <1>1, <1>2, <1>5, <4>5, TimesOutStep
      <4>6. CASE ~stream.running
        <5> DEFINE u == stream'
                   m == now + 1
        <5>1. u = stream
          BY <4>6 DEF Tick
        <5>2. /\ u \in Streams /\ u.seq = stream.seq /\ u.epoch = stream.epoch
              /\ (~u.synced => u.ticks = 0) /\ (~u.running \/ u.lost)
          BY <1>1, <4>6, <5>1 DEF StreamInv
        <5>3. m \in {now, now + 1} /\ m <= MaxNow
          BY <1>2
        <5> HIDE DEF u, m
        <5>4. StreamInv(u, m, Key) /\ Outruns(u, m, stream, now)
          BY <1>1, <5>2, <5>3, IdleStep
        <5> QED BY <5>4 DEF u, m
      <4> QED BY <2>2, <4>1, <4>2, <4>3, <4>4, <4>5, <4>6 DEF Tick
    <3>3. JournalInv(journal, stream', now + 1, Key, session)
      <4> DEFINE u == stream'
                 m == now + 1
      <4>1. Outruns(u, m, stream, now)
        BY <3>2
      <4>2. SameLast(session, session)
        BY DEF SameLast
      <4> HIDE DEF u, m
      <4>3. JournalInv(journal, u, m, Key, session)
        BY <1>1, <4>1, <4>2, JournalStep
      <4> QED BY <4>3 DEF u, m
    <3> QED BY <1>1, <3>1, <3>2, <3>3
  <2> QED BY <2>1, <2>2
<1>8. LoopInv'
  BY <1>2, <1>7, LoopLater
<1>9. StreamInv(stream', now', Key') /\ JournalInv(journal', stream', now', Key', session')
  BY <1>2, <1>4, <1>7
<1> QED BY <1>2, <1>3, <1>6, <1>8, <1>9, Assemble

(* What a step of the loop leaves alone.                                    *)
LEMMA SameTime ==
  ASSUME IInv, UNCHANGED <<now, clockValid, reboots>>,
         faults' = faults \/ (faults < MaxFaults /\ faults' = faults + 1)
  PROVE  /\ now' \in 0 .. MaxNow /\ clockValid' \in BOOLEAN
         /\ faults' \in 0 .. MaxFaults /\ reboots' \in 0 .. MaxReboots
BY Counters

(* A step that leaves the consumers and the time.                           *)
LEMMA SameFed ==
  ASSUME IInv, UNCHANGED <<now, clockValid, session, shown, demand, daily, peak,
                           analysis, pref>>
  PROVE  FedInv(Consumers', now', clockValid')
<1>1. Consumers' = Consumers
  BY SameConsumers
<1> QED BY <1>1 DEF IInv

(* The types of the loop's state.                                           *)
LEMMA LoopTypes ==
  ASSUME IInv
  PROVE  /\ loop = [at |-> loop.at, left |-> loop.left]
         /\ loop.at \in {"idle", "drain", "recover", "halt"}
         /\ loop.left \in 0 .. Len(journal) /\ loop.left \in Nat
         /\ loop.at = "idle" => loop.left = 0
         /\ loop.left = 0 => \/ shown \in {Unknown, session.last}
                             \/ now - session.last > Timeout
<1>1. Len(journal) \in Nat
  BY Facts
<1> QED BY <1>1 DEF IInv, LoopInv

(* Taking the entries present: StartDrain.                                  *)
LEMMA DrainLoop ==
  ASSUME IInv, loop.left = 0, NEW at \in {"drain", "recover", "halt"},
         StartDrain(at), UNCHANGED <<now, journal, session, shown>>
  PROVE  LoopInv'
<1>1. \/ shown \in {Unknown, session.last}
      \/ now - session.last > Timeout
  BY LoopTypes
<1>2. loop' = [at |-> at, left |-> Len(journal)] /\ Len(journal) \in Nat
  BY Facts DEF StartDrain
<1>3. loop' \in [at : {"idle", "drain", "recover", "halt"}, left : 0 .. Len(journal)]
      /\ loop'.at # "idle"
  BY <1>2
<1> QED BY <1>1, <1>3 DEF LoopInv

(* BeginPass keeps the invariant.                                           *)
LEMMA BeginStep ==
  ASSUME IInv, BeginPass
  PROVE  IInv'
<1>1. /\ loop.at = "idle" /\ StartDrain("drain")
      /\ UNCHANGED <<now, clockValid, stream, journal, session, shown, demand,
                     daily, peak, analysis, pref, faults, reboots>>
  BY DEF BeginPass
<1>2. loop.left = 0
  BY <1>1, LoopTypes
<1>3. LoopInv'
  <2>1. "drain" \in {"drain", "recover", "halt"}
    OBVIOUS
  <2> QED BY <1>1, <1>2, <2>1, DrainLoop
<1>4. Key' = Key /\ SameLast(session', session)
  BY <1>1 DEF Key, SameLast
<1> QED BY <1>1, <1>3, <1>4, SameTime, SameFed, SameStream, Assemble

(* Stopping the receiver keeps the invariant: the windows it completed stay *)
(* to be drained.                                                           *)
LEMMA StopStep ==
  ASSUME IInv, NEW at \in {"drain", "recover", "halt"}, loop.left = 0,
         StopReceiver(at)
  PROVE  IInv'
<1>1. /\ StartDrain(at) /\ stream' = [stream EXCEPT !.running = FALSE]
      /\ faults < MaxFaults /\ faults' = faults + 1
      /\ UNCHANGED <<now, clockValid, journal, session, shown, demand, daily,
                     peak, analysis, pref, reboots>>
  BY DEF StopReceiver
<1>2. LoopInv'
  BY <1>1, DrainLoop
<1>3. /\ Key' = Key /\ SameLast(session, session) /\ session' = session
      /\ now' = now /\ journal' = journal
  BY <1>1 DEF Key, SameLast
<1>4. /\ StreamInv(stream, now, Key) /\ stream \in Streams /\ session \in Sessions
      /\ JournalInv(journal, stream, now, Key, session) /\ now \in 0 .. MaxNow
  BY Facts
<1>5. StreamInv(stream', now, Key) /\ Outruns(stream', now, stream, now)
  <2> DEFINE u == stream'
             m == now
  <2>1. /\ u \in Streams /\ u.seq = stream.seq /\ u.epoch = stream.epoch
        /\ u.synced = stream.synced /\ u.ticks = stream.ticks /\ ~u.running
    BY <1>1, <1>4 DEF Streams
  <2>2. ~u.synced => u.ticks = 0
    BY <1>4, <2>1 DEF StreamInv
  <2>3. m \in {now, now + 1} /\ m <= MaxNow
    BY <1>4, Constants
  <2> HIDE DEF u, m
  <2>4. StreamInv(u, m, Key) /\ Outruns(u, m, stream, now)
    BY <1>4, <2>1, <2>2, <2>3, IdleStep
  <2> QED BY <2>4 DEF u, m
<1>6. JournalInv(journal, stream', now, Key, session)
  <2> DEFINE u == stream'
  <2>1. Outruns(u, now, stream, now)
    BY <1>5
  <2> HIDE DEF u
  <2>2. JournalInv(journal, u, now, Key, session)
    BY <1>3, <1>4, <2>1, JournalStep
  <2> QED BY <2>2 DEF u
<1>7. StreamInv(stream', now', Key') /\ JournalInv(journal', stream', now', Key', session')
  BY <1>3, <1>5, <1>6
<1> QED BY <1>1, <1>2, <1>7, SameTime, SameFed, Assemble

(* DrainOne keeps the invariant: the oldest window goes from the journal    *)
(* into the consumers.                                                      *)
LEMMA DrainStep ==
  ASSUME IInv, DrainOne
  PROVE  IInv'
<1> DEFINE w == Head(journal)
           c == Consumers
           publish == loop.left = 1
<1>1. /\ Current /\ Held(c) /\ c.session = session
      /\ c.pref = pref /\ now \in 0 .. MaxNow /\ now \in Nat /\ session \in Sessions
      /\ Key \in Nat /\ StreamInv(stream, now, Key)
      /\ JournalInv(journal, stream, now, Key, session)
      /\ journal \in Seq(Window) /\ Len(journal) \in Nat
  BY Facts
<1>2. /\ loop = [at |-> loop.at, left |-> loop.left]
      /\ loop.at \in {"idle", "drain", "recover", "halt"}
      /\ loop.left \in 0 .. Len(journal) /\ loop.left \in Nat
      /\ loop.at = "idle" => loop.left = 0
  BY LoopTypes
<1>3. /\ loop.left > 0 /\ journal' = Tail(journal)
      /\ loop' = [loop EXCEPT !.left = @ - 1]
      /\ UNCHANGED <<now, clockValid, stream, faults, reboots>>
  BY DEF DrainOne
<1>4. Len(journal) > 0 /\ 1 \in 1 .. Len(journal) /\ w = journal[1]
  BY <1>1, <1>2, <1>3
<1>5. PICK larger \in BOOLEAN : SetConsumers(Submit(w, publish, larger))
  BY DEF DrainOne
<1> DEFINE q == Submit(w, publish, larger)
<1>6. Ready(w, Key)
  <2>1. /\ journal[1].duration >= MinWindow
        /\ journal[1].end >= journal[1].duration
        /\ Key <= DayAt(journal[1].end - journal[1].duration)
        /\ Behind(stream, now, journal[1].seq, journal[1].epoch, journal[1].end)
    BY <1>1, <1>4 DEF JournalInv
  <2>2. journal[1] \in Window /\ journal[1].seq \in Nat /\ journal[1].end \in Nat
        /\ journal[1].duration \in Nat
    BY <1>1, <1>4, EntryTypes
  <2>3. stream.seq \in 0 .. MaxNow
    BY <1>1, StreamFields DEF StreamInv
  <2>4. /\ journal[1].seq <= stream.seq /\ journal[1].end <= now
    BY <2>1 DEF Behind
  <2>5. journal[1].seq \in 0 .. MaxNow
    BY <2>2, <2>3, <2>4, Constants
  <2> HIDE DEF w
  <2> QED BY <1>4, <2>1, <2>2, <2>4, <2>5 DEF Ready
<1>7. session.known => Follows(w, session.seq, session.epoch, session.last)
  BY <1>1, <1>4 DEF JournalInv
<1> HIDE DEF w
<1>8. publish \in BOOLEAN
  OBVIOUS
<1> HIDE DEF publish
<1>9. /\ Held(q) /\ q.pref.restored = c.pref.restored
      /\ q.session \in {c.session, After(w)}
      /\ publish => q.shown \in {Unknown, q.session.last}
                    \/ now - q.session.last > Timeout
  <2>1. c = Consumers
    OBVIOUS
  <2>2. q = Submit(w, publish, larger)
    OBVIOUS
  <2> HIDE DEF c, q
  <2>3. Ready(w, c.pref.restored.key)
    BY <1>1, <1>6 DEF Key
  <2>4. c.session.known => Follows(w, c.session.seq, c.session.epoch, c.session.last)
    BY <1>1, <1>7
  <2> QED BY <1>1, <1>8, <2>1, <2>2, <2>3, <2>4, SubmitForm
<1> HIDE DEF q, c
<1>10. /\ Consumers' = q /\ session' = q.session /\ shown' = q.shown
       /\ pref' = q.pref
  <2>1. q \in Fed
    BY <1>9 DEF Held, FedInv
  <2>2. SetConsumers(q)
    BY <1>5 DEF q
  <2> QED BY <2>1, <2>2, SetForm
<1>11. Key' = Key
  BY <1>1, <1>9, <1>10 DEF Key
<1>12. FedInv(Consumers', now', clockValid')
  BY <1>3, <1>9, <1>10 DEF Held
<1>13. JournalInv(journal', stream', now', Key', session')
  <2> DEFINE f == session'
             k == Key
             j == journal
  <2>1. SameLast(f, session) \/ SameLast(f, After(j[1]))
    BY <1>1, <1>4, <1>9, <1>10 DEF SameLast
  <2>2. JournalInv(j, stream, now, k, session) /\ Len(j) > 0
    BY <1>1, <1>4
  <2> HIDE DEF f, k, j
  <2>3. JournalInv(Tail(j), stream, now, k, f)
    BY <2>1, <2>2, TailStep
  <2> QED BY <1>3, <1>11, <2>3 DEF f, k, j
<1>14. StreamInv(stream', now', Key')
  BY <1>1, <1>3, <1>11
<1>15. LoopInv'
  <2> DEFINE l == loop.left - 1
  <2>1. Len(journal') = Len(journal) - 1
    <3>1. journal # <<>>
      BY <1>1, <1>4
    <3> QED BY <1>1, <1>3, <3>1, HeadTailProperties
  <2>2. loop' = [at |-> loop.at, left |-> l]
    BY <1>2, <1>3
  <2>3. l \in 0 .. Len(journal') /\ (l = 0 => loop.left = 1)
    BY <1>1, <1>2, <1>3, <2>1
  <2> HIDE DEF l
  <2>4. /\ loop' \in [at : {"idle", "drain", "recover", "halt"}, left : 0 .. Len(journal')]
        /\ loop'.at = loop.at /\ loop'.left = l
    BY <1>2, <2>2, <2>3
  <2>5. loop'.at # "idle"
    BY <1>2, <1>3, <2>4
  <2>6. loop'.left = 0 => \/ shown' \in {Unknown, session'.last}
                          \/ now' - session'.last > Timeout
    <3>1. loop'.left = 0 => publish
      BY <2>3, <2>4 DEF publish
    <3> QED BY <1>3, <1>9, <1>10, <3>1
  <2> QED BY <2>4, <2>5, <2>6 DEF LoopInv
<1> QED BY <1>3, <1>12, <1>13, <1>14, <1>15, SameTime, Assemble

(* SetupReceiver starts an empty journal and a new epoch.                   *)
LEMMA SetupForm ==
  ASSUME IInv, SetupReceiver, now' = now, Key' = Key, SameLast(session', session)
  PROVE  /\ StreamInv(stream', now', Key')
         /\ JournalInv(journal', stream', now', Key', session')
<1>1. /\ StreamInv(stream, now, Key) /\ stream \in Streams /\ session \in Sessions
      /\ JournalInv(journal, stream, now, Key, session) /\ now \in 0 .. MaxNow
      /\ Key <= DayAt(now)
  BY Facts
<1> DEFINE u == stream'
           m == now
           g == FreshStream(stream)
           t == TRUE
           f == FALSE
           e == session'
           k == Key
<1>2. u = [g EXCEPT !.running = TRUE] /\ journal' = <<>>
  BY DEF SetupReceiver
<1>3. Fresh(g, stream, stream.running, FALSE)
  BY <1>1, FreshForm
<1> HIDE DEF g, u
<1>4. Fresh(u, stream, t, f)
  BY <1>2, <1>3 DEF Fresh
<1>5. m \in {now, now + 1} /\ m <= MaxNow /\ k <= DayAt(m) /\ t \in BOOLEAN /\ f \in BOOLEAN
      /\ StreamInv(stream, now, k)
  BY <1>1, Constants
<1> HIDE DEF m, t, f, k
<1>6. StreamInv(u, m, k) /\ Outruns(u, m, stream, now)
  BY <1>1, <1>4, <1>5, FreshStep
<1>7. e.known => Behind(u, m, e.seq, e.epoch, e.last)
  <2>1. session.seq \in Nat /\ session.epoch \in Nat /\ session.last \in 0 .. MaxNow
    BY <1>1, SessionTypes
  <2>2. session.known => Behind(stream, now, session.seq, session.epoch, session.last)
    BY <1>1 DEF JournalInv
  <2>3. session.known => Behind(u, m, session.seq, session.epoch, session.last)
    BY <1>6, <2>1, <2>2 DEF Outruns
  <2>4. SameLast(e, session)
    OBVIOUS
  <2> HIDE DEF e
  <2> QED BY <2>3, <2>4 DEF SameLast
<1> HIDE DEF e
<1>8. JournalInv(<<>>, u, m, k, e)
  BY <1>7, EmptyJournal
<1> QED BY <1>2, <1>6, <1>8 DEF u, m, e, k

(* Halted keeps the invariant.                                              *)
LEMMA HaltedStep ==
  ASSUME IInv, Halted
  PROVE  IInv'
<1>1. /\ loop.at = "halt" /\ loop.left = 0 /\ loop' = [loop EXCEPT !.at = "idle"]
      /\ journal' = <<>>
      /\ UNCHANGED <<now, clockValid, stream, session, shown, demand, daily,
                     peak, analysis, pref, faults, reboots>>
  BY DEF Halted
<1>2. /\ StreamInv(stream, now, Key)
      /\ JournalInv(journal, stream, now, Key, session)
  BY Facts
<1>3. Key' = Key
  BY <1>1 DEF Key
<1>4. JournalInv(<<>>, stream, now, Key, session)
  <2> DEFINE k == Key
  <2>1. session.known => Behind(stream, now, session.seq, session.epoch, session.last)
    BY <1>2 DEF JournalInv
  <2> HIDE DEF k
  <2>2. JournalInv(<<>>, stream, now, k, session)
    BY <2>1, EmptyJournal
  <2> QED BY <2>2 DEF k
<1>5. LoopInv'
  <2>1. /\ loop = [at |-> loop.at, left |-> loop.left]
        /\ shown \in {Unknown, session.last} \/ now - session.last > Timeout
    BY <1>1, LoopTypes
  <2>2. loop' = [at |-> "idle", left |-> 0] /\ Len(journal') = 0
    BY <1>1, <2>1
  <2>3. loop' \in [at : {"idle", "drain", "recover", "halt"}, left : 0 .. Len(journal')]
        /\ loop'.left = 0
    BY <2>2
  <2> QED BY <1>1, <2>1, <2>3 DEF LoopInv
<1> QED BY <1>1, <1>2, <1>3, <1>4, <1>5, SameTime, SameFed, Assemble

(* The checks at the end of a pass, and what they leave to show.            *)
LEMMA ChecksStep ==
  ASSUME IInv, loop.left = 0, now' = now, clockValid' = clockValid,
         NEW q, Held(q), SetConsumers(q), q.pref.restored = pref.restored,
         q.session.known = session.known, q.session.last = session.last,
         q.session.seq = session.seq, q.session.epoch = session.epoch,
         q.shown \in {Unknown, shown},
         q.shown = Unknown \/ now - q.session.last <= Timeout
  PROVE  /\ FedInv(Consumers', now', clockValid')
         /\ Key' = Key /\ SameLast(session', session)
         /\ shown' \in {Unknown, session'.last} \/ now' - session'.last > Timeout
         /\ shown' = Unknown \/ now - shown' <= Timeout
<1>1. /\ Consumers' = q /\ session' = q.session /\ shown' = q.shown
      /\ pref' = q.pref
  <2>1. q \in Fed
    BY DEF Held, FedInv
  <2> QED BY <2>1, SetForm
<1>2. shown \in {Unknown, session.last} \/ now - session.last > Timeout
  BY LoopTypes
<1>3. now \in Nat /\ session.last \in Nat
  BY Facts, SessionTypes
<1>4. FedInv(Consumers', now', clockValid')
  BY <1>1 DEF Held
<1>5. Key' = Key /\ SameLast(session', session)
  BY <1>1 DEF Key, SameLast
<1>6. shown' \in {Unknown, session'.last} \/ now' - session'.last > Timeout
  BY <1>1, <1>2
<1>7. shown' = Unknown \/ now - shown' <= Timeout
  <2> SUFFICES ASSUME q.shown # Unknown PROVE now - q.shown <= Timeout
    BY <1>1
  <2>1. q.shown = shown /\ now - session.last <= Timeout
    OBVIOUS
  <2>2. ~(now - session.last > Timeout)
    BY <1>3, <2>1, Constants
  <2>3. shown = session.last
    BY <1>2, <2>1, <2>2
  <2> QED BY <2>1, <2>3
<1> QED BY <1>4, <1>5, <1>6, <1>7

(* EndPass keeps the invariant, and leaves nothing older than the timeout   *)
(* shown.                                                                   *)
LEMMA EndStep ==
  ASSUME IInv, EndPass
  PROVE  IInv' /\ (shown' = Unknown \/ now - shown' <= Timeout)
<1> DEFINE c == Consumers
<1>1. /\ Current /\ Held(c) /\ c.session = session /\ c.shown = shown
      /\ c.pref = pref /\ Len(journal) \in Nat
  BY Facts
<1>2. /\ loop.left = 0 /\ loop' = [loop EXCEPT !.at = "idle"]
      /\ UNCHANGED <<now, clockValid, faults, reboots>>
      /\ IF loop.at = "recover" THEN SetupReceiver ELSE UNCHANGED <<stream, journal>>
  BY DEF EndPass
<1>3. PICK peakDue \in BOOLEAN, dayDue \in BOOLEAN :
        SetConsumers(Checks(peakDue, dayDue))
  BY DEF EndPass
<1> DEFINE q == Checks(peakDue, dayDue)
<1>4. /\ Held(q) /\ q.pref.restored = c.pref.restored
      /\ q.session.known = c.session.known /\ q.session.last = c.session.last
      /\ q.session.seq = c.session.seq /\ q.session.epoch = c.session.epoch
      /\ q.shown \in {Unknown, c.shown}
      /\ q.shown = Unknown \/ now - q.session.last <= Timeout
  <2>1. c = Consumers
    OBVIOUS
  <2>2. q = Checks(peakDue, dayDue)
    OBVIOUS
  <2> HIDE DEF c, q
  <2> QED BY <1>1, <2>1, <2>2, ChecksForm
<1> HIDE DEF c, q
<1>5. /\ FedInv(Consumers', now', clockValid')
      /\ Key' = Key /\ SameLast(session', session)
      /\ shown' \in {Unknown, session'.last} \/ now' - session'.last > Timeout
      /\ shown' = Unknown \/ now - shown' <= Timeout
  <2>1. SetConsumers(q)
    BY <1>3 DEF q
  <2>2. /\ q.pref.restored = pref.restored
        /\ q.session.known = session.known /\ q.session.last = session.last
        /\ q.session.seq = session.seq /\ q.session.epoch = session.epoch
        /\ q.shown \in {Unknown, shown}
    BY <1>1, <1>4
  <2> QED BY <1>2, <1>4, <2>1, <2>2, ChecksStep
<1>6. StreamInv(stream', now', Key') /\ JournalInv(journal', stream', now', Key', session')
  <2>1. CASE loop.at = "recover"
    BY <1>2, <1>5, <2>1, SetupForm
  <2>2. CASE loop.at # "recover"
    BY <1>2, <1>5, <2>2, SameStream
  <2> QED BY <2>1, <2>2
<1>7. LoopInv'
  <2>1. loop = [at |-> loop.at, left |-> loop.left]
    BY LoopTypes
  <2>2. loop' = [at |-> "idle", left |-> 0]
    BY <1>2, <2>1
  <2>3. Len(journal') \in Nat
    BY <1>6 DEF JournalInv
  <2>4. loop' \in [at : {"idle", "drain", "recover", "halt"}, left : 0 .. Len(journal')]
        /\ loop'.left = 0
    BY <2>2, <2>3
  <2> QED BY <1>5, <2>4 DEF LoopInv
<1>8. reboots' = reboots
  BY <1>2
<1> QED BY <1>2, <1>5, <1>6, <1>7, SameTime, Assemble

(* So does a pass without a receiver.                                       *)
LEMMA PausedStep ==
  ASSUME IInv, PausedPass
  PROVE  IInv' /\ (shown' = Unknown \/ now - shown' <= Timeout)
<1> DEFINE c == Consumers
           q == CheckTimeout(c)
<1>1. /\ Current /\ Held(c) /\ c.session = session /\ c.shown = shown
      /\ c.pref = pref /\ Len(journal) \in Nat
  BY Facts
<1>2. /\ loop.at = "idle" /\ SetConsumers(q)
      /\ UNCHANGED <<now, clockValid, stream, journal, loop, faults, reboots>>
  BY DEF PausedPass
<1>3. loop.left = 0
  BY <1>2, LoopTypes
<1>4. /\ Kept(q, c)
      /\ q.shown = Unknown \/ now - q.session.last <= Timeout
  <2> HIDE DEF c
  <2> QED BY <1>1, TimeoutForm
<1> HIDE DEF c, q
<1>5. /\ FedInv(Consumers', now', clockValid')
      /\ Key' = Key /\ SameLast(session', session)
      /\ shown' \in {Unknown, session'.last} \/ now' - session'.last > Timeout
      /\ shown' = Unknown \/ now - shown' <= Timeout
  <2>1. /\ Held(q) /\ q.pref.restored = pref.restored
        /\ q.session.known = session.known /\ q.session.last = session.last
        /\ q.session.seq = session.seq /\ q.session.epoch = session.epoch
        /\ q.shown \in {Unknown, shown}
    BY <1>1, <1>4 DEF Kept
  <2> QED BY <1>2, <1>3, <1>4, <2>1, ChecksStep
<1>6. StreamInv(stream', now', Key') /\ JournalInv(journal', stream', now', Key', session')
  BY <1>2, <1>5, SameStream
<1>7. LoopInv'
  <2>1. /\ loop' = loop /\ journal' = journal
        /\ loop \in [at : {"idle", "drain", "recover", "halt"}, left : 0 .. Len(journal)]
    BY <1>2 DEF IInv, LoopInv
  <2> QED BY <1>2, <1>3, <1>5, <2>1 DEF LoopInv
<1> QED BY <1>2, <1>5, <1>6, <1>7, SameTime, Assemble

(* Resume keeps the invariant.                                              *)
LEMMA ResumeStep ==
  ASSUME IInv, Resume
  PROVE  IInv'
<1>1. /\ loop.at = "idle" /\ SetupReceiver
      /\ UNCHANGED <<now, clockValid, loop, session, shown, demand, daily, peak,
                     analysis, pref, faults, reboots>>
  BY DEF Resume
<1>2. /\ Key' = Key /\ SameLast(session', session)
  BY <1>1 DEF Key, SameLast
<1>3. StreamInv(stream', now', Key') /\ JournalInv(journal', stream', now', Key', session')
  BY <1>1, <1>2, SetupForm
<1>4. LoopInv'
  <2>1. /\ loop = [at |-> loop.at, left |-> loop.left] /\ loop.left = 0
        /\ shown \in {Unknown, session.last} \/ now - session.last > Timeout
        /\ loop.at \in {"idle", "drain", "recover", "halt"}
    BY <1>1, LoopTypes
  <2>2. Len(journal') \in Nat
    BY <1>3 DEF JournalInv
  <2>3. loop \in [at : {"idle", "drain", "recover", "halt"}, left : 0 .. Len(journal')]
    BY <2>1, <2>2
  <2> QED BY <1>1, <2>1, <2>3 DEF LoopInv
<1> QED BY <1>1, <1>3, <1>4, SameTime, SameFed, Assemble

(* ClockSync keeps the invariant: the day becomes known, restored or new.   *)
LEMMA ClockStep ==
  ASSUME IInv, ClockSync
  PROVE  IInv'
<1>1. /\ clockValid' = TRUE
      /\ UNCHANGED <<now, stream, journal, loop, session, shown, demand, daily,
                     peak, analysis, pref, faults, reboots>>
  BY DEF ClockSync
<1>2. FedInv(Consumers', now', clockValid')
  <2> DEFINE c == Consumers
             t == TRUE
             m == now
  <2>1. /\ FedInv(c, now, clockValid) /\ clockValid \in BOOLEAN /\ t \in BOOLEAN
        /\ (clockValid => t) /\ m \in {now, now + 1} /\ m <= MaxNow
        /\ now \in 0 .. MaxNow
    BY Facts, Constants DEF IInv
  <2> HIDE DEF c, t, m
  <2>2. FedInv(c, m, t)
    BY <2>1, Later
  <2>3. Consumers' = c
    BY <1>1, SameConsumers DEF c
  <2> QED BY <1>1, <2>2, <2>3 DEF t, m
<1>3. /\ Key' = Key /\ SameLast(session', session)
  BY <1>1 DEF Key, SameLast
<1>4. Len(journal') \in Nat /\ Len(journal') >= Len(journal)
  BY <1>1, Facts
<1>5. LoopInv'
  BY <1>1, <1>4, LoopLater
<1>6. StreamInv(stream', now', Key') /\ JournalInv(journal', stream', now', Key', session')
  BY <1>1, <1>3, SameStream
<1>7. /\ now' \in 0 .. MaxNow /\ clockValid' \in BOOLEAN
      /\ faults' \in 0 .. MaxFaults /\ reboots' \in 0 .. MaxReboots
  BY <1>1, Counters
<1> QED BY <1>2, <1>5, <1>6, <1>7, Assemble

(* FlushPreferences keeps the invariant: what is saved reaches the flash.   *)
LEMMA FlushStep ==
  ASSUME IInv, FlushPreferences
  PROVE  IInv'
<1>1. /\ pref' = [pref EXCEPT !.flash = pref.saved]
      /\ UNCHANGED <<now, clockValid, stream, journal, loop, session, shown,
                     demand, daily, peak, analysis, faults, reboots>>
  BY DEF FlushPreferences
<1> DEFINE c == Consumers
           p == pref'
<1>2. /\ FedInv(c, now, clockValid) /\ c \in Fed
  BY DEF IInv, FedInv
<1>3. /\ c.session = session /\ c.shown = shown /\ c.demand = demand
      /\ c.daily = daily /\ c.peak = peak /\ c.analysis = analysis /\ c.pref = pref
  BY DEF Consumers
<1>4. /\ session \in Sessions /\ shown \in Ticks \cup {Unknown} /\ demand \in Rings
      /\ daily \in Days /\ peak \in Peaks /\ analysis \in Analyses
      /\ pref \in Prefs
  BY <1>2, <1>3 DEF Fed
<1>5. /\ p \in Prefs /\ p.saved = pref.saved /\ p.flash = pref.saved
      /\ p.restored = pref.restored
  BY <1>1, <1>4 DEF Prefs
<1> HIDE DEF p
<1>6. Consumers' = [session |-> session, shown |-> shown, demand |-> demand,
                    daily |-> daily, peak |-> peak, analysis |-> analysis,
                    pref |-> p]
  BY <1>1 DEF Consumers, p
<1> DEFINE q == Consumers'
<1> HIDE DEF q, c
<1>7. /\ q \in Fed /\ q.session = session /\ q.shown = shown /\ q.demand = demand
      /\ q.daily = daily /\ q.peak = peak /\ q.analysis = analysis /\ q.pref = p
  BY <1>4, <1>5, <1>6 DEF Fed, q
<1>8. DayInv(daily, p, now, clockValid)
  <2>1. DayInv(daily, pref, now, clockValid)
    BY <1>2, <1>3 DEF FedInv
  <2> QED BY <1>5, <2>1 DEF DayInv
<1>9. FedInv(q, now, clockValid)
  <2>1. /\ session.last <= now /\ (~session.known => session.stale)
        /\ session.stale => /\ demand = EmptyRing /\ peak = NoPeak
                            /\ analysis = NoAnalysis /\ shown = Unknown
        /\ RingAt(demand, session.last)
        /\ Run(peak.ticks, session.last) /\ Run(analysis.sum, session.last)
        /\ Contiguous(analysis.pending)
        /\ \A t \in demand.sum \cup demand.current :
             pref.restored.key <= DayOfTick(t)
    BY <1>2, <1>3 DEF FedInv
  <2> QED BY <1>5, <1>7, <1>8, <2>1 DEF FedInv
<1>10. FedInv(Consumers', now', clockValid')
  BY <1>1, <1>9 DEF q
<1>11. /\ Key' = Key /\ SameLast(session', session)
  <2>1. pref'.restored = pref.restored
    BY <1>5 DEF p
  <2> QED BY <1>1, <2>1 DEF Key, SameLast
<1>12. Len(journal') \in Nat /\ Len(journal') >= Len(journal)
  BY <1>1, Facts
<1>13. LoopInv'
  BY <1>1, <1>12, LoopLater
<1>14. StreamInv(stream', now', Key') /\ JournalInv(journal', stream', now', Key', session')
  BY <1>1, <1>11, SameStream
<1> QED BY <1>1, <1>10, <1>13, <1>14, SameTime, Assemble

(* Reboot keeps the invariant: only the preferences in flash remain.        *)
LEMMA RebootStep ==
  ASSUME IInv, Reboot
  PROVE  IInv'
<1>1. /\ reboots < MaxReboots /\ reboots' = reboots + 1
      /\ clockValid' \in {FALSE, clockValid}
      /\ stream' = FirstStream /\ journal' = <<>>
      /\ loop' = [at |-> "idle", left |-> 0]
      /\ session' = NoSession /\ shown' = Unknown
      /\ demand' = EmptyRing /\ peak' = NoPeak /\ analysis' = NoAnalysis
      /\ daily' = NoDay
      /\ pref' = [pref EXCEPT !.saved = pref.flash, !.restored = pref.flash]
      /\ UNCHANGED <<now, faults>>
  BY DEF Reboot
<1>2. pref \in Prefs /\ now \in 0 .. MaxNow
  BY Facts
<1>3. clockValid' \in BOOLEAN
  BY <1>1, Counters
<1> DEFINE p == [saved |-> pref.flash, flash |-> pref.flash, restored |-> pref.flash]
<1>4. pref' = p
  <2>1. pref = [saved |-> pref.saved, flash |-> pref.flash, restored |-> pref.restored]
    BY <1>2 DEF Prefs
  <2> QED BY <1>1, <2>1
<1>5. p \in Prefs
  BY <1>2 DEF Prefs
<1>6. \A s \in {p.saved, p.flash, p.restored} :
        s.key <= DayAt(now) /\ MaxOk(s.key, s.maximum)
  <2>1. DayInv(Consumers.daily, Consumers.pref, now, clockValid)
        /\ Consumers.pref = pref
    BY Facts DEF IInv, FedInv
  <2>2. pref.flash.key <= DayAt(now) /\ MaxOk(pref.flash.key, pref.flash.maximum)
    BY <2>1 DEF DayInv
  <2> QED BY <2>2
<1> HIDE DEF p
<1>7. FedInv(Consumers', now', clockValid')
  <2> DEFINE q == Consumers'
             v == clockValid'
  <2>1. q = [session |-> NoSession, shown |-> Unknown, demand |-> EmptyRing,
             daily |-> NoDay, peak |-> NoPeak, analysis |-> NoAnalysis,
             pref |-> p]
    BY <1>1, <1>4 DEF Consumers
  <2>2. v \in BOOLEAN
    BY <1>3
  <2> HIDE DEF q, v
  <2>3. FedInv(q, now, v)
    BY <1>2, <1>5, <1>6, <2>1, <2>2, StartForm
  <2> QED BY <1>1, <2>3 DEF q, v
<1>8. StreamInv(stream', now', Key') /\ JournalInv(journal', stream', now', Key', session')
  <2> DEFINE k == Key'
             e == session'
             u == FirstStream
  <2>1. ~e.known
    BY <1>1 DEF NoSession
  <2> HIDE DEF k, e, u
  <2>2. StreamInv(FirstStream, now, k)
    BY <1>2, FirstForm
  <2>3. JournalInv(<<>>, u, now, k, e)
    BY <2>1, EmptyJournal
  <2> QED BY <1>1, <2>2, <2>3 DEF k, e, u
<1>9. LoopInv'
  <2>1. Len(journal') = 0
    BY <1>1
  <2>2. loop' \in [at : {"idle", "drain", "recover", "halt"}, left : 0 .. Len(journal')]
    BY <1>1, <2>1
  <2> QED BY <1>1, <2>2 DEF LoopInv
<1>10. /\ now' \in 0 .. MaxNow /\ faults' \in 0 .. MaxFaults
       /\ reboots' \in 0 .. MaxReboots
  BY <1>1, Counters
<1> QED BY <1>3, <1>7, <1>8, <1>9, <1>10, Assemble

(* The invariant holds at the first boot.                                   *)
LEMMA Initially == Init => IInv
<1> SUFFICES ASSUME Init PROVE IInv
  OBVIOUS
<1>1. /\ now = 0 /\ clockValid = FALSE
      /\ stream = FirstStream /\ journal = <<>>
      /\ loop = [at |-> "idle", left |-> 0]
      /\ session = NoSession /\ shown = Unknown
      /\ demand = EmptyRing /\ peak = NoPeak /\ analysis = NoAnalysis
      /\ daily = NoDay
      /\ pref = [saved |-> NothingSaved, flash |-> NothingSaved,
                 restored |-> NothingSaved]
      /\ faults = 0 /\ reboots = 0
  BY DEF Init
<1>2. now \in 0 .. MaxNow /\ DayAt(0) \in 1 .. DayAt(MaxNow) /\ DayAt(0) \in Int
      /\ DayAt(MaxNow) \in Int
  <2>1. 0 \in 0 .. MaxNow
    BY Constants
  <2>2. DayAt(0) \in 1 .. DayAt(MaxNow)
    BY <2>1, DayRange
  <2>3. MaxNow \in Int /\ 0 \in Int /\ 0 <= 0 /\ MaxNow <= MaxNow
    BY Constants
  <2>4. DayAt(0) \in Int
    BY <2>3, DayOrder
  <2>5. DayAt(MaxNow) \in Int
    BY <2>3, DayOrder
  <2> QED BY <1>1, <2>1, <2>2, <2>4, <2>5
<1>3. NothingSaved \in Saved /\ NothingSaved.key = 0 /\ NothingSaved.maximum = {}
  BY <1>2 DEF NothingSaved, Saved
<1>4. pref \in Prefs /\ \A s \in {pref.saved, pref.flash, pref.restored} :
        s.key <= DayAt(now) /\ MaxOk(s.key, s.maximum)
  <2> DEFINE z == NothingSaved
  <2>1. pref = [saved |-> z, flash |-> z, restored |-> z]
    BY <1>1
  <2>2. z.key <= DayAt(now) /\ MaxOk(z.key, z.maximum) /\ z \in Saved
    BY <1>1, <1>2, <1>3 DEF MaxOk
  <2> HIDE DEF z
  <2> QED BY <2>1, <2>2 DEF Prefs
<1>5. FedInv(Consumers, now, clockValid)
  <2> DEFINE q == Consumers
             v == clockValid
  <2>1. q = [session |-> NoSession, shown |-> Unknown, demand |-> EmptyRing,
             daily |-> NoDay, peak |-> NoPeak, analysis |-> NoAnalysis,
             pref |-> pref]
    BY <1>1 DEF Consumers
  <2>2. v \in BOOLEAN
    BY <1>1
  <2> HIDE DEF q, v
  <2>3. FedInv(q, now, v)
    BY <1>2, <1>4, <2>1, <2>2, StartForm
  <2> QED BY <2>3 DEF q, v
<1>6. StreamInv(stream, now, Key) /\ JournalInv(journal, stream, now, Key, session)
  <2> DEFINE k == Key
             u == FirstStream
  <2>1. ~session.known
    BY <1>1 DEF NoSession
  <2> HIDE DEF k, u
  <2>2. StreamInv(FirstStream, now, k)
    BY <1>2, FirstForm
  <2>3. JournalInv(<<>>, u, now, k, session)
    BY <2>1, EmptyJournal
  <2> QED BY <1>1, <2>2, <2>3 DEF k, u
<1>7. LoopInv
  <2>1. Len(journal) = 0
    BY <1>1
  <2>2. loop \in [at : {"idle", "drain", "recover", "halt"}, left : 0 .. Len(journal)]
    BY <1>1, <2>1
  <2> QED BY <1>1, <2>2 DEF LoopInv
<1>8. faults \in 0 .. MaxFaults /\ reboots \in 0 .. MaxReboots /\ clockValid \in BOOLEAN
  <2>1. faults = 0 /\ reboots = 0
    BY <1>1
  <2>2. clockValid \in BOOLEAN
    BY <1>1
  <2> QED BY <2>1, <2>2, Constants
<1> QED BY <1>2, <1>5, <1>6, <1>7, <1>8 DEF IInv, Key

(* A step that changes nothing.                                             *)
LEMMA Stutter ==
  ASSUME IInv, UNCHANGED vars
  PROVE  IInv'
<1>1. UNCHANGED <<now, clockValid, stream, journal, loop, session, shown, demand,
                  daily, peak, analysis, pref, faults, reboots>>
  BY DEF vars
<1>2. /\ Key' = Key /\ SameLast(session', session)
  BY <1>1 DEF Key, SameLast
<1>3. Len(journal') \in Nat /\ Len(journal') >= Len(journal)
  BY <1>1, Facts
<1>4. LoopInv'
  BY <1>1, <1>3, LoopLater
<1> QED BY <1>1, <1>2, <1>4, SameTime, SameFed, SameStream, Assemble

(* Every step keeps the invariant.                                          *)
LEMMA Inductive == IInv /\ [Next]_vars => IInv'
<1> SUFFICES ASSUME IInv, [Next]_vars PROVE IInv'
  OBVIOUS
<1>1. CASE Tick
  BY <1>1, TickStep
<1>2. CASE BeginPass
  BY <1>2, BeginStep
<1>3. CASE DrainOne
  BY <1>3, DrainStep
<1>4. CASE Recover
  <2>1. loop.left = 0 /\ StopReceiver("recover")
        /\ "recover" \in {"drain", "recover", "halt"}
    BY <1>4 DEF Recover
  <2> QED BY <2>1, StopStep
<1>5. CASE Halt
  <2>1. loop.at = "idle" /\ StopReceiver("halt")
        /\ "halt" \in {"drain", "recover", "halt"}
    BY <1>5 DEF Halt
  <2>2. loop.left = 0
    BY <2>1, LoopTypes
  <2> QED BY <2>1, <2>2, StopStep
<1>6. CASE Halted
  BY <1>6, HaltedStep
<1>7. CASE EndPass
  BY <1>7, EndStep
<1>8. CASE PausedPass
  BY <1>8, PausedStep
<1>9. CASE Resume
  BY <1>9, ResumeStep
<1>10. CASE ClockSync
  BY <1>10, ClockStep
<1>11. CASE FlushPreferences
  BY <1>11, FlushStep
<1>12. CASE Reboot
  BY <1>12, RebootStep
<1>13. CASE UNCHANGED vars
  BY <1>13, Stutter
<1> QED BY <1>1, <1>2, <1>3, <1>4, <1>5, <1>6, <1>7, <1>8, <1>9, <1>10,
           <1>11, <1>12, <1>13 DEF Next

(* The invariant always holds, for every value of the constants: timeouts,  *)
(* window lengths, buckets, days, number of faults and reboots.             *)
THEOREM Invariance == Spec => []IInv
BY Initially, Inductive, PTL DEF Spec

-----------------------------------------------------------------------------
(* The theorems.                                                            *)

(* The invariant gives the types.                                           *)
LEMMA InvTypes == IInv => TypeOK
<1> SUFFICES ASSUME IInv PROVE TypeOK
  OBVIOUS
<1> DEFINE c == Consumers
<1>1. c \in Fed /\ StreamInv(stream, now, Key)
      /\ JournalInv(journal, stream, now, Key, session)
  BY Facts DEF Held, FedInv
<1>2. /\ c.session = session /\ c.shown = shown /\ c.demand = demand
      /\ c.daily = daily /\ c.peak = peak /\ c.analysis = analysis /\ c.pref = pref
  BY DEF Consumers
<1> HIDE DEF c
<1>3. /\ session \in Sessions /\ shown \in Ticks \cup {Unknown} /\ demand \in Rings
      /\ daily \in Days /\ peak \in Peaks /\ analysis \in Analyses
      /\ pref \in Prefs
  BY <1>1, <1>2 DEF Fed
<1>4. now \in 0 .. MaxNow /\ clockValid \in BOOLEAN /\ stream \in Streams
      /\ faults \in 0 .. MaxFaults /\ reboots \in 0 .. MaxReboots
  BY <1>1 DEF IInv, StreamInv
<1>5. journal \in Seq(Window) /\ Len(journal) <= Capacity
  BY <1>1 DEF JournalInv
<1>6. loop \in [at : {"idle", "drain", "recover", "halt"}, left : 0 .. Len(journal)]
  BY DEF IInv, LoopInv
<1>7. {demand.sum, demand.current, daily.maximum, peak.ticks, analysis.sum,
       analysis.pending} \subseteq SUBSET Ticks
  <2>1. /\ demand.sum \in SUBSET Ticks /\ demand.current \in SUBSET Ticks
        /\ daily.maximum \in SUBSET Ticks /\ peak.ticks \in SUBSET Ticks
        /\ analysis.sum \in SUBSET Ticks /\ analysis.pending \in SUBSET Ticks
    BY <1>3 DEF Rings, Days, Peaks, Analyses
  <2> QED BY <2>1
<1>8. {pref.saved, pref.flash, pref.restored} \subseteq Saved
  BY <1>3 DEF Prefs
<1>9. /\ demand.buckets \in [0 .. Buckets - 1 -> SUBSET Ticks]
      /\ demand.index \in 0 .. Buckets - 1 /\ demand.count \in 0 .. Buckets
      /\ daily.key \in 0 .. DayAt(MaxNow) /\ daily.start \in 0 .. Wrap - 1
      /\ peak.open \in BOOLEAN /\ peak.start \in 0 .. MaxNow
  BY <1>3 DEF Rings, Days, Peaks
<1> QED BY <1>3, <1>4, <1>5, <1>6, <1>7, <1>8, <1>9 DEF TypeOK, Sessions, Streams

(* Every variable keeps its type and every counter and the journal their    *)
(* bounds.                                                                  *)
THEOREM TypeCorrect == Spec => []TypeOK
BY Invariance, InvTypes, PTL

(* The invariant gives AveragesAreWhole.                                    *)
LEMMA InvAverages == IInv => AveragesAreWhole
<1> SUFFICES ASSUME IInv PROVE AveragesAreWhole
  OBVIOUS
<1> DEFINE t == session.last
<1>1. /\ RingAt(demand, t) /\ Run(peak.ticks, t) /\ Run(analysis.sum, t)
      /\ Contiguous(analysis.pending) /\ t \in Nat /\ demand.count \in Nat
  <2>1. FedInv(Consumers, now, clockValid)
    BY DEF IInv
  <2>2. /\ Consumers.session = session /\ Consumers.demand = demand
        /\ Consumers.peak = peak /\ Consumers.analysis = analysis
    BY DEF Consumers
  <2>3. session.last \in Nat
    BY Facts, SessionTypes
  <2>4. demand.count \in Nat
    <3>1. demand \in Rings
      BY <2>1, <2>2 DEF FedInv, Fed
    <3> QED BY <3>1, Constants DEF Rings
  <2> QED BY <2>1, <2>2, <2>3, <2>4 DEF FedInv
<1>2. Contiguous(peak.ticks) /\ Contiguous(analysis.sum)
  BY <1>1, RunContiguous
<1> HIDE DEF t
<1>3. PICK e \in 0 .. t : RingTo(demand, e, t)
  BY <1>1 DEF RingAt
<1> DEFINE a == e - demand.count * BucketTicks + 1
           x == demand.count * BucketTicks
<1>4. x \in Nat
  BY <1>1, Constants, Times
<1>5. /\ demand.current = e + 1 .. t /\ demand.sum = a .. e /\ x <= e /\ e <= t
      /\ a = e - x + 1
  BY <1>3 DEF RingTo
<1>6. demand.count = Buckets => x = Interval
  BY IntervalIs
<1> HIDE DEF a, x
<1>7. a \in Int /\ a <= e + 1 /\ e \in Int /\ t \in Int
  BY <1>1, <1>4, <1>5
<1>8. demand.sum \cup demand.current = a .. t
  BY <1>5, <1>7, Joined
<1>9. Contiguous(demand.sum \cup demand.current)
  BY <1>7, <1>8 DEF Contiguous
<1>10. ASSUME demand.count = Buckets PROVE Cardinality(demand.sum) = Interval
  <2>1. Cardinality(a .. e) = e - a + 1
    BY <1>7, IntervalSize
  <2>2. e - a + 1 = x
    BY <1>4, <1>5, <1>7
  <2> QED BY <1>5, <1>6, <1>10, <2>1, <2>2
<1> QED BY <1>1, <1>2, <1>9, <1>10 DEF AveragesAreWhole

(* No average spans anything that was lost, and a published demand is       *)
(* exactly the last Interval ticks: the bucket ring of metering.cpp with    *)
(* its running sum, through wraps, lost windows, timeouts and restarts.     *)
THEOREM AveragesWhole == Spec => []AveragesAreWhole
BY Invariance, InvAverages, PTL

(* The invariant gives MaximumIsOfItsDay.                                   *)
LEMMA InvMaximum == IInv => MaximumIsOfItsDay
<1> SUFFICES ASSUME IInv PROVE MaximumIsOfItsDay
  OBVIOUS
<1>1. DayInv(daily, pref, now, clockValid)
  BY DEF IInv, FedInv, Consumers
<1>2. /\ MaxOk(daily.key, daily.maximum)
      /\ MaxOk(pref.saved.key, pref.saved.maximum)
      /\ MaxOk(pref.flash.key, pref.flash.maximum)
  BY <1>1 DEF DayInv
<1> SUFFICES ASSUME NEW d \in {[key |-> daily.key, maximum |-> daily.maximum],
                               pref.saved, pref.flash}
             PROVE  d.maximum # {} =>
                      /\ Cardinality(d.maximum) = Interval
                      /\ \A t \in d.maximum : DayOfTick(t) = d.key
  BY DEF MaximumIsOfItsDay
<1>3. MaxOk(d.key, d.maximum)
  BY <1>2
<1> QED BY <1>3 DEF MaxOk

(* A daily maximum, the running one, the saved one and the one in flash, is *)
(* a demand that lies wholly inside the day its key names.                  *)
THEOREM MaximumOfDay == Spec => []MaximumIsOfItsDay
BY Invariance, InvMaximum, PTL

(* When a pass of the loop ends, no sensor shows a window older than the    *)
(* metering timeout.                                                        *)
THEOREM Freshness == Spec => ShownIsFresh
<1>1. IInv /\ [Next]_vars =>
        [EndPass \/ PausedPass => shown' = Unknown \/ now - shown' <= Timeout]_vars
  BY EndStep, PausedStep
<1> QED BY <1>1, Invariance, PTL DEF Spec, ShownIsFresh

(* A journal that holds the whole horizon and is full has an oldest window  *)
(* older than the timeout when the next one is refused.                     *)
LEMMA RefusedIsStale ==
  ASSUME Timeout \div MinWindow + 2 <= JournalLimit,
         IInv, Next, stream'.seq > stream.seq, journal' = journal
  PROVE  now' - Head(journal).end > Timeout
<1> DEFINE h == Timeout \div MinWindow
           l == Len(journal)
<1>1. /\ now \in 0 .. MaxNow /\ now \in Nat
      /\ session \in Sessions /\ Key \in Nat
      /\ StreamInv(stream, now, Key) /\ stream \in Streams
      /\ JournalInv(journal, stream, now, Key, session)
      /\ journal \in Seq(Window) /\ l \in Nat
  BY Facts
<1>2. stream.seq \in Nat
  BY <1>1, StreamFields
<1>3. Timeout = h * MinWindow + (Timeout % MinWindow) /\ h \in Int
      /\ Timeout % MinWindow \in 0 .. MinWindow - 1
  BY Constants, Divided
<1>4. h \in Nat
  <2>1. 0 <= Timeout /\ 0 \div MinWindow = 0 /\ 0 \in Int /\ Timeout \in Int
    BY Constants
  <2>2. 0 \div MinWindow <= h
    BY <2>1, Constants, Quotient
  <2> QED BY <1>3, <2>1, <2>2
<1>5. Capacity = h + 2
  <2>1. h + 2 <= JournalLimit
    OBVIOUS
  <2> HIDE DEF h
  <2> QED BY <1>4, <2>1, Constants DEF Capacity, h
<1>6. PICK ok \in BOOLEAN : CloseWindow(ok) /\ stream.running /\ now' = now + 1
                            /\ now + 1 <= MaxNow
  <2>1. stream' # FirstStream /\ stream' # stream
    BY <1>2 DEF FirstStream
  <2>2. stream'.seq # stream.seq
    BY <1>2
  <2>3. ~Reboot
    BY <2>1 DEF Reboot
  <2>4. ~SetupReceiver
    BY <1>1, <2>2, FreshForm DEF SetupReceiver, Fresh
  <2>5. \A at : ~StopReceiver(at)
    BY <1>1, <2>2 DEF StopReceiver, Streams
  <2>6. Tick
    BY <2>1, <2>3, <2>4, <2>5 DEF Next, BeginPass, DrainOne, Recover, Halt,
       Halted, EndPass, PausedPass, Resume, ClockSync, FlushPreferences
  <2>7. stream.running
    BY <2>1, <2>6 DEF Tick
  <2>8. ~LoseFrame /\ ~Accumulate /\ ~RejectWindow
    BY <1>1, <2>2 DEF LoseFrame, Accumulate, RejectWindow, Streams
  <2>9. ~WindowTimesOut
    BY <1>1, <2>2, FreshForm DEF WindowTimesOut, Fresh
  <2>10. ~Resync
    <3>1. CASE stream.lost
      BY <1>1, <2>2, <3>1, FreshForm DEF Resync, Fresh
    <3>2. CASE ~stream.lost
      BY <1>1, <2>2, <3>2 DEF Resync, Streams
    <3> QED BY <3>1, <3>2
  <2> QED BY <1>1, <2>6, <2>7, <2>8, <2>9, <2>10, Constants DEF Tick
<1>7. l >= h + 2
  <2> SUFFICES ASSUME l < h + 2 PROVE FALSE
    BY <1>1, <1>4
  <2> DEFINE w == NextWindow(ok)
  <2>1. journal' = Append(journal, w)
    BY <1>5, <1>6 DEF CloseWindow, NextWindow
  <2>2. w \in Window
    BY <1>1, <1>6, CloseStep DEF Entry
  <2> HIDE DEF w
  <2>3. Len(journal') = l + 1
    BY <1>1, <2>1, <2>2
  <2> QED BY <1>1, <2>3
<1>8. now + 1 - journal[1].end >= l * MinWindow
  <2>1. l > 0
    BY <1>4, <1>7
  <2> QED BY <1>1, <1>6, <2>1, Refused
<1>9. (h + 1) * MinWindow <= l * MinWindow
      /\ (h + 1) * MinWindow = h * MinWindow + MinWindow
  <2> DEFINE k == h + 1
  <2>1. k \in Nat /\ k <= l
    BY <1>1, <1>4, <1>7
  <2> HIDE DEF k, l
  <2>2. k * MinWindow <= l * MinWindow
    BY <1>1, <2>1, Constants, TimesOrder
  <2>3. (h + 1) * MinWindow = h * MinWindow + MinWindow
    BY <1>4, Constants, Times
  <2> QED BY <2>2, <2>3 DEF k
<1>10. journal[1].end \in Nat /\ Head(journal) = journal[1]
  <2>1. 1 \in 1 .. Len(journal)
    BY <1>1, <1>4, <1>7
  <2> QED BY <1>1, <2>1, EntryTypes
<1> DEFINE e == journal[1].end
           x == l * MinWindow
           y == (h + 1) * MinWindow
           z == h * MinWindow
           r == Timeout % MinWindow
<1>11. /\ now + 1 - e >= x /\ y <= x /\ y = z + MinWindow /\ Timeout = z + r
       /\ r \in 0 .. MinWindow - 1 /\ e \in Nat /\ Head(journal).end = e
  BY <1>3, <1>8, <1>9, <1>10
<1>12. x \in Nat /\ y \in Nat /\ z \in Nat
  BY <1>1, <1>4, Constants
<1> HIDE DEF e, x, y, z, r, h, l
<1>13. now + 1 - e > Timeout
  BY <1>1, <1>11, <1>12, Constants
<1> QED BY <1>1, <1>6, <1>11, <1>13

(* The journal refuses a window only when its oldest one is already older   *)
(* than the timeout, wherever the horizon of spi_transport.cpp:349-360 fits *)
(* into the limit on its entries.  Where it does not, the capacity is the   *)
(* limit and the statement is false.                                        *)
THEOREM DropsStale ==
  ASSUME Timeout \div MinWindow + 2 <= JournalLimit
  PROVE  Spec => DropsOnlyBehindStale
<1>1. IInv /\ [Next]_vars =>
        [stream'.seq > stream.seq /\ journal' = journal =>
           now' - Head(journal).end > Timeout]_vars
  BY RefusedIsStale
<1> QED BY <1>1, Invariance, PTL DEF Spec, DropsOnlyBehindStale

=============================================================================
