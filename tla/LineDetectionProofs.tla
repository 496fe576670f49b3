-------------------------- MODULE LineDetectionProofs --------------------------
(***************************************************************************)
(* What holds of the line detection for every load, every threshold and    *)
(* any number of frames, gaps, operations and reboots.  What a detector     *)
(* confirms rests on the windows of one transition: the invariant relates   *)
(* the detector's streak to the verdicts of its last windows.               *)
(***************************************************************************)
EXTENDS LineDetection, SequenceTheorems, FiniteSetTheorems, TLAPS

Point == [score : [Lines -> Int], current : Int]
MaybeLine == Lines \cup {NoLine}
Detector ==
  [age : Int, samples : Nat, sum : Point, armed : BOOLEAN, reference : Point,
   active : BOOLEAN, current : BOOLEAN, windows : Nat,
   candidate : MaybeLine, streak : Nat, confirmed : MaybeLine]
Seen == [line : MaybeLine, moved : BOOLEAN]
Texts == {"L1", "L2", "L3", "unknown", "unavailable", "waiting for change",
          "ambiguous", "weak"}
Assignment == [line : MaybeLine, auto : BOOLEAN, export : BOOLEAN]
Sums == [demand : SUBSET MaybeLine, analysis : SUBSET MaybeLine]
Circuits ==
  [det : [Detectors -> Detector], shown : Texts, assigned : Assignment,
   pref : -1 .. 4, averages : Sums, evidence : [Detectors -> Seq(Seen)]]

(* A detector in a transition and the verdicts of the windows of it.        *)
Streaked(d, e) ==
  IF d.active
  THEN /\ d.streak <= Len(e)
       /\ \A i \in Len(e) - d.streak + 1 .. Len(e) : e[i].line = d.candidate
       /\ d.current => \E i \in 1 .. Len(e) : e[i].moved
  ELSE d.streak = 0 /\ ~d.current

(* The verdicts that confirm a line.                                        *)
EarnedBy(e, line) ==
  /\ Len(e) >= StableWindows
  /\ \A i \in Len(e) - StableWindows + 1 .. Len(e) : e[i].line = line
  /\ \E i \in 1 .. Len(e) : e[i].moved

-----------------------------------------------------------------------------
(* Parts of a detector.                                                     *)

(* The lines and their texts.                                               *)
LEMMA LineFacts ==
  /\ Lines = {1, 2, 3} /\ MaybeLine = {0, 1, 2, 3} /\ NoLine = 0
  /\ \A l \in Lines : LineText[l] \in {"L1", "L2", "L3"}
BY DEF Lines, MaybeLine, NoLine, LineText

(* A detector that starts.                                                  *)
LEMMA FreshType ==
  Fresh \in Detector /\ ~Fresh.active /\ Fresh.streak = 0 /\ ~Fresh.current
  /\ Fresh.confirmed = NoLine
BY DEF Fresh, Detector, Point, NoPoint, NotStarted, MaybeLine, NoLine

(* The window that is open, changed.                                        *)
Windowed(d, a, p, n) == [d EXCEPT !.age = a, !.sum = p, !.samples = n]

(* ... leaves the transition as it is.                                      *)
LEMMA WindowForm ==
  ASSUME NEW d \in Detector, NEW a \in Int, NEW p \in Point, NEW n \in Nat,
         NEW q, q = Windowed(d, a, p, n)
  PROVE  /\ q \in Detector /\ q.samples = n
         /\ q.active = d.active /\ q.current = d.current
         /\ q.streak = d.streak /\ q.candidate = d.candidate
         /\ q.confirmed = d.confirmed
BY DEF Windowed, Detector

(* A frame only adds to the open window.                                    *)
LEMMA SampleForm ==
  ASSUME NEW d \in Detector, NEW p \in Loads, NEW q, q = Sample(d, p)
  PROVE  /\ q \in Detector /\ q.samples > 0
         /\ q.active = d.active /\ q.current = d.current
         /\ q.streak = d.streak /\ q.candidate = d.candidate
         /\ q.confirmed = d.confirmed
<1>1. AddPoint(d.sum, p) \in Point
  BY LineDetectionAssumption
  DEF LineDetectionAssumption, AddPoint, Point, Detector
<1> DEFINE a == IF d.age = NotStarted THEN 0 ELSE d.age + 1
           n == d.samples + 1
           s == AddPoint(d.sum, p)
<1>2. q = Windowed(d, a, s, n)
  BY DEF Sample, Windowed
<1>3. a \in Int /\ n \in Nat /\ n > 0
  BY DEF Detector
<1>4. s \in Point
  BY <1>1
<1> HIDE DEF a, n, s
<1>5. /\ q \in Detector /\ q.samples = n
      /\ q.active = d.active /\ q.current = d.current
      /\ q.streak = d.streak /\ q.candidate = d.candidate
      /\ q.confirmed = d.confirmed
  BY <1>2, <1>3, <1>4, WindowForm
<1> QED BY <1>3, <1>5

(* A window that has a frame has an average.                                *)
LEMMA AverageType ==
  ASSUME NEW d \in Detector, d.samples > 0
  PROVE  Average(d) \in Point
<1>1. /\ d.samples \in Nat \ {0} /\ d.sum.current \in Int
      /\ \A l \in Lines : d.sum.score[l] \in Int
  BY DEF Detector, Point
<1>2. /\ d.sum.current \div d.samples \in Int
      /\ \A l \in Lines : d.sum.score[l] \div d.samples \in Int
  BY <1>1
<1> QED BY <1>2 DEF Average, Point

(* The end of a transition keeps the confirmed line.                        *)
LEMMA ResetForm ==
  ASSUME NEW d \in Detector, NEW q, q = ResetTransition(d)
  PROVE  /\ q \in Detector /\ ~q.active /\ ~q.current /\ q.streak = 0
         /\ q.candidate = NoLine /\ q.confirmed = d.confirmed
BY DEF ResetTransition, ResetStability, Detector, MaybeLine, NoLine

(* A new reference changes nothing else.                                    *)
LEMMA RearmForm ==
  ASSUME NEW d \in Detector, NEW average \in Point, NEW q, q = Rearm(d, average)
  PROVE  /\ q \in Detector /\ q.confirmed = d.confirmed
         /\ q.active = d.active /\ q.current = d.current
         /\ q.streak = d.streak /\ q.candidate = d.candidate
BY DEF Rearm, Detector

(* Nor does the start of the next window.                                   *)
LEMMA NextForm ==
  ASSUME NEW d \in Detector, NEW q, q = NextWindow(d)
  PROVE  /\ q \in Detector /\ q.confirmed = d.confirmed
         /\ q.active = d.active /\ q.current = d.current
         /\ q.streak = d.streak /\ q.candidate = d.candidate
<1>1. NoPoint \in Point
  BY DEF NoPoint, Point
<1> DEFINE z == 0
           s == NoPoint
<1>2. z \in Int /\ z \in Nat /\ s \in Point
  BY <1>1
<1>3. q = Windowed(d, z, s, z)
  BY DEF NextWindow, Windowed
<1> HIDE DEF z, s
<1> QED BY <1>2, <1>3, WindowForm

(* The evidence is about the transition alone.                              *)
LEMMA StreakedAlike ==
  ASSUME NEW d, NEW q, NEW e, Streaked(d, e),
         q.active = d.active, q.current = d.current, q.streak = d.streak,
         q.candidate = d.candidate
  PROVE  Streaked(q, e)
BY DEF Streaked

(* The best of three scores exists.                                         *)
LEMMA VerdictRange ==
  ASSUME NEW d \in Detector, NEW score \in [Lines -> Int]
  PROVE  /\ Verdict(d, score) \in MaybeLine
         /\ Verdict(d, score) # NoLine => d.current
<1> DEFINE Best(l) == \A k \in Lines :
             score[l] > score[k] \/ (score[l] = score[k] /\ l <= k)
<1>1. \E l \in Lines : Best(l)
  <2>1. score[1] \in Int /\ score[2] \in Int /\ score[3] \in Int
    BY LineFacts
  <2>2. CASE score[1] >= score[2] /\ score[1] >= score[3]
    <3>1. Best(1)
      BY <2>1, <2>2, LineFacts
    <3> QED BY <3>1, LineFacts
  <2>3. CASE score[2] > score[1] /\ score[2] >= score[3]
    <3>1. Best(2)
      BY <2>1, <2>3, LineFacts
    <3> QED BY <3>1, LineFacts
  <2>4. CASE score[3] > score[1] /\ score[3] > score[2]
    <3>1. Best(3)
      BY <2>1, <2>4, LineFacts
    <3> QED BY <3>1, LineFacts
  <2> QED BY <2>1, <2>2, <2>3, <2>4
<1>2. (CHOOSE l \in Lines : Best(l)) \in Lines
  BY <1>1
<1> QED BY <1>2 DEF Verdict, MaybeLine

(* The directed changes are integers.                                       *)
LEMMA DirectedType ==
  ASSUME NEW d \in Detector, NEW average \in Point, NEW export
  PROVE  Directed(d, average, export) \in [Lines -> Int]
<1>1. Delta(d, average) \in [Lines -> Int]
  BY DEF Delta, Detector, Point
<1> QED BY <1>1 DEF Directed

-----------------------------------------------------------------------------
(* The end of a window.                                                     *)

(* The state t of a transition while the verdict of a window is still to    *)
(* come, f the evidence so far and m whether the current moves in it.       *)
Pending(t, f, m) ==
  /\ t \in Detector /\ t.active /\ f \in Seq(Seen) /\ m \in BOOLEAN
  /\ t.streak <= Len(f)
  /\ \A i \in Len(f) - t.streak + 1 .. Len(f) : f[i].line = t.candidate
  /\ t.current => m \/ \E i \in 1 .. Len(f) : f[i].moved

(* ... and once it has come.                                                *)
Noted(f, v, m) == Append(f, [line |-> v, moved |-> m])

Settled(u, g, v) ==
  /\ u \in Detector /\ u.active /\ g \in Seq(Seen) /\ Streaked(u, g)
  /\ u.streak >= StableWindows => v # NoLine /\ EarnedBy(g, v)

(* A window that counts leaves the transition pending.                      *)
LEMMA CountedForm ==
  ASSUME NEW d \in Detector, NEW average, NEW t, t = Counted(d, average),
         NEW e \in Seq(Seen), Streaked(d, e),
         NEW f, f = IF d.active THEN e ELSE <<>>,
         NEW m, m = CurrentMoved(d, average)
  PROVE  Pending(t, f, m) /\ t.confirmed = d.confirmed
<1>1. m \in BOOLEAN
  BY DEF CurrentMoved
<1> DEFINE s == StartTransition(d)
<1>2. /\ s \in Detector /\ s.active /\ s.confirmed = d.confirmed
      /\ d.active => s = d
      /\ ~d.active => s.streak = 0 /\ ~s.current
  <2>1. CASE d.active
    BY <2>1 DEF StartTransition
  <2>2. CASE ~d.active
    <3> DEFINE r == ResetTransition(d)
    <3>1. /\ r \in Detector /\ ~r.current /\ r.streak = 0
          /\ r.confirmed = d.confirmed
      BY ResetForm
    <3>2. s = [r EXCEPT !.active = TRUE]
      BY <2>2 DEF StartTransition
    <3> HIDE DEF r, s
    <3> QED BY <2>2, <3>1, <3>2 DEF Detector
  <2> QED BY <2>1, <2>2
<1> HIDE DEF s
<1>3. /\ t \in Detector /\ t.active /\ t.confirmed = s.confirmed
      /\ t.streak = s.streak /\ t.candidate = s.candidate
      /\ t.current = (s.current \/ m)
  <2> DEFINE n == [s EXCEPT !.windows = @ + 1]
  <2>1. /\ n \in Detector /\ n.active /\ n.confirmed = s.confirmed
        /\ n.streak = s.streak /\ n.candidate = s.candidate
        /\ n.current = s.current
    BY <1>2 DEF Detector
  <2>2. t = [n EXCEPT !.current = n.current \/ m]
    BY DEF Counted, s
  <2> HIDE DEF n
  <2>3. (n.current \/ m) \in BOOLEAN
    OBVIOUS
  <2> QED BY <2>1, <2>2, <2>3 DEF Detector
<1>4. CASE d.active
  BY <1>1, <1>2, <1>3, <1>4 DEF Streaked, Pending
<1>5. CASE ~d.active
  BY <1>1, <1>2, <1>3, <1>5 DEF Pending
<1> QED BY <1>4, <1>5

(* The verdict of the window extends the streak or breaks it.               *)
LEMMA ExtendedForm ==
  ASSUME NEW t, NEW f, NEW m, Pending(t, f, m),
         NEW v \in MaybeLine, v # NoLine => t.current,
         NEW u, u = Extended(t, v), NEW g, g = Noted(f, v, m)
  PROVE  Settled(u, g, v) /\ u.confirmed = t.confirmed
<1> USE DEF Settled
<1>0. /\ t \in Detector /\ t.active /\ f \in Seq(Seen) /\ m \in BOOLEAN
      /\ t.streak <= Len(f)
      /\ \A i \in Len(f) - t.streak + 1 .. Len(f) : f[i].line = t.candidate
      /\ t.current => m \/ \E i \in 1 .. Len(f) : f[i].moved
  BY DEF Pending
<1>1. /\ g \in Seq(Seen) /\ Len(g) = Len(f) + 1 /\ Len(f) \in Nat
      /\ g[Len(f) + 1] = [line |-> v, moved |-> m]
      /\ \A i \in 1 .. Len(f) : g[i] = f[i]
  BY <1>0 DEF Seen, Noted
<1>2. /\ g[Len(f) + 1].line = v /\ g[Len(f) + 1].moved = m
  BY <1>1
<1>3. t.current => \E i \in 1 .. Len(g) : g[i].moved
  <2>1. CASE m
    <3>1. Len(f) + 1 \in 1 .. Len(g)
      BY <1>1
    <3>2. g[Len(f) + 1].moved
      BY <1>2, <2>1, Zenon
    <3> QED BY <3>1, <3>2, Zenon
  <2>2. CASE \E i \in 1 .. Len(f) : f[i].moved
    BY <1>0, <1>1, <2>2
  <2> QED BY <1>0, <2>1, <2>2
<1> HIDE DEF StableWindows
<1>4. CASE v = NoLine
  <2>1. /\ u \in Detector /\ u.active /\ u.confirmed = t.confirmed
        /\ u.streak = 0 /\ u.current = t.current
    BY <1>0, <1>4 DEF Extended, ResetStability, Detector, MaybeLine, NoLine
  <2> QED BY <1>1, <1>3, <2>1 DEF Streaked, StableWindows
<1>5. CASE v # NoLine /\ t.candidate = v
  <2>1. /\ u \in Detector /\ u.active /\ u.confirmed = t.confirmed
        /\ u.streak = t.streak + 1 /\ u.current = t.current /\ u.candidate = v
    BY <1>0, <1>5 DEF Extended, UpdateCandidate, Detector
  <2>2. u.streak <= Len(g) /\ t.streak \in Nat
    BY <1>0, <1>1, <2>1 DEF Detector
  <2>3. \A i \in Len(g) - u.streak + 1 .. Len(g) : g[i].line = v
    <3>1. \A i \in Len(g) - u.streak + 1 .. Len(g) :
             i = Len(f) + 1 \/ (i \in 1 .. Len(f)
                                /\ i \in Len(f) - t.streak + 1 .. Len(f))
      BY <1>0, <1>1, <2>1, <2>2
    <3> QED BY <1>0, <1>1, <1>2, <1>5, <3>1
  <2>4. Streaked(u, g)
    BY <1>3, <2>1, <2>2, <2>3 DEF Streaked
  <2>5. u.streak >= StableWindows => EarnedBy(g, v)
    <3>1. u.current
      BY <1>5, <2>1
    <3>2. u.streak >= 3 => /\ Len(g) >= 3
                           /\ \A i \in Len(g) - 3 + 1 .. Len(g) : g[i].line = v
      BY <1>0, <1>1, <2>1, <2>2, <2>3
    <3>3. \E i \in 1 .. Len(g) : g[i].moved
      BY <1>3, <2>1, <3>1, Zenon
    <3> QED BY <3>2, <3>3, Zenon DEF EarnedBy, StableWindows
  <2> QED BY <1>1, <1>5, <2>1, <2>4, <2>5
<1>6. CASE v # NoLine /\ t.candidate # v
  <2>1. /\ u \in Detector /\ u.active /\ u.confirmed = t.confirmed
        /\ u.streak = 1 /\ u.current = t.current /\ u.candidate = v
    BY <1>0, <1>6 DEF Extended, UpdateCandidate, Detector
  <2>2. \A i \in Len(g) - 1 + 1 .. Len(g) : i = Len(f) + 1
    BY <1>1
  <2> QED BY <1>1, <1>2, <1>3, <2>1, <2>2 DEF Streaked, StableWindows
<1> QED BY <1>4, <1>5, <1>6

(* What the end of a window says.                                           *)
Results == [state : Detector, text : Texts \cup {Nothing}, line : MaybeLine,
            seen : SUBSET Seen]

(* ... of a detector d, when g is the evidence it leaves.                   *)
Sound(d, w, g) ==
  /\ w \in Results /\ g \in Seq(Seen) /\ Streaked(w.state, g)
  /\ w.line = NoLine => w.state.confirmed = d.confirmed
  /\ w.line # NoLine => /\ w.state.confirmed = w.line /\ EarnedBy(g, w.line)
                        /\ w.text = LineText[w.line]

(* Whatever is concluded of a settled window is sound.                      *)
LEMMA ConcludedForm ==
  ASSUME NEW u, NEW g, NEW v \in MaybeLine, NEW m \in BOOLEAN, Settled(u, g, v),
         NEW average \in Point, NEW w, w = Concluded(u, v, average, m)
  PROVE  Sound(u, w, g) /\ w.seen = {[line |-> v, moved |-> m]}
<1> DEFINE stable == u.streak >= StableWindows
           ended == stable \/ u.windows >= TransitionWindows
           kept == IF stable THEN [u EXCEPT !.confirmed = v] ELSE u
           last == ResetTransition(Rearm(kept, average))
           state == IF ended THEN last ELSE u
           text == CASE stable -> LineText[v]
                     [] ended /\ ~stable -> "ambiguous"
                     [] ~ended /\ u.streak >= 2 -> "weak"
                     [] OTHER -> Nothing
           line == IF stable THEN v ELSE NoLine
<1>0. /\ u \in Detector /\ g \in Seq(Seen) /\ Streaked(u, g)
      /\ stable => v # NoLine /\ EarnedBy(g, v)
  BY DEF Settled
<1>1. w = [state |-> state, text |-> text, line |-> line,
           seen |-> {[line |-> v, moved |-> m]}]
  BY DEF Concluded
<1>2. kept \in Detector /\ kept.confirmed = (IF stable THEN v ELSE u.confirmed)
  BY <1>0 DEF Detector
<1> HIDE DEF kept
<1>3. /\ last \in Detector /\ ~last.active /\ ~last.current /\ last.streak = 0
      /\ last.confirmed = kept.confirmed
  BY <1>2, RearmForm, ResetForm
<1>4. Streaked(last, g)
  BY <1>3 DEF Streaked
<1>5. /\ text \in Texts \cup {Nothing} /\ line \in MaybeLine
      /\ stable => text = LineText[v] /\ v \in Lines
  BY <1>0, LineFacts DEF Texts, MaybeLine, Nothing
<1> HIDE DEF last, text
<1>6. /\ state \in Detector /\ Streaked(state, g)
      /\ state.confirmed = (IF stable THEN v ELSE u.confirmed)
  BY <1>0, <1>2, <1>3, <1>4
<1>7. {[line |-> v, moved |-> m]} \subseteq Seen
  BY DEF Seen
<1> HIDE DEF state
<1>8. /\ w \in Results /\ w.state = state /\ w.text = text /\ w.line = line
      /\ w.seen = {[line |-> v, moved |-> m]}
  BY <1>1, <1>5, <1>6, <1>7 DEF Results
<1> QED BY <1>0, <1>5, <1>6, <1>8 DEF Sound

(* A window adds one verdict ...                                            *)
LEMMA OnlyOne ==
  ASSUME NEW x PROVE SetToSeq({x}) = <<x>>
<1> DEFINE f == SetToSeq({x})
<1>1. Cardinality({x}) = 1
  BY FS_Singleton
<1>2. f = CHOOSE g \in [1 .. Cardinality({x}) -> {x}] : IsInjective(g)
  BY DEF SetToSeq
<1>3. \E g \in [1 .. Cardinality({x}) -> {x}] : IsInjective(g)
  <2>1. [i \in 1 .. 1 |-> x] \in [1 .. Cardinality({x}) -> {x}]
    BY <1>1
  <2>2. IsInjective([i \in 1 .. 1 |-> x])
    BY DEF IsInjective
  <2> QED BY <2>1, <2>2
<1> HIDE DEF f
<1>4. f \in [1 .. 1 -> {x}]
  BY <1>1, <1>2, <1>3
<1> QED BY <1>4 DEF f

(* ... or none.                                                             *)
LEMMA NoneAtAll == SetToSeq({}) = <<>>
<1> DEFINE f == SetToSeq({})
<1>1. Cardinality({}) = 0
  BY FS_EmptySet
<1>2. f = CHOOSE g \in [1 .. Cardinality({}) -> {}] : IsInjective(g)
  BY DEF SetToSeq
<1>3. \E g \in [1 .. Cardinality({}) -> {}] : IsInjective(g)
  <2>1. <<>> \in [1 .. Cardinality({}) -> {}] /\ IsInjective(<<>>)
    BY <1>1 DEF IsInjective
  <2> QED BY <2>1
<1> HIDE DEF f
<1>4. f \in [1 .. 0 -> {}]
  BY <1>1, <1>2, <1>3
<1> QED BY <1>4 DEF f

(* The evidence after a window: it starts anew unless a transition goes on. *)
Continued(d, e, w) ==
  (IF d.active /\ w.seen # {} THEN e ELSE <<>>) \o SetToSeq(w.seen)

(* The end of any window is sound for the evidence it leaves.               *)
LEMMA CloseForm ==
  ASSUME NEW d \in Detector, d.samples > 0, NEW e \in Seq(Seen),
         Streaked(d, e), NEW export, NEW w, w = CloseWindow(d, export)
  PROVE  Sound(d, w, Continued(d, e, w))
<1> DEFINE average == Average(d)
           change == MaxDelta(Delta(d, average))
           judged == Judge(d, average, export)
           reset == ResetTransition(Rearm(d, average))
           result ==
             IF ~d.armed
             THEN NoVerdict(reset, "waiting for change")
             ELSE IF ~d.active /\ change < PowerMin
             THEN NoVerdict(Rearm(d, average), Nothing)
             ELSE IF d.active /\ 4 * change < 3 * PowerMin
             THEN NoVerdict(reset, Nothing)
             ELSE judged
<1>1. w = [result EXCEPT !.state = NextWindow(@)]
  BY DEF CloseWindow
<1>2. average \in Point
  BY AverageType
<1>3. ASSUME NEW q \in Detector, ~q.active, ~q.current, q.streak = 0,
             q.confirmed = d.confirmed,
             NEW text \in Texts \cup {Nothing}, result = NoVerdict(q, text)
      PROVE  Sound(d, result, Continued(d, e, result))
  <2>1. /\ result \in Results /\ result.state = q /\ result.line = NoLine
        /\ result.seen = {}
    <3> HIDE DEF result
    <3> QED BY <1>3 DEF NoVerdict, Results, MaybeLine
  <2>2. Continued(d, e, result) = <<>>
    <3>1. <<>> \o <<>> = <<>>
      OBVIOUS
    <3> HIDE DEF result
    <3> QED BY <2>1, <3>1, NoneAtAll DEF Continued
  <2>3. Streaked(q, <<>>)
    BY <1>3 DEF Streaked
  <2> HIDE DEF result
  <2> QED BY <1>3, <2>1, <2>2, <2>3 DEF Sound
<1>4. ASSUME result = judged
      PROVE  Sound(d, result, Continued(d, e, result))
  <2> DEFINE t == Counted(d, average)
             m == CurrentMoved(d, average)
             f == IF d.active THEN e ELSE <<>>
             v == Verdict(t, Directed(d, average, export))
             u == Extended(t, v)
             g == Noted(f, v, m)
  <2>1. judged = Concluded(u, v, average, m)
    BY DEF Judge
  <2>2. /\ t = Counted(d, average) /\ m = CurrentMoved(d, average)
        /\ f = IF d.active THEN e ELSE <<>>
    OBVIOUS
  <2>3. v = Verdict(t, Directed(d, average, export)) /\ u = Extended(t, v)
        /\ g = Noted(f, v, m)
    OBVIOUS
  <2> HIDE DEF t, m, f, v, u, g, average, result, judged
  <2>4. Pending(t, f, m) /\ t.confirmed = d.confirmed
    BY <2>2, CountedForm
  <2>5. /\ v \in MaybeLine /\ (v # NoLine => t.current)
        /\ t \in Detector /\ f \in Seq(Seen) /\ m \in BOOLEAN
    BY <1>2, <2>3, <2>4, DirectedType, VerdictRange DEF Pending
  <2>6. Settled(u, g, v) /\ u.confirmed = t.confirmed
    BY <2>3, <2>4, <2>5, ExtendedForm
  <2>7. Sound(u, result, g) /\ result.seen = {[line |-> v, moved |-> m]}
    BY <1>2, <1>4, <2>1, <2>4, <2>5, <2>6, ConcludedForm
  <2>8. Continued(d, e, result) = g
    <3>1. SetToSeq(result.seen) = <<[line |-> v, moved |-> m]>>
          /\ result.seen # {}
      BY <2>7, OnlyOne
    <3>2. f \o <<[line |-> v, moved |-> m]>>
            = Append(f, [line |-> v, moved |-> m])
      BY <2>5
    <3> QED BY <2>2, <2>3, <3>1, <3>2 DEF Continued, Noted
  <2> QED BY <2>4, <2>6, <2>7, <2>8 DEF Sound
<1>5. Sound(d, result, Continued(d, e, result))
  <2> DEFINE r == Rearm(d, average)
  <2>1. /\ r \in Detector /\ r.confirmed = d.confirmed
        /\ r.active = d.active /\ r.current = d.current /\ r.streak = d.streak
    BY <1>2, RearmForm
  <2>2. /\ reset \in Detector /\ ~reset.active /\ ~reset.current
        /\ reset.streak = 0 /\ reset.confirmed = d.confirmed
    BY <2>1, ResetForm
  <2>3. CASE result = NoVerdict(reset, "waiting for change")
             \/ result = NoVerdict(reset, Nothing)
    <3> HIDE DEF reset, result
    <3> QED BY <1>3, <2>2, <2>3 DEF Texts, Nothing
  <2>4. CASE ~d.active /\ result = NoVerdict(r, Nothing)
    <3>1. r.streak = 0 /\ ~r.current /\ ~r.active
      BY <2>1, <2>4 DEF Streaked
    <3> HIDE DEF r, result
    <3> QED BY <1>3, <2>1, <2>4, <3>1 DEF Texts, Nothing
  <2>5. \/ result = NoVerdict(reset, "waiting for change")
        \/ result = NoVerdict(reset, Nothing)
        \/ ~d.active /\ result = NoVerdict(r, Nothing)
        \/ result = judged
    <3> HIDE DEF reset, judged, change
    <3> QED OBVIOUS
  <2> HIDE DEF result, judged, reset, r
  <2> QED BY <1>4, <2>3, <2>4, <2>5
<1> HIDE DEF result
<1>6. result \in Results /\ result.state \in Detector
  BY <1>5 DEF Sound, Results
<1> DEFINE n == NextWindow(result.state)
<1>7. /\ n \in Detector /\ n.confirmed = result.state.confirmed
      /\ n.active = result.state.active /\ n.current = result.state.current
      /\ n.streak = result.state.streak
      /\ n.candidate = result.state.candidate
  BY <1>6, NextForm
<1>8. w = [result EXCEPT !.state = n]
  BY <1>1
<1> HIDE DEF n
<1>9. /\ w \in Results /\ w.state = n /\ w.text = result.text
      /\ w.line = result.line /\ w.seen = result.seen
  BY <1>6, <1>7, <1>8 DEF Results
<1>10. Continued(d, e, w) = Continued(d, e, result)
  BY <1>9 DEF Continued
<1>11. Streaked(n, Continued(d, e, w))
  BY <1>5, <1>7, <1>10, StreakedAlike DEF Sound
<1> QED BY <1>5, <1>7, <1>9, <1>10, <1>11 DEF Sound
-----------------------------------------------------------------------------
(* The circuit.                                                             *)

(* The detectors and the evidence agree, a confirmed line is the one on the *)
(* sensor, and the open averages are of the assigned line.                  *)
DetectionInv(c) ==
  /\ c \in Circuits
  /\ \A x \in Detectors : Streaked(c.det[x], c.evidence[x])
  /\ c.det["diag"].confirmed # NoLine
       => c.shown = LineText[c.det["diag"].confirmed]
  /\ c.averages.demand \cup c.averages.analysis \subseteq {c.assigned.line}

(* The flash holds the assignment, unless it is still the configured one.   *)
StoredInv(c) ==
  Stored(c.assigned) = IF c.pref = NotSaved THEN InitialLine ELSE c.pref

LineInv ==
  /\ DetectionInv(Circuit) /\ StoredInv(Circuit)
  /\ stale \in BOOLEAN
  /\ stale => \A x \in Detectors : det[x] = Fresh

(* A detector that starts needs no evidence.                                *)
LEMMA FreshStreaked ==
  ASSUME NEW e PROVE Streaked(Fresh, e)
BY FreshType DEF Streaked

(* A line selected: what it changes of a circuit.                           *)
LEMMA SelectForm ==
  ASSUME NEW c \in Circuits, NEW line \in Lines, NEW save \in BOOLEAN,
         NEW q, q = SelectLine(c, line, save)
  PROVE  /\ q \in Circuits
         /\ q.assigned.line = line /\ ~q.assigned.auto
         /\ q.pref = IF save THEN line ELSE c.pref
         /\ q.shown = c.shown /\ q.evidence = c.evidence
         /\ q.det["diag"] = c.det["diag"] /\ q.det["auto"] = Fresh
         /\ q.averages.demand = {}
         /\ q.averages.analysis
              = IF c.assigned.line = line THEN c.averages.analysis ELSE {}
<1> DEFINE a == [c.assigned EXCEPT !.line = line, !.auto = FALSE]
           d == [c.det EXCEPT !["auto"] = Fresh]
           s == [demand |-> {}, analysis |-> IF c.assigned.line = line
                                             THEN c.averages.analysis ELSE {}]
           f == IF save THEN line ELSE c.pref
<1>1. /\ c.assigned \in Assignment /\ c.det \in [Detectors -> Detector]
      /\ c.averages \in Sums /\ c.pref \in -1 .. 4
  BY DEF Circuits
<1>2. a \in Assignment /\ a.line = line /\ ~a.auto
  BY <1>1 DEF Assignment, MaybeLine
<1>3. /\ d \in [Detectors -> Detector]
      /\ d["diag"] = c.det["diag"] /\ d["auto"] = Fresh
  BY <1>1, FreshType DEF Detectors
<1>4. s \in Sums /\ f \in -1 .. 4
  BY <1>1 DEF Sums, Lines
<1>5. q = [c EXCEPT !.assigned = a, !.det = d, !.averages = s, !.pref = f]
  BY DEF SelectLine, Circuits, Assignment
<1> HIDE DEF a, d, s, f
<1>6. /\ q \in Circuits /\ q.assigned = a /\ q.pref = f /\ q.shown = c.shown
      /\ q.evidence = c.evidence /\ q.det = d /\ q.averages = s
  BY <1>2, <1>3, <1>4, <1>5 DEF Circuits
<1> QED BY <1>2, <1>3, <1>6 DEF s, f

(* It keeps the invariant, and when saved it is what is stored.             *)
LEMMA SelectKeeps ==
  ASSUME NEW c, DetectionInv(c), NEW line \in Lines, NEW save \in BOOLEAN,
         NEW q, q = SelectLine(c, line, save)
  PROVE  DetectionInv(q) /\ (save => StoredInv(q))
<1>1. c \in Circuits
  BY DEF DetectionInv
<1>2. /\ q \in Circuits
      /\ q.assigned.line = line /\ ~q.assigned.auto
      /\ q.pref = IF save THEN line ELSE c.pref
      /\ q.shown = c.shown /\ q.evidence = c.evidence
      /\ q.det["diag"] = c.det["diag"] /\ q.det["auto"] = Fresh
      /\ q.averages.demand = {}
      /\ q.averages.analysis
           = IF c.assigned.line = line THEN c.averages.analysis ELSE {}
  BY <1>1, SelectForm
<1>3. \A x \in Detectors : Streaked(q.det[x], q.evidence[x])
  BY <1>2, FreshStreaked DEF DetectionInv, Detectors
<1>4. DetectionInv(q)
  BY <1>2, <1>3 DEF DetectionInv
<1>5. save => StoredInv(q)
  BY <1>2 DEF StoredInv, Stored, NotSaved, Lines
<1> QED BY <1>4, <1>5

(* The same for the start of an automatic assignment.                       *)
LEMMA AutoForm ==
  ASSUME NEW c \in Circuits, NEW export \in BOOLEAN, NEW save \in BOOLEAN,
         NEW q, q = StartAuto(c, export, save)
  PROVE  /\ q \in Circuits
         /\ q.assigned = [line |-> NoLine, auto |-> TRUE, export |-> export]
         /\ q.pref = IF ~save THEN c.pref
                     ELSE IF export THEN AutoExport ELSE AutoImport
         /\ q.shown = c.shown
         /\ q.evidence["diag"] = c.evidence["diag"]
         /\ q.det["diag"] = c.det["diag"] /\ q.det["auto"] = Fresh
         /\ q.averages = NoAverages
<1> DEFINE a == [line |-> NoLine, auto |-> TRUE, export |-> export]
           d == [c.det EXCEPT !["auto"] = Fresh]
           e == [c.evidence EXCEPT !["auto"] = <<>>]
           f == IF ~save THEN c.pref
                ELSE IF export THEN AutoExport ELSE AutoImport
<1>1. /\ c.det \in [Detectors -> Detector]
      /\ c.evidence \in [Detectors -> Seq(Seen)] /\ c.pref \in -1 .. 4
  BY DEF Circuits
<1>2. a \in Assignment
  BY DEF Assignment, MaybeLine
<1>3. /\ d \in [Detectors -> Detector]
      /\ d["diag"] = c.det["diag"] /\ d["auto"] = Fresh
      /\ e \in [Detectors -> Seq(Seen)] /\ e["diag"] = c.evidence["diag"]
  BY <1>1, FreshType DEF Detectors
<1>4. NoAverages \in Sums /\ f \in -1 .. 4
  BY <1>1 DEF Sums, NoAverages, AutoExport, AutoImport
<1>5. q = [c EXCEPT !.assigned = a, !.det = d, !.evidence = e,
                    !.averages = NoAverages, !.pref = f]
  BY DEF StartAuto, Circuits
<1> HIDE DEF a, d, e, f
<1>6. /\ q \in Circuits /\ q.assigned = a /\ q.pref = f /\ q.shown = c.shown
      /\ q.evidence = e /\ q.det = d /\ q.averages = NoAverages
  BY <1>2, <1>3, <1>4, <1>5 DEF Circuits
<1> QED BY <1>3, <1>6 DEF a, f

(* It keeps the invariant, too.                                             *)
LEMMA AutoKeeps ==
  ASSUME NEW c, DetectionInv(c), NEW export \in BOOLEAN, NEW save \in BOOLEAN,
         NEW q, q = StartAuto(c, export, save)
  PROVE  DetectionInv(q) /\ (save => StoredInv(q))
<1>1. c \in Circuits
  BY DEF DetectionInv
<1>2. /\ q \in Circuits
      /\ q.assigned = [line |-> NoLine, auto |-> TRUE, export |-> export]
      /\ q.pref = IF ~save THEN c.pref
                  ELSE IF export THEN AutoExport ELSE AutoImport
      /\ q.shown = c.shown
      /\ q.evidence["diag"] = c.evidence["diag"]
      /\ q.det["diag"] = c.det["diag"] /\ q.det["auto"] = Fresh
      /\ q.averages = NoAverages
  BY <1>1, AutoForm
<1>3. \A x \in Detectors : Streaked(q.det[x], q.evidence[x])
  BY <1>2, FreshStreaked DEF DetectionInv, Detectors
<1>4. DetectionInv(q)
  BY <1>2, <1>3 DEF DetectionInv, NoAverages
<1>5. save => StoredInv(q)
  BY <1>2 DEF StoredInv, Stored, NotSaved, AutoExport, AutoImport
<1> QED BY <1>4, <1>5

(* A gap or a timeout.                                                      *)
LEMMA InvalidKeeps ==
  ASSUME NEW c, DetectionInv(c), stale \in BOOLEAN,
         stale => \A x \in Detectors : c.det[x] = Fresh,
         NEW q, q = Invalidated(c)
  PROVE  /\ DetectionInv(q) /\ q.assigned = c.assigned /\ q.pref = c.pref
         /\ \A x \in Detectors : q.det[x] = Fresh
<1> DEFINE d == IF stale THEN c.det ELSE [x \in Detectors |-> Fresh]
           s == IF stale THEN c.shown ELSE "unavailable"
<1>1. c \in Circuits
  BY DEF DetectionInv
<1>2. d \in [Detectors -> Detector] /\ \A x \in Detectors : d[x] = Fresh
  BY <1>1, FreshType DEF Circuits
<1>3. s \in Texts
  BY <1>1 DEF Circuits, Texts
<1>4. NoAverages \in Sums /\ NoEvidence \in [Detectors -> Seq(Seen)]
  BY DEF NoAverages, Sums, NoEvidence
<1>5. q = [c EXCEPT !.averages = NoAverages, !.evidence = NoEvidence,
                    !.det = d, !.shown = s]
  BY <1>1 DEF Invalidated, Circuits
<1> HIDE DEF d, s
<1>6. /\ q \in Circuits /\ q.det = d /\ q.shown = s /\ q.evidence = NoEvidence
      /\ q.averages = NoAverages /\ q.assigned = c.assigned /\ q.pref = c.pref
  BY <1>1, <1>2, <1>3, <1>4, <1>5 DEF Circuits
<1>7. \A x \in Detectors : Streaked(q.det[x], q.evidence[x])
  BY <1>2, <1>6, FreshStreaked
<1>8. q.det["diag"].confirmed = NoLine
  BY <1>2, <1>6, FreshType DEF Detectors
<1> QED BY <1>2, <1>6, <1>7, <1>8 DEF DetectionInv, NoAverages

(* The power of the assigned line, or none.                                 *)
LEMMA MeasureKeeps ==
  ASSUME NEW c, DetectionInv(c), NEW q, q = Measure(c)
  PROVE  /\ DetectionInv(q) /\ q.assigned = c.assigned /\ q.pref = c.pref
         /\ q.det = c.det /\ q.evidence = c.evidence
<1> DEFINE s == IF c.assigned.line = NoLine THEN NoAverages
                ELSE [k \in DOMAIN c.averages |->
                        c.averages[k] \union {c.assigned.line}]
<1>1. c \in Circuits /\ c.averages \in Sums /\ c.assigned.line \in MaybeLine
  BY DEF DetectionInv, Circuits, Assignment
<1>2. s \in Sums /\ s.demand \cup s.analysis \subseteq {c.assigned.line}
  <2>1. CASE c.assigned.line = NoLine
    BY <2>1 DEF NoAverages, Sums
  <2>2. CASE c.assigned.line # NoLine
    <3>1. s = [demand |-> c.averages.demand \union {c.assigned.line},
               analysis |-> c.averages.analysis \union {c.assigned.line}]
      BY <1>1, <2>2 DEF Sums
    <3> HIDE DEF s
    <3> QED BY <1>1, <3>1 DEF Sums, DetectionInv
  <2> QED BY <2>1, <2>2
<1>3. q = [c EXCEPT !.averages = s]
  BY DEF Measure
<1> HIDE DEF s
<1>4. /\ q \in Circuits /\ q.averages = s /\ q.assigned = c.assigned
      /\ q.pref = c.pref /\ q.det = c.det /\ q.evidence = c.evidence
      /\ q.shown = c.shown
  BY <1>1, <1>2, <1>3 DEF Circuits
<1> QED BY <1>2, <1>4 DEF DetectionInv

(* One frame in one detector: what it leaves of the circuit, and that a line *)
(* it finds is earned.                                                       *)
Detected(c, x, q, line) ==
  /\ DetectionInv(q) /\ line \in MaybeLine
  /\ q.assigned = c.assigned /\ q.pref = c.pref
  /\ q.det[x].confirmed \notin {NoLine, c.det[x].confirmed}
       => EarnedBy(q.evidence[x], q.det[x].confirmed)
  /\ line # NoLine => EarnedBy(q.evidence[x], line)
  /\ \A y \in Detectors \ {x} : /\ q.det[y] = c.det[y]
                                /\ q.evidence[y] = c.evidence[y]

(* The sensor shows the confirmed line once there is one.                   *)
LEMMA PublishedForm ==
  ASSUME NEW d \in Detector, NEW w, NEW g, Sound(d, w, g), NEW old \in Texts,
         d.confirmed # NoLine => old = LineText[d.confirmed],
         NEW s, s = Published(old, w.text, w.state)
  PROVE  /\ s \in Texts
         /\ w.state.confirmed # NoLine => s = LineText[w.state.confirmed]
<1>1. /\ w.state \in Detector /\ w.text \in Texts \cup {Nothing}
      /\ w.state.confirmed \in MaybeLine
  BY DEF Sound, Results, Detector
<1>2. w.state.confirmed # NoLine
        => LineText[w.state.confirmed] \in {"L1", "L2", "L3"}
  BY <1>1, LineFacts DEF MaybeLine
<1>3. CASE w.text = Nothing
  <2>1. w.line = NoLine
    BY <1>3, LineFacts DEF Sound, Results, MaybeLine, Nothing
  <2> QED BY <1>3, <2>1 DEF Sound, Published
<1>4. CASE w.text # Nothing
  <2>1. w.text \in Texts
    BY <1>1, <1>4
  <2>2. s = IF w.state.confirmed # NoLine THEN LineText[w.state.confirmed]
            ELSE w.text
    BY <1>4 DEF Published
  <2> QED BY <1>2, <2>1, <2>2 DEF Texts
<1> QED BY <1>3, <1>4

(* The end of a window of detector x.                                       *)
LEMMA EndedForm ==
  ASSUME NEW c, DetectionInv(c), NEW x \in Detectors, NEW d \in Detector,
         d.active = c.det[x].active, d.current = c.det[x].current,
         d.streak = c.det[x].streak, d.candidate = c.det[x].candidate,
         d.confirmed = c.det[x].confirmed,
         NEW w, Sound(d, w, Continued(d, c.evidence[x], w)),
         NEW r, r = Ended(c, x, d, w)
  PROVE  Detected(c, x, r.circuit, r.line)
<1> DEFINE g == Continued(d, c.evidence[x], w)
           s == IF x = "diag" THEN Published(c.shown, w.text, w.state)
                ELSE c.shown
           de == [c.det EXCEPT ![x] = w.state]
           ev == [c.evidence EXCEPT ![x] = g]
           q == r.circuit
<1>1. /\ c \in Circuits /\ c.det \in [Detectors -> Detector]
      /\ c.evidence \in [Detectors -> Seq(Seen)] /\ c.shown \in Texts
  BY DEF DetectionInv, Circuits
<1>2. /\ w.state \in Detector /\ w.line \in MaybeLine /\ g \in Seq(Seen)
      /\ Streaked(w.state, g)
      /\ w.line = NoLine => w.state.confirmed = d.confirmed
      /\ w.line # NoLine => w.state.confirmed = w.line /\ EarnedBy(g, w.line)
  BY DEF Sound, Results
<1>3. q = [c EXCEPT !.det = de, !.evidence = ev, !.shown = s] /\ r.line = w.line
  BY <1>1 DEF Ended, Continued, Circuits
<1>4. /\ s \in Texts
      /\ x = "diag" => (w.state.confirmed # NoLine
                          => s = LineText[w.state.confirmed])
      /\ x # "diag" => s = c.shown
  <2>1. CASE x = "diag"
    BY <1>1, <2>1, PublishedForm DEF DetectionInv
  <2>2. CASE x # "diag"
    BY <1>1, <2>2
  <2> QED BY <2>1, <2>2
<1>5. /\ de \in [Detectors -> Detector] /\ ev \in [Detectors -> Seq(Seen)]
      /\ de[x] = w.state /\ ev[x] = g
      /\ \A y \in Detectors \ {x} : de[y] = c.det[y] /\ ev[y] = c.evidence[y]
  BY <1>1, <1>2
<1> HIDE DEF g, s, de, ev, q
<1>6. /\ q \in Circuits /\ q.det = de /\ q.evidence = ev /\ q.shown = s
      /\ q.assigned = c.assigned /\ q.pref = c.pref /\ q.averages = c.averages
  BY <1>1, <1>3, <1>4, <1>5 DEF Circuits
<1>7. \A y \in Detectors : Streaked(q.det[y], q.evidence[y])
  BY <1>2, <1>5, <1>6 DEF DetectionInv
<1>8. q.det["diag"].confirmed # NoLine
        => q.shown = LineText[q.det["diag"].confirmed]
  BY <1>4, <1>5, <1>6 DEF DetectionInv, Detectors
<1>9. DetectionInv(q)
  BY <1>6, <1>7, <1>8 DEF DetectionInv
<1> QED BY <1>2, <1>3, <1>5, <1>6, <1>9 DEF Detected, q

(* Any frame in detector x.                                                 *)
LEMMA DetectForm ==
  ASSUME NEW c, DetectionInv(c), NEW x \in Detectors, NEW export,
         NEW p \in Loads, NEW r, r = Detect(c, x, export, p)
  PROVE  Detected(c, x, r.circuit, r.line)
<1> DEFINE o == c.det[x]
           d == Sample(o, p)
           w == CloseWindow(d, export)
<1>1. /\ c \in Circuits /\ o \in Detector /\ c.evidence[x] \in Seq(Seen)
      /\ c.det \in [Detectors -> Detector]
      /\ c.evidence \in [Detectors -> Seq(Seen)]
  BY DEF DetectionInv, Circuits
<1>2. Streaked(o, c.evidence[x])
  BY DEF DetectionInv
<1>3. d = Sample(o, p) /\ w = CloseWindow(d, export)
  OBVIOUS
<1> HIDE DEF o, d, w
<1>4. /\ d \in Detector /\ d.samples > 0
      /\ d.active = o.active /\ d.current = o.current
      /\ d.streak = o.streak /\ d.candidate = o.candidate
      /\ d.confirmed = o.confirmed
  BY <1>1, <1>3, SampleForm
<1>5. Streaked(d, c.evidence[x])
  BY <1>2, <1>4, StreakedAlike
<1>6. CASE WindowDone(d)
  <2>1. r = Ended(c, x, d, w)
    BY <1>6 DEF Detect, d, w, o
  <2>2. Sound(d, w, Continued(d, c.evidence[x], w))
    BY <1>1, <1>3, <1>4, <1>5, CloseForm
  <2>3. /\ d.active = c.det[x].active /\ d.current = c.det[x].current
        /\ d.streak = c.det[x].streak /\ d.candidate = c.det[x].candidate
        /\ d.confirmed = c.det[x].confirmed
    BY <1>4 DEF o
  <2> QED BY <1>4, <2>1, <2>2, <2>3, EndedForm
<1>7. CASE ~WindowDone(d)
  <2> DEFINE q == r.circuit
             de == [c.det EXCEPT ![x] = d]
  <2>1. q = [c EXCEPT !.det = de] /\ r.line = NoLine
    BY <1>7 DEF Detect, d, o
  <2>2. /\ de \in [Detectors -> Detector] /\ de[x] = d
        /\ \A y \in Detectors \ {x} : de[y] = c.det[y]
    BY <1>1, <1>4
  <2> HIDE DEF q, de
  <2>3. /\ q \in Circuits /\ q.det = de /\ q.evidence = c.evidence
        /\ q.shown = c.shown /\ q.assigned = c.assigned /\ q.pref = c.pref
        /\ q.averages = c.averages
    BY <1>1, <2>1, <2>2 DEF Circuits
  <2>4. \A y \in Detectors : Streaked(q.det[y], q.evidence[y])
    BY <1>5, <2>2, <2>3 DEF DetectionInv
  <2>5. \A y \in Detectors : q.det[y].confirmed = c.det[y].confirmed
    BY <1>4, <2>2, <2>3 DEF o
  <2>6. DetectionInv(q)
    BY <2>3, <2>4, <2>5 DEF DetectionInv, Detectors
  <2> QED BY <2>1, <2>2, <2>3, <2>5, <2>6 DEF Detected, q, MaybeLine
<1> QED BY <1>6, <1>7

(* What a frame leaves of the circuit c: a line confirmed or assigned anew  *)
(* is earned.                                                               *)
Progress(c, q) ==
  /\ DetectionInv(q) /\ StoredInv(q)
  /\ \A y \in Detectors : q.det[y].confirmed \notin {NoLine, c.det[y].confirmed}
       => EarnedBy(q.evidence[y], q.det[y].confirmed)
  /\ q.assigned # c.assigned
       => c.assigned.auto /\ EarnedBy(q.evidence["auto"], q.assigned.line)

(* The line of the automatic detector is assigned and stored.               *)
LEMMA AssignForm ==
  ASSUME NEW c, NEW f, StoredInv(c), c.assigned.auto,
         Detected(c, "auto", f.circuit, f.line),
         NEW q, q = AssignDetected(f)
  PROVE  /\ Progress(c, q)
         /\ q.det["diag"] = c.det["diag"]
         /\ q.evidence["diag"] = c.evidence["diag"]
<1> DEFINE k == f.circuit
           l == f.line
<1>1. Detected(c, "auto", k, l)
  OBVIOUS
<1>2. q = IF l = NoLine THEN k ELSE CompleteAuto(k, l)
  BY DEF AssignDetected
<1> HIDE DEF k, l
<1>3. /\ DetectionInv(k) /\ StoredInv(k) /\ l \in MaybeLine
      /\ k.assigned = c.assigned /\ k.assigned.auto
      /\ k.det["diag"] = c.det["diag"]
      /\ k.evidence["diag"] = c.evidence["diag"]
      /\ k.det["auto"].confirmed \notin {NoLine, c.det["auto"].confirmed}
           => EarnedBy(k.evidence["auto"], k.det["auto"].confirmed)
      /\ l # NoLine => EarnedBy(k.evidence["auto"], l)
  BY <1>1 DEF Detected, StoredInv, Detectors
<1>4. CASE l = NoLine
  BY <1>2, <1>3, <1>4 DEF Progress, Detectors
<1>5. CASE l # NoLine
  <2> DEFINE save == TRUE
  <2>1. q = SelectLine(k, l, save) /\ l \in Lines /\ save \in BOOLEAN /\ save
    BY <1>2, <1>3, <1>5, Zenon DEF CompleteAuto, MaybeLine
  <2> HIDE DEF save
  <2>2. DetectionInv(q) /\ StoredInv(q)
    BY <1>3, <2>1, SelectKeeps
  <2>3. k \in Circuits
    BY <1>3 DEF DetectionInv
  <2>4. /\ q \in Circuits
        /\ q.assigned.line = l /\ ~q.assigned.auto
        /\ q.pref = IF save THEN l ELSE k.pref
        /\ q.shown = k.shown /\ q.evidence = k.evidence
        /\ q.det["diag"] = k.det["diag"] /\ q.det["auto"] = Fresh
        /\ q.averages.demand = {}
        /\ q.averages.analysis
             = IF k.assigned.line = l THEN k.averages.analysis ELSE {}
    <3>1. q = SelectLine(k, l, save)
      BY <2>1
    <3>2. l \in Lines /\ save \in BOOLEAN
      BY <2>1
    <3> QED BY <2>3, <3>1, <3>2, SelectForm
  <2>5. q.det["auto"].confirmed = NoLine
    BY <2>4, FreshType
  <2>6. \A y \in Detectors :
          q.det[y].confirmed \notin {NoLine, c.det[y].confirmed}
          => EarnedBy(q.evidence[y], q.det[y].confirmed)
    BY <1>3, <2>4, <2>5 DEF Detectors
  <2>7. EarnedBy(q.evidence["auto"], q.assigned.line)
    BY <1>3, <1>5, <2>4
  <2> QED BY <1>3, <2>2, <2>4, <2>6, <2>7 DEF Progress
<1> QED BY <1>4, <1>5

(* A whole frame: both detectors, the assignment and the sums.              *)
LEMMA FrameForm ==
  ASSUME NEW c, DetectionInv(c), StoredInv(c), NEW p \in Loads,
         NEW q, q = Measure(DetectLine(c, p))
  PROVE  Progress(c, q)
<1> DEFINE r == Detect(c, "diag", DiagExport, p)
           k == r.circuit
           f == Detect(k, "auto", k.assigned.export, p)
           m == DetectLine(c, p)
<1>1. r = Detect(c, "diag", DiagExport, p) /\ "diag" \in Detectors
      /\ "auto" \in Detectors
  BY DEF Detectors
<1>2. m = IF k.assigned.auto THEN AssignDetected(f) ELSE k
  BY DEF DetectLine, DetectAuto
<1>3. f = Detect(k, "auto", k.assigned.export, p) /\ q = Measure(m)
  OBVIOUS
<1> HIDE DEF r, f, m
<1>4. Detected(c, "diag", k, r.line)
  BY <1>1, DetectForm
<1> HIDE DEF k
<1>5. /\ DetectionInv(k) /\ StoredInv(k) /\ k.assigned = c.assigned
      /\ k.det["auto"] = c.det["auto"]
      /\ k.det["diag"].confirmed \notin {NoLine, c.det["diag"].confirmed}
           => EarnedBy(k.evidence["diag"], k.det["diag"].confirmed)
  BY <1>4 DEF Detected, StoredInv, Detectors
<1>6. Progress(c, m)
  <2>1. CASE ~k.assigned.auto
    BY <1>2, <1>5, <2>1 DEF Progress, Detectors
  <2>2. CASE k.assigned.auto
    <3>1. Detected(k, "auto", f.circuit, f.line)
      BY <1>1, <1>3, <1>5, DetectForm
    <3>2. m = AssignDetected(f)
      BY <1>2, <2>2
    <3>3. /\ Progress(k, m) /\ m.det["diag"] = k.det["diag"]
          /\ m.evidence["diag"] = k.evidence["diag"]
      BY <1>5, <2>2, <3>1, <3>2, AssignForm
    <3> QED BY <1>5, <3>3 DEF Progress, Detectors
  <2> QED BY <2>1, <2>2
<1>7. /\ DetectionInv(q) /\ q.assigned = m.assigned /\ q.pref = m.pref
      /\ q.det = m.det /\ q.evidence = m.evidence
  BY <1>3, <1>6, MeasureKeeps DEF Progress
<1> QED BY <1>6, <1>7 DEF Progress, StoredInv

(* A boot comes back with what the flash holds.                             *)
LEMMA BootForm ==
  ASSUME NEW saved \in -1 .. 4, NEW q, q = AtBoot(saved)
  PROVE  /\ DetectionInv(q) /\ StoredInv(q) /\ q.pref = saved
         /\ \A x \in Detectors : q.det[x] = Fresh
<1> DEFINE s == [x \in Detectors |-> Fresh]
           n == [line |-> NoLine, auto |-> FALSE, export |-> FALSE]
           k == [det |-> s, shown |-> "unknown", assigned |-> n,
                 pref |-> saved, averages |-> NoAverages,
                 evidence |-> NoEvidence]
           line == IF saved = NotSaved THEN InitialLine ELSE saved
           save == FALSE
           export == line = AutoExport
<1>1. q = IF line \in Lines THEN SelectLine(k, line, save)
                            ELSE StartAuto(k, export, save)
  BY DEF AtBoot, SetupAssignment
<1>2. /\ s \in [Detectors -> Detector] /\ \A x \in Detectors : s[x] = Fresh
      /\ n \in Assignment /\ NoAverages \in Sums
      /\ NoEvidence \in [Detectors -> Seq(Seen)]
  BY FreshType DEF Assignment, NoAverages, Sums, NoEvidence, MaybeLine
<1>3. k \in Circuits
  <2> HIDE DEF s, n
  <2> QED BY <1>2 DEF Circuits, Texts
<1>4. /\ k.det = s /\ k.averages = NoAverages /\ k.pref = saved
  OBVIOUS
<1>5. line \in 0 .. 4 /\ save \in BOOLEAN /\ ~save /\ export \in BOOLEAN
  BY LineDetectionAssumption DEF LineDetectionAssumption, NotSaved
<1> HIDE DEF k, s
<1>6. DetectionInv(k)
  <2>1. \A x \in Detectors : Streaked(k.det[x], k.evidence[x])
    BY <1>2, <1>4, FreshStreaked
  <2>2. k.det["diag"].confirmed = NoLine
    BY <1>2, <1>4, FreshType DEF Detectors
  <2> QED BY <1>3, <1>4, <2>1, <2>2 DEF DetectionInv, NoAverages
<1>7. k.det["diag"] = Fresh
  BY <1>2, <1>4 DEF Detectors
<1>8. CASE line \in Lines
  <2> HIDE DEF line, save
  <2>1. q = SelectLine(k, line, save)
    BY <1>1, <1>8
  <2>2. DetectionInv(q)
    BY <1>5, <1>6, <1>8, <2>1, SelectKeeps
  <2>3. /\ q.assigned.line = line /\ ~q.assigned.auto
        /\ q.pref = IF save THEN line ELSE k.pref
        /\ q.det["diag"] = k.det["diag"] /\ q.det["auto"] = Fresh
    BY <1>3, <1>5, <1>8, <2>1, SelectForm
  <2>4. q.pref = saved
    BY <1>4, <1>5, <2>3
  <2>5. Stored(q.assigned) = line
    BY <2>3 DEF Stored
  <2> QED BY <1>7, <2>2, <2>3, <2>4, <2>5 DEF StoredInv, line, Detectors
<1>9. CASE line \notin Lines
  <2> HIDE DEF line, save, export
  <2>1. q = StartAuto(k, export, save)
    BY <1>1, <1>9
  <2>2. DetectionInv(q)
    BY <1>5, <1>6, <2>1, AutoKeeps
  <2>3. /\ q.assigned = [line |-> NoLine, auto |-> TRUE, export |-> export]
        /\ q.pref = IF ~save THEN k.pref
                    ELSE IF export THEN AutoExport ELSE AutoImport
        /\ q.det["diag"] = k.det["diag"] /\ q.det["auto"] = Fresh
    BY <1>3, <1>5, <2>1, AutoForm
  <2>4. q.pref = saved
    BY <1>4, <1>5, <2>3
  <2>5. Stored(q.assigned) = IF export THEN AutoExport ELSE AutoImport
    BY <2>3 DEF Stored
  <2>6. Stored(q.assigned) = line
    BY <1>5, <1>9, <2>5 DEF export, AutoExport, AutoImport, Lines
  <2> QED BY <1>7, <2>2, <2>3, <2>4, <2>6 DEF StoredInv, line, Detectors
<1> QED BY <1>8, <1>9

-----------------------------------------------------------------------------
(* The state of the circuit.                                                *)

(* Its parts are the variables.                                             *)
LEMMA CircuitParts ==
  /\ Circuit.det = det /\ Circuit.shown = shown /\ Circuit.assigned = assigned
  /\ Circuit.pref = pref /\ Circuit.averages = averages
  /\ Circuit.evidence = evidence
BY DEF Circuit

(* A step that sets it.                                                     *)
LEMMA CircuitSet ==
  ASSUME NEW c \in Circuits, SetCircuit(c)
  PROVE  Circuit' = c
BY DEF SetCircuit, Circuit, Circuits

(* The initial states satisfy the invariant.                                *)
LEMMA LineInit == Init => LineInv
<1> SUFFICES ASSUME Init PROVE LineInv
  OBVIOUS
<1> DEFINE c == AtBoot(NotSaved)
<1>1. /\ DetectionInv(c) /\ StoredInv(c)
      /\ \A x \in Detectors : c.det[x] = Fresh
  <2> DEFINE s == NotSaved
  <2>1. s \in -1 .. 4 /\ c = AtBoot(s)
    BY DEF NotSaved
  <2> HIDE DEF s, c
  <2> QED BY <2>1, BootForm
<1>2. /\ det = c.det /\ shown = c.shown /\ assigned = c.assigned
      /\ pref = c.pref /\ averages = c.averages /\ evidence = c.evidence
      /\ stale = TRUE
  BY DEF Init
<1> HIDE DEF c
<1>3. Circuit = c
  BY <1>1, <1>2 DEF Circuit, Circuits, DetectionInv
<1> QED BY <1>1, <1>2, <1>3 DEF LineInv

(* Each step; what it earns.                                                *)
LEMMA FrameStep ==
  ASSUME LineInv, NEW gap \in BOOLEAN, Frame(gap)
  PROVE  /\ LineInv'
         /\ \A x \in Detectors :
              det'[x].confirmed \notin {NoLine, det[x].confirmed}
              => EarnedBy(evidence'[x], det'[x].confirmed)
         /\ assigned' # assigned
              => assigned.auto /\ EarnedBy(evidence'["auto"], assigned'.line)
<1> DEFINE c == IF gap THEN Invalidated(Circuit) ELSE Circuit
           p == load'
           q == Measure(DetectLine(c, p))
<1>1. /\ p \in Loads /\ SetCircuit(q) /\ stale' = FALSE
  BY DEF Frame
<1>2. q = Measure(DetectLine(c, p))
  OBVIOUS
<1>3. /\ DetectionInv(Circuit) /\ StoredInv(Circuit) /\ stale \in BOOLEAN
      /\ stale => \A x \in Detectors : Circuit.det[x] = Fresh
  BY CircuitParts DEF LineInv
<1>4. /\ DetectionInv(c) /\ c.assigned = assigned /\ c.pref = pref
      /\ \A x \in Detectors : c.det[x].confirmed \in {NoLine, det[x].confirmed}
  <2>1. CASE gap
    <3>1. c = Invalidated(Circuit)
      BY <2>1
    <3> HIDE DEF c
    <3>2. /\ DetectionInv(c) /\ c.assigned = Circuit.assigned
          /\ c.pref = Circuit.pref
          /\ \A x \in Detectors : c.det[x] = Fresh
      BY <1>3, <3>1, InvalidKeeps
    <3> QED BY <3>2, CircuitParts, FreshType
  <2>2. CASE ~gap
    BY <1>3, <2>2, CircuitParts
  <2> QED BY <2>1, <2>2
<1> HIDE DEF c, p, q
<1>5. StoredInv(c)
  BY <1>3, <1>4, CircuitParts DEF StoredInv
<1>6. Progress(c, q)
  BY <1>1, <1>2, <1>4, <1>5, FrameForm
<1>7. /\ Circuit' = q /\ det' = q.det /\ evidence' = q.evidence
      /\ assigned' = q.assigned
  BY <1>1, <1>6, CircuitSet DEF Progress, DetectionInv, SetCircuit
<1>8. LineInv'
  BY <1>1, <1>6, <1>7 DEF LineInv, Progress
<1> QED BY <1>4, <1>6, <1>7, <1>8 DEF Progress

(* A metering timeout restarts both detectors.                              *)
LEMMA TimeoutStep ==
  ASSUME LineInv, Timeout
  PROVE  /\ LineInv' /\ \A x \in Detectors : det'[x].confirmed = NoLine
<1> DEFINE c == Circuit
           q == Invalidated(c)
<1>1. /\ DetectionInv(c) /\ StoredInv(c) /\ stale \in BOOLEAN
      /\ stale => \A x \in Detectors : c.det[x] = Fresh
  BY CircuitParts DEF LineInv
<1>2. SetCircuit(q) /\ stale' = TRUE /\ q = Invalidated(c)
  BY DEF Timeout
<1> HIDE DEF c, q
<1>3. /\ DetectionInv(q) /\ q.assigned = c.assigned /\ q.pref = c.pref
      /\ \A x \in Detectors : q.det[x] = Fresh
  BY <1>1, <1>2, InvalidKeeps
<1>4. StoredInv(q)
  BY <1>1, <1>3 DEF StoredInv
<1>5. Circuit' = q /\ det' = q.det
  BY <1>2, <1>3, CircuitSet DEF DetectionInv, SetCircuit
<1> QED BY <1>2, <1>3, <1>4, <1>5, FreshType DEF LineInv

(* The select entity confirms nothing.                                      *)
LEMMA ChooseLineStep ==
  ASSUME LineInv, NEW line \in Lines, ChooseLine(line)
  PROVE  /\ LineInv'
         /\ \A x \in Detectors :
              det'[x].confirmed \in {NoLine, det[x].confirmed}
<1> DEFINE c == Circuit
           save == TRUE
           q == SelectLine(c, line, save)
<1>1. SetCircuit(q) /\ stale' = stale /\ q = SelectLine(c, line, save)
  BY DEF ChooseLine
<1>2. DetectionInv(c) /\ c \in Circuits /\ c.det = det
  BY CircuitParts DEF LineInv, DetectionInv
<1>3. save \in BOOLEAN /\ save
  OBVIOUS
<1> HIDE DEF c, save, q
<1>4. DetectionInv(q) /\ StoredInv(q)
  BY <1>1, <1>2, <1>3, SelectKeeps
<1>5. /\ q \in Circuits
      /\ q.assigned.line = line /\ ~q.assigned.auto
      /\ q.pref = IF save THEN line ELSE c.pref
      /\ q.shown = c.shown /\ q.evidence = c.evidence
      /\ q.det["diag"] = c.det["diag"] /\ q.det["auto"] = Fresh
      /\ q.averages.demand = {}
      /\ q.averages.analysis
           = IF c.assigned.line = line THEN c.averages.analysis ELSE {}
  <2>1. q = SelectLine(c, line, save)
    BY <1>1
  <2>2. c \in Circuits
    BY <1>2
  <2>3. save \in BOOLEAN
    BY <1>3
  <2> QED BY <2>1, <2>2, <2>3, SelectForm
<1>6. Circuit' = q /\ det' = q.det
  BY <1>1, <1>5, CircuitSet DEF SetCircuit
<1>7. \A x \in Detectors : det'[x] \in {det[x], Fresh}
  BY <1>2, <1>5, <1>6 DEF Detectors
<1>8. stale \in BOOLEAN /\ (stale => \A x \in Detectors : det[x] = Fresh)
  BY DEF LineInv
<1>9. stale' \in BOOLEAN /\ (stale' => \A x \in Detectors : det'[x] = Fresh)
  BY <1>1, <1>7, <1>8
<1>10. LineInv'
  BY <1>4, <1>6, <1>9 DEF LineInv
<1> QED BY <1>7, <1>10, FreshType

(* Nor does a return to automatic.                                          *)
LEMMA ChooseAutoStep ==
  ASSUME LineInv, NEW export \in BOOLEAN, ChooseAuto(export)
  PROVE  /\ LineInv'
         /\ \A x \in Detectors :
              det'[x].confirmed \in {NoLine, det[x].confirmed}
<1> DEFINE c == Circuit
           save == TRUE
           q == StartAuto(c, export, save)
<1>1. SetCircuit(q) /\ stale' = stale /\ q = StartAuto(c, export, save)
  BY DEF ChooseAuto
<1>2. DetectionInv(c) /\ c \in Circuits /\ c.det = det
  BY CircuitParts DEF LineInv, DetectionInv
<1>3. save \in BOOLEAN /\ save
  OBVIOUS
<1> HIDE DEF c, save, q
<1>4. DetectionInv(q) /\ StoredInv(q)
  BY <1>1, <1>2, <1>3, AutoKeeps
<1>5. /\ q \in Circuits
      /\ q.assigned = [line |-> NoLine, auto |-> TRUE, export |-> export]
      /\ q.pref = IF ~save THEN c.pref
                  ELSE IF export THEN AutoExport ELSE AutoImport
      /\ q.shown = c.shown
      /\ q.evidence["diag"] = c.evidence["diag"]
      /\ q.det["diag"] = c.det["diag"] /\ q.det["auto"] = Fresh
      /\ q.averages = NoAverages
  <2>1. q = StartAuto(c, export, save)
    BY <1>1
  <2>2. c \in Circuits
    BY <1>2
  <2>3. save \in BOOLEAN
    BY <1>3
  <2> QED BY <2>1, <2>2, <2>3, AutoForm
<1>6. Circuit' = q /\ det' = q.det
  BY <1>1, <1>5, CircuitSet DEF SetCircuit
<1>7. \A x \in Detectors : det'[x] \in {det[x], Fresh}
  BY <1>2, <1>5, <1>6 DEF Detectors
<1>8. stale \in BOOLEAN /\ (stale => \A x \in Detectors : det[x] = Fresh)
  BY DEF LineInv
<1>9. stale' \in BOOLEAN /\ (stale' => \A x \in Detectors : det'[x] = Fresh)
  BY <1>1, <1>7, <1>8
<1>10. LineInv'
  BY <1>4, <1>6, <1>9 DEF LineInv
<1> QED BY <1>7, <1>10, FreshType

(* A change of the gain restarts both detectors.                            *)
LEMMA ChangeGainStep ==
  ASSUME LineInv, ChangeGain
  PROVE  /\ LineInv' /\ \A x \in Detectors : det'[x].confirmed = NoLine
<1> DEFINE c == Circuit
           de == [x \in Detectors |-> Fresh]
           a == [averages EXCEPT !.analysis = {}]
           q == [c EXCEPT !.det = de, !.evidence = NoEvidence, !.averages = a]
<1>1. /\ DetectionInv(c) /\ StoredInv(c) /\ c \in Circuits
      /\ stale \in BOOLEAN
  BY DEF LineInv, DetectionInv
<1>2. /\ c.shown = shown /\ c.assigned = assigned /\ c.pref = pref
      /\ c.averages = averages
  BY CircuitParts
<1>3. /\ det' = de /\ evidence' = NoEvidence /\ averages' = a
      /\ shown' = shown /\ assigned' = assigned /\ pref' = pref
      /\ stale' = stale
  BY DEF ChangeGain
<1>4. q = [c EXCEPT !.det = de, !.evidence = NoEvidence, !.averages = a]
  OBVIOUS
<1> HIDE DEF c
<1>5. /\ de \in [Detectors -> Detector] /\ \A x \in Detectors : de[x] = Fresh
      /\ NoEvidence \in [Detectors -> Seq(Seen)]
  BY FreshType DEF NoEvidence
<1>6. /\ a \in Sums /\ a.demand \cup a.analysis \subseteq {c.assigned.line}
  BY <1>1, <1>2 DEF Circuits, Sums, DetectionInv
<1> HIDE DEF de, a, q
<1>7. /\ q \in Circuits /\ q.det = de /\ q.evidence = NoEvidence
      /\ q.averages = a /\ q.shown = c.shown /\ q.assigned = c.assigned
      /\ q.pref = c.pref
  BY <1>1, <1>4, <1>5, <1>6 DEF Circuits
<1>8. Circuit' = q
  BY <1>2, <1>3, <1>7 DEF Circuit, Circuits
<1>9. \A x \in Detectors : Streaked(q.det[x], q.evidence[x])
  BY <1>5, <1>7, FreshStreaked
<1>10. q.det["diag"].confirmed = NoLine
  BY <1>5, <1>7, FreshType DEF Detectors
<1>11. DetectionInv(q) /\ StoredInv(q)
  BY <1>1, <1>6, <1>7, <1>9, <1>10 DEF DetectionInv, StoredInv
<1> QED BY <1>1, <1>3, <1>5, <1>8, <1>11, FreshType DEF LineInv

(* A reboot keeps the assignment.                                           *)
LEMMA RebootStep ==
  ASSUME LineInv, Reboot
  PROVE  /\ LineInv' /\ Stored(assigned') = Stored(assigned)
         /\ \A x \in Detectors : det'[x].confirmed = NoLine
<1> DEFINE c == Circuit
           q == AtBoot(pref)
<1>1. /\ StoredInv(c) /\ pref \in -1 .. 4 /\ c.pref = pref
      /\ c.assigned = assigned
  BY CircuitParts DEF LineInv, DetectionInv, Circuits
<1>2. SetCircuit(q) /\ stale' = TRUE /\ q = AtBoot(pref)
  BY DEF Reboot
<1> HIDE DEF c, q
<1>3. /\ DetectionInv(q) /\ StoredInv(q) /\ q.pref = pref
      /\ \A x \in Detectors : q.det[x] = Fresh
  BY <1>1, <1>2, BootForm
<1>4. Circuit' = q /\ det' = q.det /\ assigned' = q.assigned
  BY <1>2, <1>3, CircuitSet DEF DetectionInv, SetCircuit
<1>5. Stored(q.assigned) = Stored(c.assigned)
  BY <1>1, <1>3 DEF StoredInv
<1> QED BY <1>1, <1>2, <1>3, <1>4, <1>5, FreshType DEF LineInv

(* What every step keeps, and what a newly confirmed or assigned line rests *)
(* on.                                                                      *)
Gained ==
  /\ \A x \in Detectors : det'[x].confirmed \notin {NoLine, det[x].confirmed}
       => EarnedBy(evidence'[x], det'[x].confirmed)
  /\ frames' # frames /\ assigned' # assigned
       => assigned.auto /\ EarnedBy(evidence'["auto"], assigned'.line)
  /\ Reboot => Stored(assigned') = Stored(assigned)

(* Every step keeps the invariant and gains only what is earned.            *)
LEMMA LineStep == LineInv /\ [Next]_vars => LineInv' /\ Gained
<1> SUFFICES ASSUME LineInv, [Next]_vars PROVE LineInv' /\ Gained
  OBVIOUS
<1>0. Reboot => Stored(assigned') = Stored(assigned)
  BY RebootStep
<1>1. CASE vars' = vars
  <2>1. /\ det' = det /\ assigned' = assigned /\ stale' = stale
        /\ frames' = frames
    BY <1>1 DEF vars
  <2>2. Circuit' = Circuit
    BY <1>1 DEF vars, Circuit
  <2>3. LineInv'
    BY <2>1, <2>2 DEF LineInv
  <2> QED BY <1>0, <2>1, <2>3 DEF Gained
<1>2. CASE \E gap \in BOOLEAN : Frame(gap)
  BY <1>0, <1>2, FrameStep DEF Gained
<1>3. CASE Timeout
  BY <1>0, <1>3, TimeoutStep DEF Gained, Timeout
<1>4. CASE \E line \in Lines : ChooseLine(line)
  BY <1>0, <1>4, ChooseLineStep DEF Gained, ChooseLine
<1>5. CASE \E export \in BOOLEAN : ChooseAuto(export)
  BY <1>0, <1>5, ChooseAutoStep DEF Gained, ChooseAuto
<1>6. CASE ChangeGain
  BY <1>0, <1>6, ChangeGainStep DEF Gained, ChangeGain
<1>7. CASE Reboot
  BY <1>0, <1>7, RebootStep DEF Gained, Reboot
<1> QED BY <1>1, <1>2, <1>3, <1>4, <1>5, <1>6, <1>7 DEF Next

(* The invariant of the detection, the flash and the averages.              *)
THEOREM LineInvHolds == Spec => []LineInv
<1>1. Init => LineInv
  BY LineInit
<1>2. LineInv /\ [Next]_vars => LineInv'
  BY LineStep
<1> QED BY <1>1, <1>2, PTL DEF Spec

(* Whatever changes the line of a circuit -- the select entity, a detection, *)
(* a reboot -- the open demand and analysis averages hold the power of the   *)
(* line it has now, and of no other.                                         *)
THEOREM OneLineAverages == Spec => []AveragesOfOneLine
<1>1. LineInv => AveragesOfOneLine
  BY CircuitParts DEF LineInv, DetectionInv, AveragesOfOneLine
<1> QED BY <1>1, LineInvHolds, PTL

(* The flash always holds what the assignment is, so a restart of the ESP32 *)
(* comes back with it.                                                      *)
THEOREM AssignmentIsKept == Spec => RebootKeepsAssignment
<1>1. LineInv /\ [Next]_vars
        => [Reboot => Stored(assigned') = Stored(assigned)]_vars
  BY LineStep DEF Gained
<1> QED BY <1>1, LineInvHolds, PTL DEF Spec, RebootKeepsAssignment

(* A detector confirms a line, and a detection assigns it, only after three *)
(* windows in a row of one undisturbed transition pointed to it and the     *)
(* current moved in the transition; the sensor changes from one line to     *)
(* another only then.                                                       *)
THEOREM ConfirmationsAreEarned == Spec => ConfirmationIsEarned
<1> DEFINE A == /\ \A x \in Detectors:
                     det'[x].confirmed \notin {NoLine, det[x].confirmed}
                     => Earned(x, det'[x].confirmed)
                /\ frames' # frames /\ assigned' # assigned
                     => assigned.auto /\ Earned("auto", assigned'.line)
                /\ shown' # shown /\ shown \in Range(LineText)
                     => \/ \E line \in Lines: shown' = LineText[line]
                                            /\ Earned("diag", line)
                        \/ NoLine \in {det["diag"].confirmed,
                                      det'["diag"].confirmed}
<1>1. ASSUME LineInv, LineInv', Gained PROVE A
  <2>1. \A x, line : EarnedBy(evidence'[x], line) => Earned(x, line)
    BY DEF EarnedBy, Earned
  <2>2. \A x \in Detectors: det'[x].confirmed \notin {NoLine, det[x].confirmed}
          => Earned(x, det'[x].confirmed)
    BY <1>1, <2>1 DEF Gained
  <2>3. frames' # frames /\ assigned' # assigned
          => assigned.auto /\ Earned("auto", assigned'.line)
    BY <1>1, <2>1 DEF Gained
  <2>4. ASSUME shown' # shown, det["diag"].confirmed # NoLine,
               det'["diag"].confirmed # NoLine
        PROVE  \E line \in Lines: /\ shown' = LineText[line]
                                  /\ Earned("diag", line)
    <3> DEFINE a == det["diag"].confirmed
               b == det'["diag"].confirmed
    <3>1. /\ det["diag"] \in Detector /\ shown = LineText[a]
      BY <1>1, <2>4, CircuitParts DEF LineInv, DetectionInv, Circuits, Detectors
    <3>2. /\ DetectionInv(Circuit') /\ Circuit'.det = det'
          /\ Circuit'.shown = shown'
      BY <1>1 DEF LineInv, Circuit
    <3>3. /\ det'["diag"] \in Detector /\ shown' = LineText[b]
      BY <2>4, <3>2 DEF DetectionInv, Circuits, Detectors
    <3>4. b \in Lines
      BY <2>4, <3>3 DEF Detector, MaybeLine
    <3>5. a # b
      BY <2>4, <3>1, <3>3
    <3>6. Earned("diag", b)
      BY <2>2, <2>4, <3>5 DEF Detectors
    <3> QED BY <3>3, <3>4, <3>6
  <2> QED BY <2>2, <2>3, <2>4
<1>2. LineInv /\ LineInv' /\ [Next]_vars => [A]_vars
  BY <1>1, LineStep
<1> HIDE DEF A
<1>3. Spec => [][A]_vars
  BY <1>2, LineInvHolds, PTL DEF Spec
<1> QED BY <1>3 DEF A, ConfirmationIsEarned

===============================================================================
