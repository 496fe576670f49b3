----------------------------- MODULE LineDetection -----------------------------
(***************************************************************************)
(* Line detection of one current transformer: the component correlates its *)
(* current with every line voltage and tells from a change of the load     *)
(* which line feeds the circuit.  Two detectors run over the same frames:  *)
(* "diag" only shows its result on a text sensor, "auto" assigns the line  *)
(* it finds to the circuit and stores it.  The line select entity, a       *)
(* change of the current gain, lost frames, a metering timeout and reboots *)
(* interfere.                                                              *)
(*                                                                         *)
(* One frame comes per tick.  The load is what the CT really measures: a   *)
(* correlation score per line, and an RMS current.  The confirmed line can *)
(* therefore be compared with the line the CT really is on.                *)
(***************************************************************************)
EXTENDS Integers, Sequences, SequencesExt, FiniteSetsExt, Functions

CONSTANTS
  Loads,          \* operating points [score, current, lag] of the circuit
  Wired,          \* the line that really feeds it
  DiagExport,     \* direction of the diagnostic detector
  InitialLine,    \* initial_line_: 0 and 4 are automatic
  PowerMin,       \* power_min of both detectors
  CurrentFloor,   \* the 0.01 A below which a current change is noise
  Ratio,          \* confidence ratio as <<numerator, denominator>>
  Interval,       \* line_detection_update_interval_ms_ in frames
  MaxFrames,      \* bound: frames of a behaviour
  MaxChanges,     \* bound: changes of the load
  MaxEvents       \* bound: lost frames, timeouts, operations, reboots

Lines == 1 .. 3

ASSUME LineDetectionAssumption ==
  /\ Wired \in Lines /\ InitialLine \in 0 .. 4 /\ DiagExport \in BOOLEAN
  /\ \A p \in Loads: p.score \in [Lines -> Int] /\ p.current \in Nat
  /\ {PowerMin, CurrentFloor, Interval, Ratio[1], Ratio[2]} \subseteq Nat \ {0}
  /\ {MaxFrames, MaxChanges, MaxEvents} \subseteq Nat

VARIABLES
  load,       \* the operating point the CT sees
  turned,     \* its power factor has changed
  det,        \* line_detection_state_ and auto_line_detection_state_
  shown,      \* state of the diagnostic text sensor
  assigned,   \* phase_, auto_line_detection_active_ and _export_
  pref,       \* line_pref_ in the flash
  averages,   \* lines whose power is in the open demand and analysis sums
  stale,      \* metering_data_stale_
  evidence,   \* what the windows of each detector's transition pointed to
  frames, changes, events

vars == <<load, turned, det, shown, assigned, pref, averages, stale, evidence,
          frames, changes, events>>
Bounds == <<frames, changes, events>>

Detectors == {"diag", "auto"}
AutoImport == 0   \* LINE_ASSIGNMENT_AUTO_IMPORT
AutoExport == 4   \* LINE_ASSIGNMENT_AUTO_EXPORT
NotSaved == -1
NotStarted == -1  \* window_start_ms_ = 0
NoLine == 0
NoPoint == [score |-> [l \in Lines |-> 0], current |-> 0]
LineText == <<"L1", "L2", "L3">>
StableWindows == 3      \* windows that must agree
TransitionWindows == 5  \* windows after which a transition is given up

-------------------------------------------------------------------------------
(* One detector                                                            *)

Fresh ==   \* a constructed or reset_all state
  [age |-> NotStarted, samples |-> 0, sum |-> NoPoint,
   armed |-> FALSE, reference |-> NoPoint,
   active |-> FALSE, current |-> FALSE, windows |-> 0,
   candidate |-> NoLine, streak |-> 0, confirmed |-> NoLine]

ResetStability(d) == [d EXCEPT !.candidate = NoLine, !.streak = 0]

ResetTransition(d) ==
  [ResetStability(d) EXCEPT !.active = FALSE, !.current = FALSE, !.windows = 0]

StartTransition(d) ==
  IF d.active THEN d ELSE [ResetTransition(d) EXCEPT !.active = TRUE]

UpdateCandidate(d, line) ==
  IF d.candidate = line
  THEN [d EXCEPT !.streak = @ + 1]
  ELSE [d EXCEPT !.candidate = line, !.streak = 1]

AddPoint(p, q) ==
  [score |-> [l \in Lines |-> p.score[l] + q.score[l]],
   current |-> p.current + q.current]

\* A frame of the open window.
Sample(d, p) ==
  [d EXCEPT !.age = IF @ = NotStarted THEN 0 ELSE @ + 1,
            !.sum = AddPoint(@, p), !.samples = @ + 1]
WindowDone(d) == d.age >= Interval

Average(d) ==
  [score |-> [l \in Lines |-> d.sum.score[l] \div d.samples],
   current |-> d.sum.current \div d.samples]

\* set_reference, and reset_window with the next window's start.
Rearm(d, average) == [d EXCEPT !.armed = TRUE, !.reference = average]
NextWindow(d) == [d EXCEPT !.age = 0, !.sum = NoPoint, !.samples = 0]

Delta(d, average) ==
  [l \in Lines |-> average.score[l] - d.reference.score[l]]
Magnitude(x) == IF x < 0 THEN -x ELSE x
MaxDelta(delta) == Max({Magnitude(delta[l]): l \in Lines})

CurrentChange(d, average) == average.current - d.reference.current
\* At least the floor, and a twentieth of the larger current.
CurrentMoved(d, average) ==
  LET change == Magnitude(CurrentChange(d, average))
  IN  /\ change >= CurrentFloor
      /\ 20 * change >= Max({d.reference.current, average.current})

\* Mutant: a falling load is read like a rising one.
DirectedUnsigned(d, average, export) ==
  [l \in Lines |-> IF export THEN -Delta(d, average)[l]
                             ELSE Delta(d, average)[l]]

\* The change of each correlation, counted in the configured direction.
Directed(d, average, export) ==
  LET falling == CurrentChange(d, average) < 0
  IN  [l \in Lines |-> IF falling # export THEN -Delta(d, average)[l]
                                           ELSE Delta(d, average)[l]]

\* Enough ahead of the runner-up.
Confident(score, best) ==
  LET second == Max({score[l]: l \in Lines \ {best}})
  IN  second <= 0 \/ Ratio[2] * score[best] >= Ratio[1] * second

\* The line a window points to: the largest directed score, when it reaches
\* the minimum and stands out against the runner-up.
Verdict(d, score) ==
  LET best == CHOOSE l \in Lines: \A k \in Lines:
                score[l] > score[k] \/ (score[l] = score[k] /\ l <= k)
  IN  IF d.current /\ score[best] >= PowerMin /\ Confident(score, best)
      THEN best ELSE NoLine

-------------------------------------------------------------------------------
(* A window that ends                                                      *)

Nothing == ""   \* no state is published

\* A window outside a transition, or one that ends it without a verdict.
NoVerdict(d, text) ==
  [state |-> d, text |-> text, line |-> NoLine, seen |-> {}]

\* The transition goes on: count the window, latch the current change, and let
\* the line it points to extend or break the streak.
Counted(d, average) ==
  LET t == [StartTransition(d) EXCEPT !.windows = @ + 1]
  IN  [t EXCEPT !.current = @ \/ CurrentMoved(d, average)]

Extended(d, verdict) ==
  IF verdict = NoLine THEN ResetStability(d) ELSE UpdateCandidate(d, verdict)

\* Three windows in a row confirm a line; otherwise the transition ends after
\* the last window it is allowed.
Concluded(d, verdict, average, moved) ==
  LET stable == d.streak >= StableWindows
      ended == stable \/ d.windows >= TransitionWindows
      kept == IF stable THEN [d EXCEPT !.confirmed = verdict] ELSE d
  IN  [state |-> IF ended THEN ResetTransition(Rearm(kept, average)) ELSE d,
       text  |-> CASE stable -> LineText[verdict]
                   [] ended /\ ~stable -> "ambiguous"
                   [] ~ended /\ d.streak >= 2 -> "weak"
                   [] OTHER -> Nothing,
       line  |-> IF stable THEN verdict ELSE NoLine,
       seen  |-> {[line |-> verdict, moved |-> moved]}]

Judge(d, average, export) ==
  LET t == Counted(d, average)
      verdict == Verdict(t, Directed(d, average, export))
  IN  Concluded(Extended(t, verdict), verdict, average, CurrentMoved(d, average))

\* update_state past the interval.  A transition starts with a change of at
\* least power_min from the reference, and is over when less than three
\* quarters of it are left; otherwise a quiet window is the next reference.
CloseWindow(d, export) ==
  LET average == Average(d)
      change == MaxDelta(Delta(d, average))
      result ==
        IF ~d.armed
        THEN NoVerdict(ResetTransition(Rearm(d, average)), "waiting for change")
        ELSE IF ~d.active /\ change < PowerMin
        THEN NoVerdict(Rearm(d, average), Nothing)
        ELSE IF d.active /\ 4 * change < 3 * PowerMin
        THEN NoVerdict(ResetTransition(Rearm(d, average)), Nothing)
        ELSE Judge(d, average, export)
  IN  [result EXCEPT !.state = NextWindow(@)]

\* publish_detection_state: the confirmed line hides every later attempt.
Published(old, text, d) ==
  IF text = Nothing THEN old
  ELSE IF d.confirmed # NoLine THEN LineText[d.confirmed] ELSE text

-------------------------------------------------------------------------------
(* The line assignment                                                     *)

\* What the handlers of one step work on.
Circuit == [det |-> det, shown |-> shown, assigned |-> assigned, pref |-> pref,
            averages |-> averages, evidence |-> evidence]
SetCircuit(c) ==
  /\ det' = c.det /\ shown' = c.shown /\ assigned' = c.assigned
  /\ pref' = c.pref /\ averages' = c.averages /\ evidence' = c.evidence

NoAverages == [demand |-> {}, analysis |-> {}]
NoEvidence == [x \in Detectors |-> <<>>]

\* Mutant: the open demand window goes on with the new line.
SelectLineKeepsDemand(c, line, save) ==
  [c EXCEPT !.assigned.line = line, !.assigned.auto = FALSE,
            !.det["auto"] = Fresh,
            !.averages.analysis = IF c.assigned.line = line THEN @ ELSE {},
            !.pref = IF save THEN line ELSE @]

\* select_line.  Analysis is only reset when the phase changes.
SelectLine(c, line, save) ==
  [c EXCEPT !.assigned.line = line, !.assigned.auto = FALSE,
            !.det["auto"] = Fresh,
            !.averages = [demand |-> {},
                          analysis |-> IF c.assigned.line = line
                                       THEN @.analysis ELSE {}],
            !.pref = IF save THEN line ELSE @]

StartAuto(c, export, save) ==
  [c EXCEPT !.assigned = [line |-> NoLine, auto |-> TRUE, export |-> export],
            !.det["auto"] = Fresh, !.evidence["auto"] = <<>>,
            !.averages = NoAverages,
            !.pref = IF ~save THEN @
                     ELSE IF export THEN AutoExport ELSE AutoImport]

\* Mutant: the detected line is applied, and not stored.
CompleteAutoUnsaved(c, line) ==
  IF c.assigned.auto THEN SelectLine(c, line, FALSE) ELSE c

CompleteAuto(c, line) ==
  IF c.assigned.auto THEN SelectLine(c, line, TRUE) ELSE c

\* What an assignment is stored as.
Stored(a) == IF ~a.auto THEN a.line
             ELSE IF a.export THEN AutoExport ELSE AutoImport

\* setup_line_assignment over a preference as it was found.
SetupAssignment(c) ==
  LET line == IF c.pref = NotSaved THEN InitialLine ELSE c.pref
  IN  IF line \in Lines THEN SelectLine(c, line, FALSE)
                        ELSE StartAuto(c, line = AutoExport, FALSE)

AtBoot(saved) ==
  SetupAssignment([det |-> [x \in Detectors |-> Fresh], shown |-> "unknown",
                   assigned |-> [line |-> NoLine, auto |-> FALSE,
                                 export |-> FALSE],
                   pref |-> saved, averages |-> NoAverages,
                   evidence |-> NoEvidence])

-------------------------------------------------------------------------------
(* Frames                                                                  *)

\* Mutant: a transition goes on over the gap.
InvalidatedKeepsDetectors(c) ==
  [c EXCEPT !.averages = NoAverages, !.evidence = NoEvidence,
            !.shown = IF stale THEN @ ELSE "unavailable"]

\* The first invalidation after a frame starts the detectors afresh.
Invalidated(c) ==
  [c EXCEPT !.averages = NoAverages, !.evidence = NoEvidence,
            !.det = IF stale THEN @ ELSE [x \in Detectors |-> Fresh],
            !.shown = IF stale THEN @ ELSE "unavailable"]

\* What the end w of a window of detector x, open in state d, leaves.
Ended(c, x, d, w) ==
  [circuit |->
     [c EXCEPT !.det[x] = w.state,
               !.evidence[x] = (IF d.active /\ w.seen # {} THEN @ ELSE <<>>)
                                 \o SetToSeq(w.seen),
               !.shown = IF x = "diag" THEN Published(@, w.text, w.state)
                                       ELSE @],
   line |-> w.line]

Detect(c, x, export, p) ==
  LET d == Sample(c.det[x], p)
  IN  IF WindowDone(d) THEN Ended(c, x, d, CloseWindow(d, export))
      ELSE [circuit |-> [c EXCEPT !.det[x] = d], line |-> NoLine]

AssignDetected(found) ==
  IF found.line = NoLine THEN found.circuit
  ELSE CompleteAuto(found.circuit, found.line)

DetectAuto(c, p) ==
  IF c.assigned.auto
  THEN AssignDetected(Detect(c, "auto", c.assigned.export, p))
  ELSE c

\* update_line_detection_: the diagnostic detector first, then the automatic
\* one while it is active, whose line is assigned at once.
DetectLine(c, p) == DetectAuto(Detect(c, "diag", DiagExport, p).circuit, p)

\* The power of the assigned line goes into the sums; without a line it is not
\* known, which breaks them.
Measure(c) ==
  [c EXCEPT !.averages =
     IF c.assigned.line = NoLine THEN NoAverages
     ELSE [k \in DOMAIN @ |-> @[k] \union {c.assigned.line}]]

\* submit_metering_frame_ with the next frame; after a gap the frame
\* invalidates what came before it.
Frame(gap) ==
  /\ frames < MaxFrames /\ frames' = frames + 1
  /\ load' \in Loads
  /\ load' # load => changes < MaxChanges
  /\ turned' = (turned \/ load'.lag # load.lag)
  /\ changes' = IF load' = load THEN changes ELSE changes + 1
  /\ gap => events < MaxEvents
  /\ events' = IF gap THEN events + 1 ELSE events
  /\ SetCircuit(Measure(DetectLine(
       IF gap THEN Invalidated(Circuit) ELSE Circuit, load')))
  /\ stale' = FALSE

Event == events < MaxEvents /\ events' = events + 1

\* check_metering_timeout_; the load may be another when frames come again.
Timeout ==
  /\ Event /\ ~stale
  /\ SetCircuit(Invalidated(Circuit))
  /\ stale' = TRUE
  /\ UNCHANGED <<load, turned, frames, changes>>

-------------------------------------------------------------------------------
(* Operations                                                              *)

\* MeteringLineSelect::control
ChooseLine(line) ==
  /\ Event
  /\ SetCircuit(SelectLine(Circuit, line, TRUE))
  /\ UNCHANGED <<load, turned, stale, frames, changes>>
ChooseAuto(export) ==
  /\ Event
  /\ SetCircuit(StartAuto(Circuit, export, TRUE))
  /\ UNCHANGED <<load, turned, stale, frames, changes>>

\* set_current_gain with another gain.  The sensor keeps its text.
ChangeGain ==
  /\ Event
  /\ det' = [x \in Detectors |-> Fresh] /\ evidence' = NoEvidence
  /\ averages' = [averages EXCEPT !.analysis = {}]
  /\ UNCHANGED <<load, turned, shown, assigned, pref, stale, frames, changes>>

Reboot ==
  /\ Event
  /\ SetCircuit(AtBoot(pref))
  /\ stale' = TRUE
  /\ UNCHANGED <<load, turned, frames, changes>>

-------------------------------------------------------------------------------
Init ==
  /\ load \in Loads /\ turned = FALSE
  /\ LET c == AtBoot(NotSaved)
     IN  /\ det = c.det /\ shown = c.shown /\ assigned = c.assigned
         /\ pref = c.pref /\ averages = c.averages /\ evidence = c.evidence
  /\ stale = TRUE
  /\ frames = 0 /\ changes = 0 /\ events = 0

Next ==
  \/ \E gap \in BOOLEAN: Frame(gap)
  \/ Timeout
  \/ \E line \in Lines: ChooseLine(line)
  \/ \E export \in BOOLEAN: ChooseAuto(export)
  \/ ChangeGain
  \/ Reboot

Spec == Init /\ [][Next]_vars

-------------------------------------------------------------------------------
(* Properties                                                              *)

\* Three windows in a row, of one transition and without a lost frame, a
\* timeout or a restart of the detection between them, each pointed to line,
\* and in some window of the transition the current moved.
Earned(x, line) ==
  LET e == evidence'[x]
      n == Len(e)
  IN  /\ n >= StableWindows
      /\ \A i \in n - StableWindows + 1 .. n: e[i].line = line
      /\ \E i \in 1 .. n: e[i].moved

\* A line is confirmed, and assigned by a detection, only when it is earned;
\* and once the sensor shows a line it shows it until another line is earned or
\* the detection was restarted.
ConfirmationIsEarned ==
  [][/\ \A x \in Detectors: det'[x].confirmed \notin {NoLine, det[x].confirmed}
          => Earned(x, det'[x].confirmed)
     /\ frames' # frames /\ assigned' # assigned
          => assigned.auto /\ Earned("auto", assigned'.line)
     /\ shown' # shown /\ shown \in Range(LineText)
          => \/ \E line \in Lines: shown' = LineText[line]
                                 /\ Earned("diag", line)
             \/ NoLine \in {det["diag"].confirmed, det'["diag"].confirmed}]_vars

\* The line an import detector confirms, on the sensor or for the assignment,
\* is the line the circuit is on, while its power factor stays the same:
\* whether the load rises or falls, wherever in a window it changes, and
\* whatever operating point the detection started from.
ConfirmedOnWiredLine ==
  [][~turned' =>
       /\ ~DiagExport => det'["diag"].confirmed \in {NoLine, Wired}
       /\ (frames' # frames /\ assigned' # assigned /\ ~assigned.export)
            => assigned'.line = Wired]_vars

\* A restart of the ESP32 comes back with the assignment it had, chosen,
\* detected or still automatic.
RebootKeepsAssignment == [][Reboot => Stored(assigned') = Stored(assigned)]_vars

\* The open demand and analysis averages hold power of the assigned line only:
\* no average mixes the products of two lines.
AveragesOfOneLine ==
  averages.demand \union averages.analysis \subseteq {assigned.line}
===============================================================================
