------------------------- MODULE SpiReceiverProofs -------------------------
(***************************************************************************)
(* Theorems about the SPI reception pipeline, for every pool size N, every *)
(* journal capacity and every threshold.                                   *)
(***************************************************************************)
EXTENDS SpiReceiver, SequenceTheorems, FiniteSetTheorems, TLAPS

(* Where the control of the three threads can be: the strengthening that    *)
(* makes the ownership of the driver and of the pool inductive.  A task can *)
(* be alive only behind the places at which setup has created it and before *)
(* the places at which teardown has seen its handle gone.                   *)
ControlInv ==
  /\ NoUseAfterFree
  /\ ExclusiveReset
  /\ main \in {"spawnMet", "release"} => ~Alive
  /\ main \in {"spawnRx", "waitMetExit", "waitMet"} => rx = "off"
  /\ main \in {"buffers", "spawnMet", "spawnRx"} => driver # "absent"
  /\ main \in {"spawnMet", "spawnRx"} => pool
  /\ main \in {"confirm", "raise", "decide", "clear", "restart", "count",
               "chooseReset"} => started
  /\ main = "stop" /\ reason = "recover" => started

(* A task holds a frame or a slot exactly at the places where it handles    *)
(* one.                                                                     *)
HoldInv ==
  /\ rxFrame # None <=> rx = "send"
  /\ rxSlot # None <=> rx \in {"take", "send", "requeue"}
  /\ metFrame # None <=> met \in {"process", "giveBack"}

LEMMA ControlInit == Init => ControlInv
BY DEF Init, ControlInv, NoUseAfterFree, ExclusiveReset, Alive

LEMMA ControlStep == ControlInv /\ [Next]_vars => ControlInv'
<1> SUFFICES ASSUME ControlInv, [Next]_vars
             PROVE  ControlInv'
  OBVIOUS
<1> USE DEF ControlInv, NoUseAfterFree, ExclusiveReset, Alive
<1>1. CASE SetUp
  BY <1>1 DEF SetUp, SetupRefused, SetupDriver, SetupBuffers,
     SetupBuffersFail, StartMeteringTask, StartMeteringTaskFail, StartRxTask,
     StartRxTaskFail, AwaitMeteringExit, CleanupSpiInit, driverVars, poolVars,
     rxVars, metVars
<1>2. CASE TearDown
  BY <1>2 DEF TearDown, StopRequest, AwaitRx, ForceRx, AwaitForcedRx,
     AwaitMetering, FreeDriver, DrainJournal, DeletePipeline, StopUnchanged,
     poolVars, rxVars, metVars, driverVars
<1>3. CASE Watch
  BY <1>3 DEF Watch, PollReceiver, ConfirmStall, RaiseStall, DecideRecovery,
     ClearStall, RestartRead, RestartCount, ChooseReset, AfterFailedStop,
     AfterStop, SwdSessionEnds, MainOnly, poolVars, rxVars, metVars, driverVars
<1>4. CASE RxTask
  BY <1>4 DEF RxTask, RxLoop, RxGet, RxGetNothing, RxTake, RxSend, RxRequeue,
     RxExit, RxUnchanged, mainVars, poolVars, metVars
<1>5. CASE MetTask
  BY <1>5 DEF MetTask, MetTake, MetAccept, MetReject, MetGiveBack,
     MetSeeEmpty, MetLeaveOrLoop, MetUnchanged, mainVars, driverVars, rxVars
<1>6. CASE Environment
  BY <1>6 DEF Environment, FirmwareAction, DmaComplete, TimeoutElapses,
     mainVars, driverVars, poolVars, rxVars, metVars
<1>7. CASE UNCHANGED vars
  BY <1>7 DEF vars, mainVars, driverVars, poolVars, rxVars, metVars
<1> QED BY <1>1, <1>2, <1>3, <1>4, <1>5, <1>6, <1>7 DEF Next, MainLoop

LEMMA ControlCorrect == Spec => []ControlInv
BY ControlInit, ControlStep, PTL DEF Spec

-----------------------------------------------------------------------------
LEMMA TypeInit == Init => TypeOK
<1>1. Init => FlagsOK
  BY Zenon DEF Init, FlagsOK
<1>2. Init => DataOK
  BY BoundsAssumption
     DEF BoundsAssumption, Init, DataOK, MainPlaces, Slots, Frames, None
<1> QED BY <1>1, <1>2 DEF TypeOK

LEMMA HoldStep ==
  DataOK /\ ControlInv /\ HoldInv /\ [Next]_vars => HoldInv'
<1> SUFFICES ASSUME DataOK, ControlInv, HoldInv, [Next]_vars
             PROVE  HoldInv'
  OBVIOUS
<1> USE DEF HoldInv
<1>1. CASE SetUp
  <2>1. CASE SetupRefused \/ SetupDriver \/ SetupBuffers
    BY <2>1 DEF SetupRefused, SetupDriver, SetupBuffers, rxVars, metVars
  <2>2. CASE StartMeteringTask \/ StartRxTask \/ StartRxTaskFail
    BY <2>2 DEF ControlInv, Alive, StartMeteringTask, StartRxTask,
       StartRxTaskFail, rxVars, metVars
  <2>3. CASE SetupBuffersFail \/ StartMeteringTaskFail \/ AwaitMeteringExit
    BY <2>3 DEF SetupBuffersFail, StartMeteringTaskFail, AwaitMeteringExit,
       CleanupSpiInit, rxVars, metVars
  <2> QED BY <1>1, <2>1, <2>2, <2>3 DEF SetUp
<1>2. CASE TearDown
  BY <1>2 DEF TearDown, StopRequest, AwaitRx, ForceRx, AwaitForcedRx,
     AwaitMetering, FreeDriver, DrainJournal, DeletePipeline, StopUnchanged,
     rxVars, metVars
<1>3. CASE Watch
  BY <1>3 DEF Watch, PollReceiver, ConfirmStall, RaiseStall, DecideRecovery,
     ClearStall, RestartRead, RestartCount, ChooseReset, AfterFailedStop,
     AfterStop, SwdSessionEnds, MainOnly, rxVars, metVars
<1>4. CASE RxTask
  <2> USE BoundsAssumption DEF BoundsAssumption, RxUnchanged, metVars, None,
          Slots, Frames
  <2>1. CASE RxLoop \/ RxGetNothing \/ RxExit
    BY <2>1 DEF RxLoop, RxGetNothing, RxExit
  <2>2. ASSUME NEW s \in Slots, RxGet(s)
        PROVE  HoldInv'
    BY <2>2 DEF RxGet
  <2>3. CASE RxTake
    <3>1. free # <<>> => Head(free) \in Frames
      BY HeadTailProperties DEF DataOK
    <3> QED BY <2>3, <3>1 DEF RxTake
  <2>4. CASE RxSend \/ RxRequeue
    BY <2>4 DEF RxSend, RxRequeue
  <2> QED BY <1>4, <2>1, <2>2, <2>3, <2>4 DEF RxTask
<1>5. CASE MetTask
  <2> USE BoundsAssumption DEF BoundsAssumption, MetUnchanged, rxVars, None,
          Frames
  <2>1. CASE MetTake
    <3>1. Head(ready) \in Frames
      BY <2>1, HeadTailProperties DEF DataOK, MetTake
    <3> QED BY <2>1, <3>1 DEF MetTake
  <2>2. CASE MetAccept \/ MetReject \/ MetGiveBack \/ MetSeeEmpty
             \/ MetLeaveOrLoop
    BY <2>2 DEF MetAccept, MetReject, MetGiveBack, MetSeeEmpty, MetLeaveOrLoop
  <2> QED BY <1>5, <2>1, <2>2 DEF MetTask
<1>6. CASE Environment
  BY <1>6 DEF Environment, FirmwareAction, DmaComplete, TimeoutElapses,
     rxVars, metVars
<1>7. CASE UNCHANGED vars
  BY <1>7 DEF vars, rxVars, metVars
<1> QED BY <1>1, <1>2, <1>3, <1>4, <1>5, <1>6, <1>7 DEF Next, MainLoop

LEMMA DataSetUp == DataOK /\ SetUp => DataOK'
<1> SUFFICES ASSUME DataOK, SetUp
             PROVE  DataOK'
  OBVIOUS
<1> USE DEF DataOK, MainPlaces, driverVars, poolVars, rxVars, metVars,
        linkVars
<1>0. ASSUME CleanupSpiInit, UNCHANGED linkVars
      PROVE  DataOK'
  <2>1. CASE driver' \in {driver, "disabled"}
             /\ UNCHANGED <<armed, done, inflight, poolVars>>
    BY <1>0, <2>1 DEF CleanupSpiInit
  <2>2. CASE /\ driver' = "absent" /\ armed' = {} /\ done' = {}
             /\ inflight' = 0 /\ free' = <<>> /\ ready' = <<>>
             /\ journal' = 0
    <3>1. 0 \in 0 .. JournalCap /\ <<>> \in Seq(Frames)
      BY BoundsAssumption DEF BoundsAssumption
    <3> QED BY <1>0, <2>2, <3>1 DEF CleanupSpiInit
  <2> QED BY <1>0, <2>1, <2>2 DEF CleanupSpiInit
<1>1. CASE SetupRefused \/ SetupDriver
  BY <1>1 DEF SetupRefused, SetupDriver
<1>2. CASE SetupBuffers
  <2>1. [i \in 1 .. N |-> i] \in Seq(Frames)
    BY BoundsAssumption DEF BoundsAssumption, Frames
  <2> QED BY <1>2, <2>1, BoundsAssumption
          DEF BoundsAssumption, SetupBuffers, Slots
<1>3. CASE SetupBuffersFail \/ StartMeteringTaskFail
  BY <1>3, <1>0 DEF SetupBuffersFail, StartMeteringTaskFail
<1>4. CASE StartMeteringTask
  BY <1>4 DEF StartMeteringTask
<1>5. CASE StartRxTask \/ StartRxTaskFail
  BY <1>5 DEF StartRxTask, StartRxTaskFail
<1>6. CASE AwaitMeteringExit
  BY <1>6, <1>0 DEF AwaitMeteringExit
<1> QED BY <1>1, <1>2, <1>3, <1>4, <1>5, <1>6 DEF SetUp

LEMMA DataTearDown == DataOK /\ TearDown => DataOK'
<1> SUFFICES ASSUME DataOK, TearDown
             PROVE  DataOK'
  OBVIOUS
<1> USE BoundsAssumption DEF BoundsAssumption, DataOK, MainPlaces, rxVars,
        metVars, linkVars, poolVars, driverVars, StopUnchanged
<1>1. CASE StopRequest
  BY <1>1 DEF StopRequest
<1>2. CASE AwaitRx \/ ForceRx \/ AwaitForcedRx \/ AwaitMetering
  BY <1>2 DEF AwaitRx, ForceRx, AwaitForcedRx, AwaitMetering
<1>3. CASE FreeDriver
  BY <1>3 DEF FreeDriver
<1>4. CASE DrainJournal
  BY <1>4 DEF DrainJournal
<1>5. CASE DeletePipeline
  BY <1>5 DEF DeletePipeline
<1> QED BY <1>1, <1>2, <1>3, <1>4, <1>5 DEF TearDown

LEMMA DataWatch == DataOK /\ Watch => DataOK'
<1> SUFFICES ASSUME DataOK, Watch
             PROVE  DataOK'
  OBVIOUS
<1> USE BoundsAssumption DEF BoundsAssumption, DataOK, MainPlaces, rxVars,
        metVars, linkVars, poolVars, driverVars, MainOnly
<1>1. CASE PollReceiver
  BY <1>1 DEF PollReceiver
<1>2. CASE ConfirmStall \/ RaiseStall \/ DecideRecovery \/ ClearStall
  BY <1>2 DEF ConfirmStall, RaiseStall, DecideRecovery, ClearStall
<1>3. CASE RestartRead \/ RestartCount
  BY <1>3 DEF RestartRead, RestartCount, Least
<1>4. CASE ChooseReset
  BY <1>4 DEF ChooseReset
<1>5. CASE AfterFailedStop
  BY <1>5 DEF AfterFailedStop
<1>6. CASE AfterStop
  BY <1>6 DEF AfterStop
<1>7. CASE SwdSessionEnds
  BY <1>7 DEF SwdSessionEnds
<1> QED BY <1>1, <1>2, <1>3, <1>4, <1>5, <1>6, <1>7 DEF Watch

LEMMA DataRxTask == DataOK /\ HoldInv /\ RxTask => DataOK'
<1> SUFFICES ASSUME DataOK, HoldInv, RxTask
             PROVE  DataOK'
  OBVIOUS
<1> USE DEF DataOK, mainVars, metVars, poolVars, RxUnchanged
<1>1. CASE RxLoop \/ RxGetNothing \/ RxExit
  BY <1>1 DEF RxLoop, RxGetNothing, RxExit
<1>2. ASSUME NEW s \in Slots, RxGet(s)
      PROVE  DataOK'
  BY <1>2 DEF RxGet
<1>3. CASE RxTake
  BY <1>3 DEF RxTake
<1>4. CASE RxSend
  <2>1. rxFrame \in Frames
    BY <1>4 DEF RxSend, HoldInv
  <2>2. /\ Append(ready, rxFrame) \in Seq(Frames)
        /\ Append(free, rxFrame) \in Seq(Frames)
    BY <2>1
  <2> QED BY <1>4, <2>2 DEF RxSend
<1>5. CASE RxRequeue
  <2>1. rxSlot \in Slots
    BY <1>5 DEF RxRequeue, HoldInv
  <2> QED BY <1>5, <2>1 DEF RxRequeue
<1> QED BY <1>1, <1>2, <1>3, <1>4, <1>5 DEF RxTask

LEMMA DataMetTask == DataOK /\ HoldInv /\ MetTask => DataOK'
<1> SUFFICES ASSUME DataOK, HoldInv, MetTask
             PROVE  DataOK'
  OBVIOUS
<1> USE DEF DataOK, mainVars, driverVars, rxVars, MetUnchanged
<1>1. CASE MetTake
  BY <1>1 DEF MetTake
<1>2. CASE MetAccept
  BY <1>2, BoundsAssumption DEF BoundsAssumption, MetAccept, Least
<1>3. CASE MetReject
  BY <1>3, BoundsAssumption DEF BoundsAssumption, MetReject, Least
<1>4. CASE MetGiveBack
  <2>1. metFrame \in Frames
    BY <1>4 DEF MetGiveBack, HoldInv
  <2>2. Append(free, metFrame) \in Seq(Frames)
    BY <2>1
  <2> QED BY <1>4, <2>2 DEF MetGiveBack
<1>5. CASE MetSeeEmpty \/ MetLeaveOrLoop
  BY <1>5 DEF MetSeeEmpty, MetLeaveOrLoop
<1> QED BY <1>1, <1>2, <1>3, <1>4, <1>5 DEF MetTask

LEMMA DataEnvironment == DataOK /\ Environment => DataOK'
<1> SUFFICES ASSUME DataOK, Environment
             PROVE  DataOK'
  OBVIOUS
<1> USE DEF DataOK, MainPlaces, mainVars, driverVars, poolVars, rxVars,
        metVars, linkVars
<1>1. CASE FirmwareAction
  BY <1>1 DEF FirmwareAction
<1>2. ASSUME NEW s \in Slots, DmaComplete(s)
      PROVE  DataOK'
  BY <1>2 DEF DmaComplete
<1>3. CASE TimeoutElapses
  BY <1>3 DEF TimeoutElapses
<1> QED BY <1>1, <1>2, <1>3 DEF Environment

LEMMA DataStutter == DataOK /\ UNCHANGED vars => DataOK'
BY DEF DataOK, vars, mainVars, driverVars, poolVars, rxVars, metVars, linkVars

LEMMA DataStep == DataOK /\ HoldInv /\ [Next]_vars => DataOK'
BY DataSetUp, DataTearDown, DataWatch, DataRxTask, DataMetTask,
   DataEnvironment, DataStutter DEF Next, MainLoop

LEMMA FlagsSetUp == SetUp /\ FlagsOK => FlagsOK'
<1> USE DEF FlagsOK, flagVars, linkVars, poolVars
<1>1. (SetupRefused \/ SetupDriver) /\ FlagsOK => FlagsOK'
  BY Zenon DEF SetupRefused, SetupDriver
<1>2. SetupBuffers /\ FlagsOK => FlagsOK'
  BY Zenon DEF SetupBuffers
<1>3. (SetupBuffersFail \/ StartMeteringTaskFail) /\ FlagsOK => FlagsOK'
  BY Zenon DEF SetupBuffersFail, StartMeteringTaskFail, CleanupSpiInit
<1>4. (StartMeteringTask \/ StartRxTask \/ StartRxTaskFail) /\ FlagsOK
        => FlagsOK'
  BY Zenon DEF StartMeteringTask, StartRxTask, StartRxTaskFail
<1>5. AwaitMeteringExit /\ FlagsOK => FlagsOK'
  BY Zenon DEF AwaitMeteringExit, CleanupSpiInit
<1> QED BY <1>1, <1>2, <1>3, <1>4, <1>5, Zenon DEF SetUp

LEMMA FlagsTearDown == TearDown /\ FlagsOK => FlagsOK'
BY Zenon DEF FlagsOK, flagVars, linkVars, poolVars, TearDown, StopRequest,
   AwaitRx, ForceRx, AwaitForcedRx, AwaitMetering, FreeDriver, DrainJournal,
   DeletePipeline, StopUnchanged

LEMMA FlagsWatch == Watch /\ FlagsOK => FlagsOK'
<1> USE DEF FlagsOK, flagVars, linkVars, poolVars
<1>1. PollReceiver /\ FlagsOK => FlagsOK'
  BY Zenon DEF PollReceiver
<1>2. (ConfirmStall \/ RaiseStall \/ DecideRecovery \/ ClearStall
        \/ RestartRead \/ RestartCount) /\ FlagsOK => FlagsOK'
  BY Zenon DEF ConfirmStall, RaiseStall, DecideRecovery, ClearStall,
     RestartRead, RestartCount, MainOnly
<1>3. ChooseReset /\ FlagsOK => FlagsOK'
  BY Zenon DEF ChooseReset
<1>4. (AfterFailedStop \/ SwdSessionEnds) /\ FlagsOK => FlagsOK'
  BY Zenon DEF AfterFailedStop, SwdSessionEnds
<1>5. AfterStop /\ FlagsOK => FlagsOK'
  BY Zenon DEF AfterStop
<1> QED BY <1>1, <1>2, <1>3, <1>4, <1>5, Zenon DEF Watch

LEMMA FlagsRxTask == RxTask /\ FlagsOK => FlagsOK'
BY Zenon DEF FlagsOK, mainVars, poolVars, RxTask, RxLoop, RxGet,
   RxGetNothing, RxTake, RxSend, RxRequeue, RxExit, RxUnchanged

LEMMA FlagsMetTask == MetTask /\ FlagsOK => FlagsOK'
<1> USE DEF FlagsOK, mainVars, flagVars, MetUnchanged
<1>1. (MetTake \/ MetAccept) /\ FlagsOK => FlagsOK'
  BY Zenon DEF MetTake, MetAccept
<1>2. (MetReject \/ MetGiveBack) /\ FlagsOK => FlagsOK'
  BY Zenon DEF MetReject, MetGiveBack
<1>3. (MetSeeEmpty \/ MetLeaveOrLoop) /\ FlagsOK => FlagsOK'
  BY Zenon DEF MetSeeEmpty, MetLeaveOrLoop
<1> QED BY <1>1, <1>2, <1>3, Zenon DEF MetTask

LEMMA FlagsEnvironment == Environment /\ FlagsOK => FlagsOK'
<1> USE DEF FlagsOK, mainVars, poolVars, flagVars, linkVars
<1>1. FirmwareAction /\ FlagsOK => FlagsOK'
  BY Zenon DEF FirmwareAction
<1>2. ((\E s \in Slots: DmaComplete(s)) \/ TimeoutElapses) /\ FlagsOK
        => FlagsOK'
  BY Zenon DEF DmaComplete, TimeoutElapses
<1> QED BY <1>1, <1>2, Zenon DEF Environment

LEMMA FlagsStutter == UNCHANGED vars /\ FlagsOK => FlagsOK'
BY Zenon DEF FlagsOK, vars, mainVars, poolVars, flagVars, linkVars

LEMMA FlagsStep == FlagsOK /\ [Next]_vars => FlagsOK'
BY FlagsSetUp, FlagsTearDown, FlagsWatch, FlagsRxTask, FlagsMetTask,
   FlagsEnvironment, FlagsStutter, Zenon DEF Next, MainLoop

LEMMA HoldCorrect == Spec => [](TypeOK /\ HoldInv)
<1>1. Init => TypeOK /\ HoldInv
  BY TypeInit DEF Init, HoldInv
<1>2. ControlInv /\ TypeOK /\ HoldInv /\ [Next]_vars => (TypeOK /\ HoldInv)'
  BY FlagsStep, DataStep, HoldStep DEF TypeOK
<1> QED BY <1>1, <1>2, ControlCorrect, PTL DEF Spec

(* Every variable keeps its type and the counters their bounds: no queue or *)
(* slot set is ever given a pointer that a task does not hold.              *)
THEOREM TypeCorrect == Spec => []TypeOK
BY HoldCorrect, PTL

-----------------------------------------------------------------------------
(* The driver, the queues and the frames outlive both tasks, whatever fails *)
(* or times out during setup and teardown.                                  *)
THEOREM PipelineOutlivesTasks == Spec => []NoUseAfterFree
<1>1. ControlInv => NoUseAfterFree
  BY DEF ControlInv
<1> QED BY <1>1, ControlCorrect, PTL

(* Stream state is reset and pipeline memory freed with both tasks gone.    *)
THEOREM ResetIsExclusive == Spec => []ExclusiveReset
<1>1. ControlInv => ExclusiveReset
  BY DEF ControlInv
<1> QED BY <1>1, ControlCorrect, PTL

-----------------------------------------------------------------------------
(* Ownership of the processing frames, as a relation between the queues and *)
(* the frames in the hands of the two tasks.                                *)
Apart(f, r, a, b) ==
  /\ \A i, j \in 1 .. Len(f) : f[i] = f[j] => i = j
  /\ \A i, j \in 1 .. Len(r) : r[i] = r[j] => i = j
  /\ \A i \in 1 .. Len(f), j \in 1 .. Len(r) : f[i] # r[j]
  /\ \A i \in 1 .. Len(f) : f[i] \notin {a, b}
  /\ \A i \in 1 .. Len(r) : r[i] \notin {a, b}
  /\ a # None => a # b

AllThere(f, r, a, b) == Len(f) + Len(r) + Held(a) + Held(b) = N

LEMMA OwnedIsApart ==
  FramesAreOwned <=> /\ Apart(free, ready, rxFrame, metFrame)
                     /\ pool => AllThere(free, ready, rxFrame, metFrame)
BY DEF FramesAreOwned, NoFrameShared, Apart, AllThere

(* The two queues play the same part.                                       *)
LEMMA ApartSwap ==
  ASSUME NEW f, NEW r, NEW a, NEW b, Apart(f, r, a, b)
  PROVE  Apart(r, f, b, a)
BY DEF Apart

LEMMA HeadAndTail ==
  ASSUME NEW f \in Seq(Frames), f # <<>>
  PROVE  /\ Head(f) \in Frames /\ Head(f) = f[1]
         /\ Tail(f) \in Seq(Frames) /\ Len(Tail(f)) = Len(f) - 1
         /\ Len(f) \in Nat /\ Len(f) > 0
         /\ \A i \in 1 .. Len(Tail(f)) : Tail(f)[i] = f[i + 1]
BY HeadTailProperties

LEMMA AllThereSwap ==
  ASSUME NEW f \in Seq(Frames), NEW r \in Seq(Frames), NEW a, NEW b
  PROVE  AllThere(f, r, a, b) <=> AllThere(r, f, b, a)
<1>1. Held(a) \in Nat /\ Held(b) \in Nat
  BY DEF Held
<1> QED BY <1>1 DEF AllThere

(* A task takes the head of a queue.                                        *)
LEMMA TakeHead ==
  ASSUME NEW f \in Seq(Frames), NEW r \in Seq(Frames),
         NEW b \in Frames \cup {None}, f # <<>>, Apart(f, r, None, b)
  PROVE  /\ Apart(Tail(f), r, Head(f), b)
         /\ AllThere(f, r, None, b) => AllThere(Tail(f), r, Head(f), b)
<1> DEFINE t == Tail(f)
           h == Head(f)
<1>1. /\ h \in Frames /\ h = f[1] /\ Len(t) = Len(f) - 1
      /\ Len(f) \in Nat /\ Len(f) > 0 /\ Len(r) \in Nat
      /\ \A i \in 1 .. Len(t) : t[i] = f[i + 1]
  BY HeadAndTail
<1> HIDE DEF t, h
<1>2. \A i \in 1 .. Len(t) : i + 1 \in 1 .. Len(f) /\ i + 1 # 1
  BY <1>1
<1>3. 1 \in 1 .. Len(f)
  BY <1>1
<1>4. Apart(t, r, h, b)
  <2>1. \A i, j \in 1 .. Len(t) : t[i] = t[j] => i = j
    BY <1>1, <1>2 DEF Apart
  <2>2. \A i \in 1 .. Len(t), j \in 1 .. Len(r) : t[i] # r[j]
    BY <1>1, <1>2 DEF Apart
  <2>3. \A i \in 1 .. Len(t) : t[i] \notin {h, b}
    BY <1>1, <1>2, <1>3 DEF Apart
  <2>4. \A i \in 1 .. Len(r) : r[i] \notin {h, b}
    BY <1>1, <1>3 DEF Apart
  <2>5. h # b
    BY <1>1, <1>3 DEF Apart
  <2>6. \A i, j \in 1 .. Len(r) : r[i] = r[j] => i = j
    BY DEF Apart
  <2> QED BY <2>1, <2>2, <2>3, <2>4, <2>5, <2>6 DEF Apart
<1>5. h # None
  BY <1>1, BoundsAssumption DEF Frames, None, BoundsAssumption
<1>6. Held(b) \in Nat /\ Held(h) = 1 /\ Held(None) = 0
  BY <1>5 DEF Held
<1>7. AllThere(f, r, None, b) => AllThere(t, r, h, b)
  BY <1>1, <1>6 DEF AllThere
<1> QED BY <1>4, <1>7 DEF t, h

(* A task puts its frame behind the others of a queue.                      *)
LEMMA PutLast ==
  ASSUME NEW f \in Seq(Frames), NEW r \in Seq(Frames), NEW a \in Frames,
         NEW b \in Frames \cup {None}, Apart(f, r, a, b)
  PROVE  /\ Apart(f, Append(r, a), None, b)
         /\ AllThere(f, r, a, b) => AllThere(f, Append(r, a), None, b)
<1> DEFINE q == Append(r, a)
<1>1. /\ Len(q) = Len(r) + 1 /\ Len(r) \in Nat /\ Len(f) \in Nat
      /\ q[Len(r) + 1] = a /\ \A i \in 1 .. Len(r) : q[i] = r[i]
  OBVIOUS
<1>2. a # None /\ \A i \in 1 .. Len(f) : f[i] # None
  BY BoundsAssumption DEF Frames, None, BoundsAssumption
<1>3. \A i \in 1 .. Len(r) : r[i] # None
  BY BoundsAssumption DEF Frames, None, BoundsAssumption
<1> HIDE DEF q
<1>4. \A i \in 1 .. Len(q) :
        \/ i \in 1 .. Len(r) /\ q[i] = r[i]
        \/ i = Len(r) + 1 /\ q[i] = a
  BY <1>1
<1>5. Apart(f, q, None, b)
  <2>1. \A i, j \in 1 .. Len(q) : q[i] = q[j] => i = j
    BY <1>4 DEF Apart
  <2>2. \A i \in 1 .. Len(f), j \in 1 .. Len(q) : f[i] # q[j]
    BY <1>4 DEF Apart
  <2>3. \A i \in 1 .. Len(q) : q[i] \notin {None, b}
    BY <1>2, <1>3, <1>4 DEF Apart
  <2>4. \A i \in 1 .. Len(f) : f[i] \notin {None, b}
    BY <1>2 DEF Apart
  <2>5. \A i, j \in 1 .. Len(f) : f[i] = f[j] => i = j
    BY DEF Apart
  <2> QED BY <2>1, <2>2, <2>3, <2>4, <2>5 DEF Apart
<1>6. Held(b) \in Nat /\ Held(a) = 1 /\ Held(None) = 0
  BY <1>2 DEF Held
<1>7. AllThere(f, r, a, b) => AllThere(f, q, None, b)
  BY <1>1, <1>6 DEF AllThere
<1> QED BY <1>5, <1>7 DEF q

(* With every frame accounted for, a queue has room for the one in hand.    *)
LEMMA RoomForHeld ==
  ASSUME NEW f \in Seq(Frames), NEW r \in Seq(Frames), NEW a \in Frames,
         NEW b, AllThere(f, r, a, b) \/ AllThere(f, r, b, a)
  PROVE  Len(f) < N /\ Len(r) < N
<1>1. Held(a) = 1 /\ Held(b) \in Nat
  BY BoundsAssumption DEF Held, Frames, None, BoundsAssumption
<1> QED BY <1>1, BoundsAssumption DEF AllThere, BoundsAssumption

LEMMA EmptyHands ==
  ASSUME HoldInv, ~Alive PROVE rxFrame = None /\ metFrame = None /\ rxSlot = None
BY DEF HoldInv, Alive

LEMMA OwnedInit == Init => FramesAreOwned
BY DEF Init, FramesAreOwned, NoFrameShared, None

(* Steps that leave the queues and the hands as they are.                   *)
LEMMA OwnedKept ==
  ASSUME FramesAreOwned, UNCHANGED <<free, ready, rxFrame, metFrame>>,
         pool' => pool
  PROVE  FramesAreOwned'
BY DEF FramesAreOwned, NoFrameShared, Held

(* A pool without tasks: deleted, or created with all frames free.          *)
LEMMA OwnedEmpty ==
  ASSUME HoldInv, ~Alive, UNCHANGED <<rxFrame, metFrame>>,
         free' = <<>> /\ ready' = <<>> /\ pool' = FALSE
  PROVE  FramesAreOwned'
<1>1. rxFrame' = None /\ metFrame' = None
  BY EmptyHands
<1> QED BY <1>1 DEF FramesAreOwned, NoFrameShared

LEMMA CleanupOwned ==
  ASSUME FramesAreOwned, HoldInv, ~Alive, CleanupSpiInit
  PROVE  FramesAreOwned'
<1>1. UNCHANGED <<rxFrame, metFrame>>
  BY DEF CleanupSpiInit, rxVars, metVars
<1>2. CASE free' = <<>> /\ ready' = <<>> /\ pool' = FALSE
  BY <1>1, <1>2, OwnedEmpty
<1>3. CASE UNCHANGED <<pool, free, ready>>
  BY <1>1, <1>3, OwnedKept
<1> QED BY <1>2, <1>3 DEF CleanupSpiInit, poolVars

LEMMA OwnedStep ==
  ASSUME DataOK, ControlInv, HoldInv, FramesAreOwned, [Next]_vars
  PROVE  FramesAreOwned'
<1>1. /\ Apart(free, ready, rxFrame, metFrame)
      /\ pool => AllThere(free, ready, rxFrame, metFrame)
  BY OwnedIsApart
<1>2. /\ free \in Seq(Frames) /\ ready \in Seq(Frames) /\ N \in Nat
      /\ rxFrame \in Frames \cup {None} /\ metFrame \in Frames \cup {None}
  BY BoundsAssumption DEF DataOK, BoundsAssumption
<1>3. ASSUME Apart(free', ready', rxFrame', metFrame'),
             AllThere(free, ready, rxFrame, metFrame)
               => AllThere(free', ready', rxFrame', metFrame'),
             pool' = pool
      PROVE  FramesAreOwned'
  BY <1>1, <1>3, OwnedIsApart
     DEF FramesAreOwned, NoFrameShared, Apart, AllThere, Held
<1>4. CASE SetUp
  <2>1. CASE SetupRefused \/ SetupDriver \/ StartMeteringTask \/ StartRxTask
             \/ StartRxTaskFail
    BY <2>1, OwnedKept DEF SetupRefused, SetupDriver, StartMeteringTask,
       StartRxTask, StartRxTaskFail, poolVars, rxVars, metVars
  <2>2. CASE SetupBuffers
    <3>1. rxFrame' = None /\ metFrame' = None
      BY <2>2, EmptyHands
         DEF SetupBuffers, ControlInv, ExclusiveReset, rxVars, metVars
    <3>2. free' = [i \in 1 .. N |-> i] /\ ready' = <<>>
      BY <2>2 DEF SetupBuffers
    <3>3. Len(free') = N /\ \A i \in 1 .. N : free'[i] = i /\ i # None
      BY <1>2, <3>2 DEF None
    <3>4. Len(ready') = 0
      BY <3>2
    <3> QED BY <1>2, <3>1, <3>3, <3>4 DEF FramesAreOwned, NoFrameShared, Held
  <2>3. CASE SetupBuffersFail \/ StartMeteringTaskFail
    BY <2>3, CleanupOwned DEF SetupBuffersFail, StartMeteringTaskFail,
       ControlInv, ExclusiveReset
  <2>4. CASE AwaitMeteringExit
    <3>1. rx = "off"
      BY <2>4 DEF AwaitMeteringExit, ControlInv
    <3> QED BY <2>4, <3>1, CleanupOwned, OwnedKept
            DEF AwaitMeteringExit, Alive, poolVars, rxVars, metVars
  <2> QED BY <1>4, <2>1, <2>2, <2>3, <2>4 DEF SetUp
<1>5. CASE TearDown
  <2>1. CASE DeletePipeline
    BY <2>1, OwnedEmpty
       DEF DeletePipeline, ControlInv, ExclusiveReset, rxVars, metVars
  <2>2. CASE ~DeletePipeline
    BY <1>5, <2>2, OwnedKept DEF TearDown, StopRequest, AwaitRx, ForceRx,
       AwaitForcedRx, AwaitMetering, FreeDriver, DrainJournal, StopUnchanged,
       poolVars, rxVars, metVars
  <2> QED BY <2>1, <2>2
<1>6. CASE Watch
  BY <1>6, OwnedKept DEF Watch, PollReceiver, ConfirmStall, RaiseStall,
     DecideRecovery, ClearStall, RestartRead, RestartCount, ChooseReset,
     AfterFailedStop, AfterStop, SwdSessionEnds, MainOnly, poolVars, rxVars,
     metVars
<1>7. CASE RxTask
  <2>1. metFrame' = metFrame /\ pool' = pool
    BY <1>7 DEF RxTask, RxLoop, RxGet, RxGetNothing, RxTake, RxSend, RxRequeue,
       RxExit, RxUnchanged, poolVars, metVars
  <2>2. CASE RxLoop \/ (\E s \in Slots : RxGet(s)) \/ RxGetNothing \/ RxRequeue
             \/ RxExit
    BY <2>1, <2>2, OwnedKept DEF RxLoop, RxGet, RxGetNothing, RxRequeue,
       RxExit, poolVars
  <2>3. CASE RxTake
    <3>1. ready' = ready /\ rxFrame = None
      BY <2>3 DEF RxTake, HoldInv
    <3>2. CASE free = <<>>
      BY <2>1, <2>3, <3>1, <3>2, OwnedKept DEF RxTake
    <3>3. CASE free # <<>>
      <4>1. rxFrame' = Head(free) /\ free' = Tail(free)
        BY <2>3, <3>3 DEF RxTake
      <4>2. Apart(free, ready, None, metFrame)
        BY <1>1, <3>1
      <4>3. /\ Apart(free', ready', rxFrame', metFrame')
            /\ AllThere(free, ready, rxFrame, metFrame)
                 => AllThere(free', ready', rxFrame', metFrame')
        BY <1>2, <2>1, <3>1, <3>3, <4>1, <4>2, TakeHead
      <4> QED BY <1>3, <2>1, <4>3
    <3> QED BY <3>2, <3>3
  <2>4. CASE RxSend
    <3>1. rxFrame \in Frames /\ rxFrame' = None /\ pool
      BY <1>2, <2>4 DEF RxSend, HoldInv, ControlInv, NoUseAfterFree, Alive
    <3>2. Len(ready) < N
      BY <1>1, <1>2, <3>1, RoomForHeld
    <3>3. ready' = Append(ready, rxFrame) /\ free' = free
      BY <1>2, <2>4, <3>2 DEF RxSend
    <3>4. /\ Apart(free', ready', rxFrame', metFrame')
          /\ AllThere(free, ready, rxFrame, metFrame)
               => AllThere(free', ready', rxFrame', metFrame')
      BY <1>1, <1>2, <2>1, <3>1, <3>3, PutLast
    <3> QED BY <1>3, <2>1, <3>4
  <2> QED BY <1>7, <2>2, <2>3, <2>4 DEF RxTask
<1>8. CASE MetTask
  <2>1. rxFrame' = rxFrame /\ pool' = pool
    BY <1>8 DEF MetTask, MetTake, MetAccept, MetReject, MetGiveBack,
       MetSeeEmpty, MetLeaveOrLoop, MetUnchanged, rxVars
  <2>2. CASE MetAccept \/ MetReject \/ MetSeeEmpty \/ MetLeaveOrLoop
    BY <2>1, <2>2, OwnedKept DEF MetAccept, MetReject, MetSeeEmpty,
       MetLeaveOrLoop
  <2>3. CASE MetTake
    <3>1. /\ ready # <<>> /\ free' = free /\ metFrame = None
          /\ metFrame' = Head(ready) /\ ready' = Tail(ready)
      BY <2>3 DEF MetTake, HoldInv
    <3>2. Apart(ready, free, None, rxFrame)
      BY <1>1, <3>1, ApartSwap
    <3>3. /\ Apart(ready', free', metFrame', rxFrame')
          /\ AllThere(ready, free, metFrame, rxFrame)
               => AllThere(ready', free', metFrame', rxFrame')
      BY <1>2, <2>1, <3>1, <3>2, TakeHead
    <3>4. free' \in Seq(Frames) /\ ready' \in Seq(Frames)
      BY <1>2, <3>1, HeadAndTail
    <3>5. /\ Apart(free', ready', rxFrame', metFrame')
          /\ AllThere(free, ready, rxFrame, metFrame)
               => AllThere(free', ready', rxFrame', metFrame')
      <4>1. Apart(free', ready', rxFrame', metFrame')
        BY <3>3, ApartSwap
      <4>2. /\ AllThere(free, ready, rxFrame, metFrame)
               => AllThere(ready, free, metFrame, rxFrame)
            /\ AllThere(ready', free', metFrame', rxFrame')
               => AllThere(free', ready', rxFrame', metFrame')
        BY <1>2, <3>4, AllThereSwap
      <4> QED BY <3>3, <4>1, <4>2
    <3> QED BY <1>3, <2>1, <3>5
  <2>4. CASE MetGiveBack
    <3>1. metFrame \in Frames /\ metFrame' = None /\ pool /\ ready' = ready
      BY <1>2, <2>4 DEF MetGiveBack, HoldInv, ControlInv, NoUseAfterFree, Alive
    <3>2. Len(free) < N
      BY <1>1, <1>2, <3>1, RoomForHeld
    <3>3. free' = Append(free, metFrame)
      BY <2>4, <3>2 DEF MetGiveBack
    <3>4. Apart(ready, free, metFrame, rxFrame)
      BY <1>1, ApartSwap
    <3>5. /\ Apart(ready', free', metFrame', rxFrame')
          /\ AllThere(ready, free, metFrame, rxFrame)
               => AllThere(ready', free', metFrame', rxFrame')
      BY <1>2, <2>1, <3>1, <3>3, <3>4, PutLast
    <3>6. free' \in Seq(Frames) /\ ready' \in Seq(Frames)
      BY <1>2, <3>1, <3>3
    <3>7. /\ Apart(free', ready', rxFrame', metFrame')
          /\ AllThere(free, ready, rxFrame, metFrame)
               => AllThere(free', ready', rxFrame', metFrame')
      BY <1>2, <3>5, <3>6, ApartSwap, AllThereSwap
    <3> QED BY <1>3, <2>1, <3>7
  <2> QED BY <1>8, <2>2, <2>3, <2>4 DEF MetTask
<1>9. CASE Environment \/ UNCHANGED vars
  BY <1>9, OwnedKept DEF Environment, FirmwareAction, DmaComplete,
     TimeoutElapses, vars, poolVars, rxVars, metVars
<1> QED BY <1>4, <1>5, <1>6, <1>7, <1>8, <1>9 DEF Next, MainLoop

(* Every processing frame has one owner and none leaks, for any pool size:  *)
(* whichever branch of the hand-over and of setup or teardown is taken.     *)
THEOREM FramesHaveOneOwner == Spec => []FramesAreOwned
<1>1. TypeOK /\ HoldInv /\ ControlInv /\ FramesAreOwned /\ [Next]_vars
        => FramesAreOwned'
  BY OwnedStep DEF TypeOK
<1> QED BY <1>1, OwnedInit, HoldCorrect, ControlCorrect, PTL DEF Spec

-----------------------------------------------------------------------------
LEMMA SlotsFinite ==
  ASSUME NEW T \in SUBSET Slots
  PROVE  IsFiniteSet(T) /\ Cardinality(T) \in Nat
<1>1. IsFiniteSet(Slots)
  BY FS_Interval, BoundsAssumption DEF Slots, BoundsAssumption
<1> QED BY <1>1, FS_Subset, FS_CardinalityType

LEMMA SlotAdded ==
  ASSUME NEW T \in SUBSET Slots, NEW s, s \notin T
  PROVE  Cardinality(T \cup {s}) = Cardinality(T) + 1
BY SlotsFinite, FS_AddElement

LEMMA SlotTaken ==
  ASSUME NEW T \in SUBSET Slots, NEW s \in T
  PROVE  /\ Cardinality(T) = Cardinality(T \ {s}) + 1
         /\ Cardinality(T \ {s}) \in Nat
<1>1. T \ {s} \in SUBSET Slots /\ s \notin T \ {s} /\ (T \ {s}) \cup {s} = T
  OBVIOUS
<1> QED BY <1>1, SlotAdded, SlotsFinite

LEMMA SlotsInit == Init => SlotAccounting
BY FS_EmptySet DEF Init, SlotAccounting, None

LEMMA SlotsKept ==
  ASSUME SlotAccounting, UNCHANGED <<armed, done, inflight>>,
         rxSlot' \in {rxSlot, None}, DataOK
  PROVE  SlotAccounting'
<1>1. None \notin Slots
  BY BoundsAssumption DEF Slots, None, BoundsAssumption
<1> QED BY <1>1 DEF SlotAccounting, DataOK

LEMMA SlotsEmpty ==
  ASSUME armed' = {} /\ done' = {} /\ inflight' = 0
  PROVE  SlotAccounting'
BY FS_EmptySet DEF SlotAccounting

LEMMA CleanupSlots ==
  ASSUME DataOK, SlotAccounting, CleanupSpiInit
  PROVE  SlotAccounting'
<1>1. CASE armed' = {} /\ done' = {} /\ inflight' = 0
  BY <1>1, SlotsEmpty
<1>2. CASE UNCHANGED <<armed, done, inflight>>
  BY <1>2, SlotsKept DEF CleanupSpiInit, rxVars
<1> QED BY <1>1, <1>2 DEF CleanupSpiInit

LEMMA SlotsStep ==
  ASSUME DataOK, ControlInv, HoldInv, SlotAccounting, [Next]_vars
  PROVE  SlotAccounting'
<1>1. /\ armed \in SUBSET Slots /\ done \in SUBSET Slots
      /\ Cardinality(armed) \in Nat /\ Cardinality(done) \in Nat
  BY SlotsFinite DEF DataOK
<1>2. /\ inflight = Cardinality(armed) + Cardinality(done)
      /\ armed \cap done = {} /\ rxSlot \notin armed \cup done
  BY DEF SlotAccounting
<1>3. CASE SetUp
  <2>1. CASE SetupRefused \/ SetupDriver \/ StartMeteringTask \/ StartRxTask
             \/ StartRxTaskFail
    BY <2>1, SlotsKept DEF SetupRefused, SetupDriver, StartMeteringTask,
       StartRxTask, StartRxTaskFail, driverVars, rxVars
  <2>2. CASE SetupBuffers
    <3>1. rxSlot' = None
      BY <2>2, EmptyHands DEF SetupBuffers, ControlInv, ExclusiveReset, rxVars
    <3>2. armed' = Slots /\ done' = {} /\ inflight' = N
      BY <2>2 DEF SetupBuffers
    <3>3. Cardinality(Slots) = N /\ None \notin Slots /\ N \in Nat
      BY FS_Interval, BoundsAssumption DEF Slots, None, BoundsAssumption
    <3>4. Cardinality({}) = 0
      BY FS_EmptySet
    <3> QED BY <3>1, <3>2, <3>3, <3>4 DEF SlotAccounting
  <2>3. CASE SetupBuffersFail \/ StartMeteringTaskFail
    BY <2>3, CleanupSlots DEF SetupBuffersFail, StartMeteringTaskFail
  <2>4. CASE AwaitMeteringExit
    BY <2>4, CleanupSlots, SlotsKept DEF AwaitMeteringExit, driverVars, rxVars
  <2> QED BY <1>3, <2>1, <2>2, <2>3, <2>4 DEF SetUp
<1>4. CASE TearDown
  <2>1. CASE DeletePipeline
    BY <2>1, SlotsEmpty DEF DeletePipeline
  <2>2. CASE ~DeletePipeline
    BY <1>4, <2>2, SlotsKept DEF TearDown, StopRequest, AwaitRx, ForceRx,
       AwaitForcedRx, AwaitMetering, FreeDriver, DrainJournal, StopUnchanged,
       driverVars, rxVars
  <2> QED BY <2>1, <2>2
<1>5. CASE Watch
  BY <1>5, SlotsKept DEF Watch, PollReceiver, ConfirmStall, RaiseStall,
     DecideRecovery, ClearStall, RestartRead, RestartCount, ChooseReset,
     AfterFailedStop, AfterStop, SwdSessionEnds, MainOnly, driverVars, rxVars
<1>6. CASE RxTask
  <2>1. CASE RxLoop \/ RxGetNothing \/ RxTake \/ RxSend \/ RxExit
    BY <2>1, SlotsKept DEF RxLoop, RxGetNothing, RxTake, RxSend, RxExit
  <2>2. ASSUME NEW s \in Slots, RxGet(s)
        PROVE  SlotAccounting'
    <3>1. /\ s \in done /\ done' = done \ {s} /\ armed' = armed /\ rxSlot' = s
          /\ inflight' = IF inflight > 0 THEN inflight - 1 ELSE 0
      BY <2>2 DEF RxGet
    <3>2. Cardinality(done) = Cardinality(done \ {s}) + 1
          /\ Cardinality(done \ {s}) \in Nat
      BY <1>1, <3>1, SlotTaken
    <3>3. inflight' = Cardinality(armed) + Cardinality(done \ {s})
      BY <1>1, <1>2, <3>1, <3>2
    <3>4. armed \cap (done \ {s}) = {} /\ s \notin armed \cup (done \ {s})
      BY <1>2, <3>1
    <3> QED BY <3>1, <3>3, <3>4 DEF SlotAccounting
  <2>3. CASE RxRequeue
    <3>1. rxSlot \in Slots /\ rxSlot' = None /\ done' = done
      BY <2>3 DEF RxRequeue, HoldInv, DataOK
    <3>2. CASE UNCHANGED <<armed, inflight>>
      BY <3>1, <3>2, SlotsKept
    <3>3. CASE armed' = armed \cup {rxSlot} /\ inflight' = inflight + 1
      <4>1. Cardinality(armed \cup {rxSlot}) = Cardinality(armed) + 1
        BY <1>1, <1>2, SlotAdded
      <4>2. inflight' = Cardinality(armed') + Cardinality(done')
        BY <1>1, <1>2, <3>1, <3>3, <4>1
      <4>3. None \notin Slots
        BY BoundsAssumption DEF Slots, None, BoundsAssumption
      <4>4. armed' \cap done' = {} /\ rxSlot' \notin armed' \cup done'
        BY <1>1, <1>2, <3>1, <3>3, <4>3
      <4> QED BY <4>2, <4>4 DEF SlotAccounting
    <3> QED BY <2>3, <3>2, <3>3 DEF RxRequeue
  <2> QED BY <1>6, <2>1, <2>2, <2>3 DEF RxTask
<1>7. CASE MetTask
  BY <1>7, SlotsKept DEF MetTask, MetTake, MetAccept, MetReject, MetGiveBack,
     MetSeeEmpty, MetLeaveOrLoop, MetUnchanged, driverVars, rxVars
<1>8. CASE Environment
  <2>1. CASE FirmwareAction \/ TimeoutElapses
    BY <2>1, SlotsKept DEF FirmwareAction, TimeoutElapses, driverVars, rxVars
  <2>2. ASSUME NEW s \in Slots, DmaComplete(s)
        PROVE  SlotAccounting'
    <3>1. /\ s \in armed /\ armed' = armed \ {s} /\ done' = done \cup {s}
          /\ inflight' = inflight /\ rxSlot' = rxSlot
      BY <2>2 DEF DmaComplete, rxVars
    <3>2. /\ Cardinality(armed) = Cardinality(armed \ {s}) + 1
          /\ Cardinality(armed \ {s}) \in Nat
      BY <1>1, <3>1, SlotTaken
    <3>3. Cardinality(done \cup {s}) = Cardinality(done) + 1
      BY <1>1, <1>2, <3>1, SlotAdded
    <3>4. inflight' = Cardinality(armed') + Cardinality(done')
      BY <1>1, <1>2, <3>1, <3>2, <3>3
    <3>5. armed' \cap done' = {} /\ rxSlot' \notin armed' \cup done'
      BY <1>2, <3>1
    <3> QED BY <3>4, <3>5 DEF SlotAccounting
  <2> QED BY <1>8, <2>1, <2>2 DEF Environment
<1>9. CASE UNCHANGED vars
  BY <1>9, SlotsKept DEF vars, driverVars, rxVars
<1> QED BY <1>3, <1>4, <1>5, <1>6, <1>7, <1>8, <1>9 DEF Next, MainLoop

(* The in-flight count is the number of slots the driver owns, and the task *)
(* never copies from one of them, for any number of slots.                  *)
THEOREM SlotsAreAccounted == Spec => []SlotAccounting
<1>1. TypeOK /\ HoldInv /\ ControlInv /\ SlotAccounting /\ [Next]_vars
        => SlotAccounting'
  BY SlotsStep DEF TypeOK
<1> QED BY <1>1, SlotsInit, HoldCorrect, ControlCorrect, PTL DEF Spec

-----------------------------------------------------------------------------
(* From the request to stop to the end of teardown the tasks are told to    *)
(* leave, and still are when the SWD session goes on without them gone.     *)
StopInv ==
  /\ main \in {"waitRx", "force", "waitForcedRx", "waitMet", "release",
               "drain", "delete", "stopFailed"} => rxStop /\ metStop
  /\ main = "stopped" => ~started
  /\ main = "swd" /\ started => rxStop /\ metStop

LEMMA StopInit == Init => StopInv
BY DEF Init, StopInv

LEMMA StopStep == ASSUME StopInv, [Next]_vars PROVE StopInv'
<1> USE DEF StopInv, flagVars
<1>1. CASE SetUp
  BY <1>1 DEF SetUp, SetupRefused, SetupDriver, SetupBuffers,
     SetupBuffersFail, StartMeteringTask, StartMeteringTaskFail, StartRxTask,
     StartRxTaskFail, AwaitMeteringExit, CleanupSpiInit
<1>2. CASE TearDown
  BY <1>2 DEF TearDown, StopRequest, AwaitRx, ForceRx, AwaitForcedRx,
     AwaitMetering, FreeDriver, DrainJournal, DeletePipeline, StopUnchanged
<1>3. CASE Watch
  BY <1>3 DEF Watch, PollReceiver, ConfirmStall, RaiseStall, DecideRecovery,
     ClearStall, RestartRead, RestartCount, ChooseReset, AfterFailedStop,
     AfterStop, SwdSessionEnds, MainOnly
<1>4. CASE RxTask
  BY <1>4 DEF RxTask, RxLoop, RxGet, RxGetNothing, RxTake, RxSend, RxRequeue,
     RxExit, RxUnchanged, mainVars
<1>5. CASE MetTask
  BY <1>5 DEF MetTask, MetTake, MetAccept, MetReject, MetGiveBack,
     MetSeeEmpty, MetLeaveOrLoop, MetUnchanged, mainVars
<1>6. CASE Environment \/ UNCHANGED vars
  BY <1>6 DEF Environment, FirmwareAction, DmaComplete, TimeoutElapses, vars,
     mainVars
<1> QED BY <1>1, <1>2, <1>3, <1>4, <1>5, <1>6 DEF Next, MainLoop

LEMMA StopCleared ==
  ASSUME ControlInv, [Next]_vars,
         (rxStop /\ ~rxStop') \/ (metStop /\ ~metStop')
  PROVE  ~Alive
<1> USE DEF flagVars
<1>1. ~SetUp \/ SetupBuffers
  BY DEF SetUp, SetupRefused, SetupDriver, SetupBuffersFail, StartMeteringTask,
     StartMeteringTaskFail, StartRxTask, StartRxTaskFail, AwaitMeteringExit
<1>2. ~TearDown
  BY DEF TearDown, StopRequest, AwaitRx, ForceRx, AwaitForcedRx,
     AwaitMetering, FreeDriver, DrainJournal, DeletePipeline, StopUnchanged
<1>3. ~Watch
  BY DEF Watch, PollReceiver, ConfirmStall, RaiseStall, DecideRecovery,
     ClearStall, RestartRead, RestartCount, ChooseReset, AfterFailedStop,
     AfterStop, SwdSessionEnds, MainOnly
<1>4. ~RxTask /\ ~MetTask
  BY DEF RxTask, RxLoop, RxGet, RxGetNothing, RxTake, RxSend, RxRequeue,
     RxExit, RxUnchanged, MetTask, MetTake, MetAccept, MetReject, MetGiveBack,
     MetSeeEmpty, MetLeaveOrLoop, MetUnchanged
<1>5. ~Environment /\ ~UNCHANGED vars
  BY DEF Environment, FirmwareAction, DmaComplete, TimeoutElapses, vars
<1>6. SetupBuffers
  BY <1>1, <1>2, <1>3, <1>4, <1>5 DEF Next, MainLoop
<1> QED BY <1>6 DEF SetupBuffers, ControlInv, ExclusiveReset

(* A task told to stop is never told to carry on, and an SWD session beside *)
(* a receiver that could not be stopped finds both tasks told to leave.     *)
THEOREM StopsAreFinal == Spec => StopIsFinal
<1>1. Spec => []StopInv
  BY StopInit, StopStep, PTL DEF Spec
<1>2. ControlInv /\ StopInv /\ StopInv' /\ [Next]_vars
        => [/\ (rxStop /\ ~rxStop') \/ (metStop /\ ~metStop') => ~Alive
            /\ main' = "swd" /\ started' => rxStop' /\ metStop']_vars
  BY StopCleared DEF StopInv
<1> QED BY <1>1, <1>2, ControlCorrect, PTL DEF Spec, StopIsFinal

-----------------------------------------------------------------------------
(* Where no window can be in the journal: before the receive task has       *)
(* handed over a frame, and when the main loop has drained it after both    *)
(* tasks have gone.  A pool without a driver exists only in between.        *)
JournalInv ==
  /\ main \in {"spawnMet", "spawnRx", "waitMetExit"} =>
       ready = <<>> /\ journal = 0 /\ met \notin {"process", "giveBack"}
  /\ main = "buffers" => ~pool
  /\ main = "delete" => journal = 0
  /\ driver = "absent" /\ pool => main \in {"drain", "delete"}

LEMMA JournalInit == Init => JournalInv
BY DEF Init, JournalInv

LEMMA JournalStep == ASSUME ControlInv, JournalInv, [Next]_vars PROVE JournalInv'
<1> USE DEF JournalInv, driverVars, poolVars, metVars
<1>1. CASE SetUp
  BY <1>1 DEF SetUp, SetupRefused, SetupDriver, SetupBuffers,
     SetupBuffersFail, StartMeteringTask, StartMeteringTaskFail, StartRxTask,
     StartRxTaskFail, AwaitMeteringExit, CleanupSpiInit, ControlInv,
     NoUseAfterFree, ExclusiveReset, Alive
<1>2. CASE TearDown
  BY <1>2 DEF TearDown, StopRequest, AwaitRx, ForceRx, AwaitForcedRx,
     AwaitMetering, FreeDriver, DrainJournal, DeletePipeline, StopUnchanged
<1>3. CASE Watch
  BY <1>3 DEF Watch, PollReceiver, ConfirmStall, RaiseStall, DecideRecovery,
     ClearStall, RestartRead, RestartCount, ChooseReset, AfterFailedStop,
     AfterStop, SwdSessionEnds, MainOnly
<1>4. CASE RxTask
  <2>1. UNCHANGED <<main, driver, pool, journal, met>> /\ rx # "off"
        /\ (ready' = ready \/ rx = "send")
    BY <1>4 DEF RxTask, RxLoop, RxGet, RxGetNothing, RxTake, RxSend,
       RxRequeue, RxExit, RxUnchanged, mainVars
  <2>2. main \notin {"spawnMet", "spawnRx", "waitMetExit"}
    BY <2>1 DEF ControlInv, Alive
  <2> QED BY <2>1, <2>2
<1>5. CASE MetTask
  <2>1. UNCHANGED <<main, driver, pool>> /\ met # "off"
    BY <1>5 DEF MetTask, MetTake, MetAccept, MetReject, MetGiveBack,
       MetSeeEmpty, MetLeaveOrLoop, MetUnchanged, mainVars
  <2>2. main # "delete"
    BY <2>1 DEF ControlInv, ExclusiveReset, Alive
  <2>3. ready = <<>> /\ met \notin {"process", "giveBack"}
          => /\ UNCHANGED <<ready, journal>>
             /\ met' \notin {"process", "giveBack"}
    BY <1>5 DEF MetTask, MetTake, MetAccept, MetReject, MetGiveBack,
       MetSeeEmpty, MetLeaveOrLoop
  <2> QED BY <2>1, <2>2, <2>3
<1>6. CASE Environment \/ UNCHANGED vars
  BY <1>6 DEF Environment, FirmwareAction, DmaComplete, TimeoutElapses, vars,
     mainVars
<1> QED BY <1>1, <1>2, <1>3, <1>4, <1>5, <1>6 DEF Next, MainLoop

LEMMA PoolDeleted ==
  ASSUME JournalInv, [Next]_vars, pool, ~pool'
  PROVE  journal = 0
<1> USE DEF poolVars
<1>1. ~RxTask /\ ~MetTask /\ ~Environment /\ ~UNCHANGED vars
  BY DEF RxTask, RxLoop, RxGet, RxGetNothing, RxTake, RxSend, RxRequeue,
     RxExit, MetTask, MetTake, MetAccept, MetReject, MetGiveBack, MetSeeEmpty,
     MetLeaveOrLoop, MetUnchanged, Environment, FirmwareAction, DmaComplete,
     TimeoutElapses, vars
<1>2. ~Watch
  BY DEF Watch, PollReceiver, ConfirmStall, RaiseStall, DecideRecovery,
     ClearStall, RestartRead, RestartCount, ChooseReset, AfterFailedStop,
     AfterStop, SwdSessionEnds, MainOnly
<1>3. TearDown => main = "delete"
  BY DEF TearDown, StopRequest, AwaitRx, ForceRx, AwaitForcedRx,
     AwaitMetering, FreeDriver, DrainJournal, DeletePipeline, StopUnchanged
<1>4. SetUp => main \in {"buffers", "spawnMet", "waitMetExit"}
  BY DEF SetUp, SetupRefused, SetupDriver, SetupBuffers, SetupBuffersFail,
     StartMeteringTask, StartMeteringTaskFail, StartRxTask, StartRxTaskFail,
     AwaitMeteringExit
<1> QED BY <1>1, <1>2, <1>3, <1>4 DEF Next, MainLoop, JournalInv

(* Windows that were completed are published before the journal goes.       *)
THEOREM JournalIsPublished == Spec => JournalNotLost
<1>1. ControlInv /\ JournalInv /\ [Next]_vars => JournalInv'
  BY JournalStep
<1>2. JournalInv /\ [Next]_vars => [pool /\ ~pool' => journal = 0]_vars
  BY PoolDeleted
<1> QED BY <1>1, <1>2, JournalInit, ControlCorrect, PTL DEF Spec, JournalNotLost
=============================================================================
