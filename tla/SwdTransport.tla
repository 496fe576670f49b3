------------------------------ MODULE SwdTransport -----------------------------
(***************************************************************************)
(* Memory accesses of the ESP32 to the SAMD09 over its debug port.  Every  *)
(* access is a chain of register transfers, each retried on WAIT and on a  *)
(* parity error; reads come back one transfer later; the width register    *)
(* and the register bank are only written when a copy kept on this side    *)
(* says they must.  A write that is damaged on the wire is acknowledged,   *)
(* and refused only with the access after it.                              *)
(*                                                                         *)
(* The debug port itself is external, and is taken as ADIv5 describes it:  *)
(* an answer can be fetched from its read buffer once, and what is fetched *)
(* a second time is unpredictable.  What is at an address is the address   *)
(* and the width it is read with.                                          *)
(***************************************************************************)
EXTENDS Integers, Sequences

CONSTANTS
  Addresses,     \* of the target's memory
  UnderReset,    \* connect_under_reset with a reset pin
  Variants,      \* probe variants of swd_initialize_
  Retries,       \* SWD_RETRY_COUNT
  MaxSessions,   \* bound: sessions
  MaxAccesses,   \* bound: memory accesses
  MaxFaults      \* bound: transfers that go wrong, on the wire or the bus

ASSUME SwdAssumption ==
  /\ Addresses \subseteq Nat \ {0} /\ UnderReset \in BOOLEAN
  /\ {Variants, Retries} \subseteq Nat \ {0}
  /\ {MaxSessions, MaxAccesses, MaxFaults} \subseteq Nat

VARIABLES
  phase,         \* how far the session is
  variant,       \* the probe variant in use
  held,          \* target_reset_asserted_
  op,            \* the operation under way
  todo,          \* the transfers it still needs
  attempts,      \* retries of the first of them
  selected,      \* selected_ap_bank_, or Unknown: not selected_ap_valid_
  cached,        \* cached_csw_, or Unknown
  port,          \* the debug port of the target
  fetched,       \* the answer in its read buffer has been fetched
  result,        \* of the last operation that ended
  lost,          \* the last write that was reported did not happen
  doubtful,      \* a failure left open what a cached register holds
  sessions, accesses, faults

client == <<variant, held, op, todo, attempts, selected, cached>>
bounds == <<sessions, accesses, faults>>
vars == <<phase, client, port, fetched, result, lost, doubtful, bounds>>

Sizes == 0 .. 2       \* MemSize
Unknown == -1
Junk == <<-1, -1>>    \* a value, or a register, that makes no sense
ApBank(reg) == IF reg = "IDR" THEN 15 ELSE 0
Identity == <<0, 0>>  \* what IDR reads as

ApRegisters == {"CSW", "TAR", "DRW", "IDR"}
None == [kind |-> "none", address |-> 0, size |-> 0, changes |-> FALSE]

-------------------------------------------------------------------------------
(* What an operation transfers                                             *)

Read(reg)     == [reg |-> reg, read |-> TRUE, value |-> 0]
Write(reg, v) == [reg |-> reg, read |-> FALSE, value |-> v]

\* select_ap_bank_
Select(bank) == IF selected = bank THEN <<>> ELSE <<Write("SELECT", bank)>>

\* ap_read_: the value is fetched with the transfer after the posted read.
ApRead(reg) == <<Read(reg), Read("RDBUFF")>>

\* mem_read_ and mem_write_: width, address, data.
Width(size) == IF cached = size THEN <<>> ELSE <<Write("CSW", size)>>
MemRead(address, size) ==
  Select(0) \o Width(size) \o <<Write("TAR", address)>> \o ApRead("DRW")
MemWrite(address, size) ==
  Select(0) \o Width(size) \o <<Write("TAR", address), Write("DRW", 0)>>

\* An operation changes a copied register if it has to write one.
Begin(kind, address, size, transfers) ==
  /\ op = None
  /\ op' = [kind |-> kind, address |-> address, size |-> size,
            changes |-> \E i \in 1 .. Len(transfers):
                          transfers[i].reg \in {"SELECT", "CSW"}]
  /\ todo' = transfers /\ attempts' = 0

-------------------------------------------------------------------------------
(* Sessions                                                                *)

\* Mutant: the copies survive into the next session.
EnterDebugKeepsCaches ==
  /\ port' = [port EXCEPT !.mute = FALSE]
  /\ doubtful' = FALSE /\ UNCHANGED <<selected, cached>>

\* swd_enter_debug_: a line reset makes the port listen again, and nothing is
\* assumed of its registers.
EnterDebug ==
  /\ port' = [port EXCEPT !.mute = FALSE]
  /\ doubtful' = FALSE /\ selected' = Unknown /\ cached' = Unknown

\* swd_initialize_: one probe variant, its cold plug and the IDCODE read.
Probe(number) ==
  /\ Begin("probe", 0, 0, <<Read("IDCODE")>>)
  /\ EnterDebug
  /\ variant' = number /\ held' = FALSE
  /\ lost' = FALSE
  /\ UNCHANGED <<fetched, result>>

\* prepare_pins_ and begin_swd_session_
Open ==
  /\ phase = "closed" /\ sessions < MaxSessions
  /\ phase' = "begun" /\ held' = UnderReset
  /\ sessions' = sessions + 1
  /\ UNCHANGED <<variant, op, todo, attempts, selected, cached, port, fetched,
                 result, lost, doubtful, accesses, faults>>

ProbeFirst ==
  /\ phase = "begun" /\ phase' = "probing" /\ Probe(1)
  /\ UNCHANGED bounds

ProbeNext ==
  /\ phase = "retrying" /\ phase' = "probing" /\ Probe(variant + 1)
  /\ UNCHANGED bounds

\* power_up_debug_
PowerUp ==
  /\ phase = "found" /\ phase' = "powering"
  /\ Begin("power", 0, 0, <<Write("CTRL", 0), Read("STAT")>>)
  /\ UNCHANGED <<variant, held, selected, cached, port, fetched, result, lost,
                 doubtful, bounds>>

\* finish_swd_session_ and verify_mem_ap_
Identify ==
  /\ phase = "powered" /\ phase' = "identifying"
  /\ held' = FALSE
  /\ Begin("identify", 0, 0, Select(15) \o ApRead("IDR"))
  /\ UNCHANGED <<variant, selected, cached, port, fetched, result, lost,
                 doubtful, bounds>>

\* release_pins_, after a failure or when the caller is done.
Close ==
  /\ phase \in {"open", "failed"} /\ op = None
  /\ phase' = "closed" /\ held' = FALSE
  /\ UNCHANGED <<variant, op, todo, attempts, selected, cached, port, fetched,
                 result, lost, doubtful, bounds>>

\* What callers ask for is any sequence of accesses; several of them go on
\* after one that failed.
Access ==
  /\ phase = "open" /\ accesses < MaxAccesses /\ accesses' = accesses + 1
  /\ \E a \in Addresses, s \in Sizes:
       \/ Begin("read", a, s, MemRead(a, s))
       \/ Begin("write", a, s, MemWrite(a, s))
  /\ UNCHANGED <<phase, variant, held, selected, cached, port, fetched, result,
                 lost, doubtful, sessions, faults>>

-------------------------------------------------------------------------------
(* The debug port                                                          *)

Refuses(t) ==
  /\ port.sticky
  /\ ~(t.read /\ t.reg \in {"IDCODE", "STAT"})

\* What a transfer may read: an access port read answers with the one before
\* it, and so does the read buffer, but only once.
Answers(t) ==
  IF t.reg \in ApRegisters \union {"RDBUFF"}
  THEN {port.posted} \union {v \in {Junk}: t.reg = "RDBUFF" /\ fetched}
  ELSE {Identity}

\* The register that an AP address means depends on the selected bank.
InBank(t) == port.select = ApBank(t.reg)
Memory == IF held THEN Junk ELSE <<port.tar, port.csw>>

\* A transfer that is carried out.
Performed(t) ==
  CASE t.reg = "SELECT" -> [port EXCEPT !.select = t.value]
    [] t.reg = "CSW" /\ InBank(t) -> [port EXCEPT !.csw = t.value]
    [] t.reg = "TAR" /\ InBank(t) -> [port EXCEPT !.tar = t.value]
    [] t.reg \in {"DRW", "IDR"} /\ t.read ->
         [port EXCEPT !.posted = CASE port.select = 15 -> Identity
                                   [] port.select = 0 -> Memory
                                   [] OTHER -> Junk]
    [] OTHER -> port

\* A read that is posted brings a new answer, and fetching uses it up.
Fetched(t) == \/ t.reg = "RDBUFF"
              \/ fetched /\ ~(t.read /\ t.reg \in ApRegisters)

\* After a damaged acknowledge: a read was carried out or not, and a write has
\* put some of the following bits into its register or was not carried out.
Garbled(t) ==
  IF t.read THEN {port, Performed(t)}
  ELSE {port} \union
       (CASE t.reg = "SELECT" -> {[port EXCEPT !.select = Unknown]}
          [] t.reg = "CSW" -> {[port EXCEPT !.csw = Unknown]}
          [] t.reg = "TAR" -> {[port EXCEPT !.tar = Unknown]}
          [] OTHER -> {})

-------------------------------------------------------------------------------
(* Transfers                                                               *)

Transfer == Head(todo)
Fault == faults < MaxFaults /\ faults' = faults + 1

\* The write reached the memory it was meant for.
Meant == port.select = 0 /\ <<port.tar, port.csw>> = <<op.address, op.size>>

\* What a successful transfer leaves in the copies.
Noted(t) ==
  /\ selected' = IF t.reg = "SELECT" THEN t.value ELSE selected
  /\ cached' = IF t.reg = "CSW" THEN t.value ELSE cached

\* The session goes on from an operation that succeeded.
PhaseAfter ==
  CASE phase = "probing" -> "found"
    [] phase = "powering" -> "powered"
    [] phase = "identifying" -> "open"
    [] OTHER -> phase

\* The transfer was acknowledged; the next one, or the operation is done.
Succeed(value) ==
  /\ Noted(Transfer)
  /\ todo' = Tail(todo) /\ attempts' = 0
  /\ IF Len(todo) > 1
     THEN UNCHANGED <<phase, op, result>>
     ELSE /\ op' = None /\ phase' = PhaseAfter
          /\ result' = [op |-> op, ok |-> TRUE, value |-> value]
  /\ UNCHANGED <<variant, held, doubtful, sessions, accesses>>

\* The operation fails.  A probe goes on with the next variant.
Fail(after) ==
  /\ op' = None /\ todo' = <<>> /\ attempts' = 0
  /\ port' = after
  /\ result' = [op |-> op, ok |-> FALSE, value |-> Junk]
  /\ phase' = CASE phase = "probing" /\ variant < Variants -> "retrying"
                [] phase = "open" -> "open"
                [] OTHER -> "failed"
  /\ doubtful' = (doubtful \/ op.changes)
  /\ lost' = FALSE
  /\ UNCHANGED <<variant, held, selected, cached, sessions, accesses>>

Retry(after) ==
  IF attempts + 1 = Retries
  THEN Fail(after)
  ELSE /\ attempts' = attempts + 1 /\ port' = after
       /\ UNCHANGED <<phase, variant, held, op, todo, selected, cached, result,
                      lost, doubtful, sessions, accesses>>

Heard == op # None /\ ~port.mute /\ ~Refuses(Transfer)

\* OK, and carried out.
Acknowledged ==
  /\ Heard /\ \E value \in Answers(Transfer): Succeed(value)
  /\ port' = Performed(Transfer) /\ fetched' = Fetched(Transfer)
  /\ lost' = IF Transfer.reg = "DRW" /\ ~Transfer.read THEN ~Meant ELSE lost
  /\ UNCHANGED faults

\* OK, but the data of a write is damaged or the bus refuses the access: the
\* port remembers an error.
Spoiled ==
  /\ Heard /\ Fault /\ (~Transfer.read \/ Transfer.reg = "DRW")
  /\ Succeed(Junk)
  /\ port' = [port EXCEPT !.sticky = TRUE,
                          !.posted = IF Transfer.read THEN Junk ELSE @]
  /\ fetched' = Fetched(Transfer)
  /\ lost' = IF Transfer.reg = "DRW" /\ ~Transfer.read THEN TRUE ELSE lost

\* OK, but the parity of what was read is wrong.  The transfer is repeated as it
\* is, that of the read buffer too, although its answer is used up.
DamagedRead ==
  /\ Heard /\ Fault /\ Transfer.read /\ Retry(Performed(Transfer))
  /\ fetched' = Fetched(Transfer)

\* verify_mem_ap_: an answer that is no memory access port fails the session.
Misidentified ==
  /\ Heard /\ op.kind = "identify" /\ Len(todo) = 1
  /\ \E value \in Answers(Transfer): value # Identity
  /\ Fail(Performed(Transfer)) /\ fetched' = Fetched(Transfer)
  /\ UNCHANGED faults

\* WAIT, or CTRL/STAT without the power-up acknowledge: the port is busy.
Busy ==
  /\ Heard /\ Transfer.reg \in ApRegisters \union {"RDBUFF", "STAT"}
  /\ Retry(port)
  /\ UNCHANGED <<fetched, faults>>

\* Mutant: the transfer is repeated once the error is cleared.
RefusedRetries ==
  /\ op # None /\ ~port.mute /\ Refuses(Transfer)
  /\ Retry([port EXCEPT !.sticky = FALSE])
  /\ UNCHANGED <<fetched, faults>>

\* FAULT: the error is cleared, unless that transfer goes wrong too, and the
\* operation fails.
Refused ==
  /\ op # None /\ ~port.mute /\ Refuses(Transfer)
  /\ \/ Fail([port EXCEPT !.sticky = FALSE]) /\ UNCHANGED faults
     \/ Fail(port) /\ Fault
  /\ UNCHANGED fetched

\* No acknowledge that makes sense.  The port did not hear the request, or its
\* answer was not understood; out of step, it may stay silent until the next
\* line reset.
NoAnswer ==
  /\ Heard /\ Fault
  /\ \E p \in Garbled(Transfer), mute \in BOOLEAN: Fail([p EXCEPT !.mute = mute])
  /\ fetched' \in {fetched, Fetched(Transfer)}

Unheard ==
  /\ op # None /\ port.mute /\ Fail(port)
  /\ UNCHANGED <<fetched, faults>>

-------------------------------------------------------------------------------
Init ==
  /\ phase = "closed" /\ variant = 0 /\ held = FALSE
  /\ op = None /\ todo = <<>> /\ attempts = 0
  /\ selected = Unknown /\ cached = Unknown
  /\ port \in [select: {0, 15}, csw: Sizes, tar: {Unknown}, posted: {Junk},
               sticky: BOOLEAN, mute: {TRUE}]
  /\ fetched = TRUE
  /\ result = [op |-> None, ok |-> FALSE, value |-> Junk]
  /\ lost = FALSE /\ doubtful = FALSE
  /\ sessions = 0 /\ accesses = 0 /\ faults = 0

Session == \/ Open \/ ProbeFirst \/ ProbeNext \/ PowerUp \/ Identify \/ Access
           \/ Close
Bus == \/ Acknowledged \/ Spoiled \/ DamagedRead \/ Misidentified \/ Busy
       \/ Refused \/ NoAnswer \/ Unheard
Next == Session \/ Bus

Spec == Init /\ [][Next]_vars

-------------------------------------------------------------------------------
(* Properties                                                              *)

Succeeds == op # None /\ op' = None /\ result'.ok

\* A read that succeeds delivers what is at its address in its width, although
\* the width and the bank are written only when the copies say so, after any
\* retry but one: when the answer arrives in the read buffer and is damaged on
\* the wire, dp_read_ fetches it again, which ADIv5 leaves unpredictable, and
\* reports the value.  Not covered either is what follows a failure that left
\* open whether the width or the bank was written, until the next session: the
\* copies are not dropped then.
ReadIsRight ==
  [][Succeeds /\ ~doubtful /\ ~fetched =>
       /\ op.kind = "read" => result'.value = <<op.address, op.size>>
       /\ op.kind = "identify" => result'.value = Identity]_vars

\* A write is reported before it is known to have happened, but it has happened
\* if the next operation of the session succeeds: nothing is lost without a
\* failure.
WriteIsDone == [][Succeeds /\ ~doubtful => ~lost]_vars
===============================================================================
