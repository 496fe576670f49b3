--------------------------- MODULE SwdTransportProofs ---------------------------
(***************************************************************************)
(* That a read which succeeds is right and a write that was lost fails the *)
(* next access, for any addresses, retry count and number of faults.  The  *)
(* invariant follows an operation through its transfers: which of them are *)
(* left says what the copies and the port hold by then.                    *)
(***************************************************************************)
EXTENDS SwdTransport, SequenceTheorems, TLAPS

-------------------------------------------------------------------------------
(* Sequences given element by element                                      *)

LEMMA ConcatEmpty ==
  ASSUME NEW a, NEW b
  PROVE  /\ <<>> \o <<>> = <<>>
         /\ <<a>> \o <<>> = <<a>> /\ <<>> \o <<a>> = <<a>>
         /\ <<>> \o <<a, b>> = <<a, b>>
<1> DEFINE S == {a, b}
<1>1. <<>> \in Seq(S) /\ <<a>> \in Seq(S) /\ <<a, b>> \in Seq(S)
  OBVIOUS
<1> HIDE DEF S
<1> QED BY <1>1, ConcatEmptySeq

LEMMA Concat11 ==
  ASSUME NEW a, NEW b
  PROVE  <<a>> \o <<b>> = <<a, b>>
<1> DEFINE S == {a, b}
<1>1. <<a>> \in Seq(S) /\ <<b>> \in Seq(S) /\ <<a, b>> \in Seq(S)
  OBVIOUS
<1> HIDE DEF S
<1>2. /\ <<a>> \o <<b>> \in Seq(S) /\ Len(<<a>> \o <<b>>) = 2
      /\ \A i \in 1 .. 2: (<<a>> \o <<b>>)[i] = <<a, b>>[i]
  BY <1>1, ConcatProperties, SMT
<1> QED BY <1>1, <1>2, SeqEqual

LEMMA Concat12 ==
  ASSUME NEW a, NEW b, NEW c
  PROVE  <<a>> \o <<b, c>> = <<a, b, c>>
<1> DEFINE S == {a, b, c}
<1>1. <<a>> \in Seq(S) /\ <<b, c>> \in Seq(S) /\ <<a, b, c>> \in Seq(S)
  OBVIOUS
<1> HIDE DEF S
<1>2. /\ <<a>> \o <<b, c>> \in Seq(S) /\ Len(<<a>> \o <<b, c>>) = 3
      /\ \A i \in 1 .. 3: (<<a>> \o <<b, c>>)[i] = <<a, b, c>>[i]
  BY <1>1, ConcatProperties, SMT
<1> QED BY <1>1, <1>2, SeqEqual

LEMMA Concat21 ==
  ASSUME NEW a, NEW b, NEW c
  PROVE  <<a, b>> \o <<c>> = <<a, b, c>>
<1> DEFINE S == {a, b, c}
<1>1. <<a, b>> \in Seq(S) /\ <<c>> \in Seq(S) /\ <<a, b, c>> \in Seq(S)
  OBVIOUS
<1> HIDE DEF S
<1>2. /\ <<a, b>> \o <<c>> \in Seq(S) /\ Len(<<a, b>> \o <<c>>) = 3
      /\ \A i \in 1 .. 3: (<<a, b>> \o <<c>>)[i] = <<a, b, c>>[i]
  BY <1>1, ConcatProperties, SMT
<1> QED BY <1>1, <1>2, SeqEqual

LEMMA Concat22 ==
  ASSUME NEW a, NEW b, NEW c, NEW d
  PROVE  <<a, b>> \o <<c, d>> = <<a, b, c, d>>
<1> DEFINE S == {a, b, c, d}
<1>1. <<a, b>> \in Seq(S) /\ <<c, d>> \in Seq(S) /\ <<a, b, c, d>> \in Seq(S)
  OBVIOUS
<1> HIDE DEF S
<1>2. /\ <<a, b>> \o <<c, d>> \in Seq(S) /\ Len(<<a, b>> \o <<c, d>>) = 4
      /\ \A i \in 1 .. 4: (<<a, b>> \o <<c, d>>)[i] = <<a, b, c, d>>[i]
  BY <1>1, ConcatProperties, SMT
<1> QED BY <1>1, <1>2, SeqEqual

LEMMA Concat32 ==
  ASSUME NEW a, NEW b, NEW c, NEW d, NEW e
  PROVE  <<a, b, c>> \o <<d, e>> = <<a, b, c, d, e>>
<1> DEFINE S == {a, b, c, d, e}
<1>1. <<a, b, c>> \in Seq(S) /\ <<d, e>> \in Seq(S) /\ <<a, b, c, d, e>> \in Seq(S)
  OBVIOUS
<1> HIDE DEF S
<1>2. /\ <<a, b, c>> \o <<d, e>> \in Seq(S) /\ Len(<<a, b, c>> \o <<d, e>>) = 5
      /\ \A i \in 1 .. 5: (<<a, b, c>> \o <<d, e>>)[i] = <<a, b, c, d, e>>[i]
  BY <1>1, ConcatProperties, SMT
<1> QED BY <1>1, <1>2, SeqEqual

LEMMA Heads ==
  ASSUME NEW a, NEW b, NEW c, NEW d, NEW e
  PROVE  /\ Head(<<a>>) = a /\ Len(<<a>>) = 1
         /\ Head(<<a, b>>) = a /\ Len(<<a, b>>) = 2
         /\ Tail(<<a, b>>) = <<b>>
         /\ Head(<<a, b, c>>) = a /\ Len(<<a, b, c>>) = 3
         /\ Tail(<<a, b, c>>) = <<b, c>>
         /\ Head(<<a, b, c, d>>) = a /\ Len(<<a, b, c, d>>) = 4
         /\ Tail(<<a, b, c, d>>) = <<b, c, d>>
         /\ Head(<<a, b, c, d, e>>) = a /\ Len(<<a, b, c, d, e>>) = 5
         /\ Tail(<<a, b, c, d, e>>) = <<b, c, d, e>>
         /\ ~(Len(<<a>>) > 1) /\ Len(<<a, b>>) > 1 /\ Len(<<a, b, c>>) > 1
         /\ Len(<<a, b, c, d>>) > 1 /\ Len(<<a, b, c, d, e>>) > 1
OBVIOUS

-------------------------------------------------------------------------------
(* The invariant                                                           *)

Port == [select: Int, csw: Int, tar: Int, posted: Int \X Int,
         sticky: BOOLEAN, mute: BOOLEAN]
Operation == [kind: {"none", "probe", "power", "identify", "read", "write"},
              address: Int, size: Nat, changes: BOOLEAN]

TypeInv ==
  /\ port \in Port /\ op \in Operation
  /\ selected \in Int /\ cached \in Int
  /\ held \in BOOLEAN /\ doubtful \in BOOLEAN /\ lost \in BOOLEAN

\* The target is only held before the first operation of a session.
IdleInv == /\ held => phase = "begun"
           /\ phase \in {"begun", "closed"} => op = None

\* The copies agree with the port, but for a write that is known to have been
\* damaged, until the operation that made it fails.
Agree == /\ selected # Unknown => port.select = selected
         /\ cached # Unknown => port.csw = cached
CopyInv ==
  ~doubtful /\ (op = None \/ ~op.changes \/ ~port.sticky) => Agree

\* What holds of the port if no transfer of the operation was spoiled.
Sound == ~doubtful /\ ~port.sticky

ToSelect(bank) == Write("SELECT", bank)
ToWidth == Write("CSW", op.size)
ToAddress == Write("TAR", op.address)
Post == Read("DRW")
Fetch == Read("RDBUFF")
Store == Write("DRW", 0)

\* What has been done when only these transfers of an operation are left: a
\* write that is not among them was unnecessary or has been made.
Selected == selected = 0
Wide == cached = op.size
Addressed == Selected /\ Wide /\ (Sound => port.tar = op.address)

ReadInv ==
  \/ op.changes /\ todo = <<ToSelect(0), ToWidth, ToAddress, Post, Fetch>>
  \/ op.changes /\ Wide /\ todo = <<ToSelect(0), ToAddress, Post, Fetch>>
  \/ op.changes /\ Selected /\ todo = <<ToWidth, ToAddress, Post, Fetch>>
  \/ Selected /\ Wide /\ todo = <<ToAddress, Post, Fetch>>
  \/ Addressed /\ todo = <<Post, Fetch>>
  \/ (Sound => port.posted = <<op.address, op.size>>) /\ todo = <<Fetch>>

WriteInv ==
  \/ op.changes /\ todo = <<ToSelect(0), ToWidth, ToAddress, Store>>
  \/ op.changes /\ Wide /\ todo = <<ToSelect(0), ToAddress, Store>>
  \/ op.changes /\ Selected /\ todo = <<ToWidth, ToAddress, Store>>
  \/ Selected /\ Wide /\ todo = <<ToAddress, Store>>
  \/ Addressed /\ todo = <<Store>>

IdentifyInv ==
  \/ op.changes /\ todo = <<ToSelect(15), Read("IDR"), Fetch>>
  \/ selected = 15 /\ todo = <<Read("IDR"), Fetch>>
  \/ (Sound => port.posted = Identity) /\ todo = <<Fetch>>

ProbeInv == ~op.changes /\ todo = <<Read("IDCODE")>>
PowerInv ==
  /\ ~op.changes
  /\ todo = <<Write("CTRL", 0), Read("STAT")>> \/ todo = <<Read("STAT")>>

StageInv ==
  op # None => \/ op.kind = "read" /\ ReadInv
               \/ op.kind = "write" /\ WriteInv
               \/ op.kind = "identify" /\ IdentifyInv
               \/ op.kind = "probe" /\ ProbeInv
               \/ op.kind = "power" /\ PowerInv

\* A lost write has left its error in the port, which refuses what comes next.
LostInv ==
  lost /\ ~doubtful => port.sticky /\ (op # None => Refuses(Transfer))

IInv == TypeInv /\ IdleInv /\ CopyInv /\ StageInv /\ LostInv

-------------------------------------------------------------------------------
(* What the port does with a transfer                                      *)

LEMMA PerformsWrite ==
  ASSUME TypeInv
  PROVE  /\ \A b: Performed(ToSelect(b)) = [port EXCEPT !.select = b]
         /\ Performed(ToWidth) = IF port.select = 0
              THEN [port EXCEPT !.csw = op.size] ELSE port
         /\ Performed(ToAddress) = IF port.select = 0
              THEN [port EXCEPT !.tar = op.address] ELSE port
         /\ Performed(Store) = port /\ Performed(Write("CTRL", 0)) = port
<1> USE DEF Performed, InBank, ApBank, Write
<1>1. \A b: Performed(ToSelect(b)) = [port EXCEPT !.select = b]
  BY DEF ToSelect
<1>2. Performed(ToWidth) = IF port.select = 0
                          THEN [port EXCEPT !.csw = op.size] ELSE port
  BY DEF ToWidth
<1>3. Performed(ToAddress) = IF port.select = 0
                            THEN [port EXCEPT !.tar = op.address] ELSE port
  BY DEF ToAddress
<1>4. Performed(Store) = port /\ Performed(Write("CTRL", 0)) = port
  BY DEF Store
<1> QED BY <1>1, <1>2, <1>3, <1>4

LEMMA PerformsRead ==
  ASSUME TypeInv
  PROVE  /\ \E v \in Int \X Int:
              /\ Performed(Post) = [port EXCEPT !.posted = v]
              /\ port.select = 0 => v = Memory
         /\ \E v \in Int \X Int:
              /\ Performed(Read("IDR")) = [port EXCEPT !.posted = v]
              /\ port.select = 15 => v = Identity
         /\ Performed(Fetch) = port
         /\ Performed(Read("IDCODE")) = port /\ Performed(Read("STAT")) = port
<1> USE DEF Performed, InBank, ApBank, Read
<1> DEFINE v == CASE port.select = 15 -> Identity
                  [] port.select = 0 -> Memory
                  [] OTHER -> Junk
<1>1. /\ v \in Int \X Int
      /\ port.select = 0 => v = Memory
      /\ port.select = 15 => v = Identity
  BY DEF Memory, Identity, Junk, TypeInv, Port
<1>2. Performed(Post) = [port EXCEPT !.posted = v]
  BY DEF Post
<1>3. Performed(Read("IDR")) = [port EXCEPT !.posted = v]
  OBVIOUS
<1>4. /\ Performed(Fetch) = port /\ Performed(Read("IDCODE")) = port
      /\ Performed(Read("STAT")) = port
  BY DEF Fetch
<1> HIDE DEF v
<1> QED BY <1>1, <1>2, <1>3, <1>4

-------------------------------------------------------------------------------
(* The transfers that are left                                             *)

\* The transfers an operation may be at, and what that says of it.
AtTransfer ==
  \/ Transfer = ToSelect(0) /\ op.changes
  \/ Transfer = ToSelect(15) /\ op.changes
  \/ Transfer = ToWidth /\ op.changes /\ Selected
  \/ Transfer = ToAddress /\ Selected /\ Wide
  \/ Transfer = Post /\ todo # <<Fetch>> /\ Addressed
  \/ Transfer = Store /\ op.kind = "write" /\ Addressed /\ Len(todo) = 1
  \/ Transfer = Read("IDR") /\ todo # <<Fetch>> /\ selected = 15
  \/ Transfer = Fetch
  \/ Transfer = Read("IDCODE")
  \/ Transfer = Write("CTRL", 0)
  \/ Transfer = Read("STAT")

LEMMA Distinct ==
  /\ Post # Fetch /\ Read("IDR") # Fetch
BY DEF Post, Fetch, Read

LEMMA Fields ==
  /\ \A b: /\ ToSelect(b).reg = "SELECT" /\ ~ToSelect(b).read
           /\ ToSelect(b).value = b
  /\ ToWidth.reg = "CSW" /\ ~ToWidth.read /\ ToWidth.value = op.size
  /\ ToAddress.reg = "TAR" /\ ~ToAddress.read
  /\ Post.reg = "DRW" /\ Post.read
  /\ Store.reg = "DRW" /\ ~Store.read
  /\ Fetch.reg = "RDBUFF" /\ Fetch.read
  /\ \A r: Read(r).reg = r /\ Read(r).read
  /\ Write("CTRL", 0).reg = "CTRL" /\ ~Write("CTRL", 0).read
BY DEF ToSelect, ToWidth, ToAddress, Post, Store, Fetch, Read, Write

LEMMA WhichTransfer ==
  ASSUME StageInv, op # None
  PROVE  AtTransfer
<1>1. CASE op.kind = "read"
  <2>1. ReadInv BY <1>1 DEF StageInv
  <2> QED BY <2>1, Heads, Distinct DEF ReadInv, AtTransfer, Transfer
<1>2. CASE op.kind = "write"
  <2>1. WriteInv BY <1>2 DEF StageInv
  <2> QED BY <2>1, <1>2, Heads, Distinct DEF WriteInv, AtTransfer, Transfer
<1>3. CASE op.kind = "identify"
  <2>1. IdentifyInv BY <1>3 DEF StageInv
  <2> QED BY <2>1, Heads, Distinct DEF IdentifyInv, AtTransfer, Transfer
<1>4. CASE op.kind = "probe"
  <2>1. ProbeInv BY <1>4 DEF StageInv
  <2> QED BY <2>1, Heads DEF ProbeInv, AtTransfer, Transfer
<1>5. CASE op.kind = "power"
  <2>1. PowerInv BY <1>5 DEF StageInv
  <2> QED BY <2>1, Heads DEF PowerInv, AtTransfer, Transfer
<1> QED BY <1>1, <1>2, <1>3, <1>4, <1>5 DEF StageInv

-------------------------------------------------------------------------------
(* Transfers that do not succeed                                           *)

LEMMA FailKeeps ==
  ASSUME IInv, op # None, NEW p \in Port, Fail(p),
         ~op.changes => p.select = port.select /\ p.csw = port.csw
  PROVE  IInv'
<1> USE DEF Fail
<1>1. TypeInv'
  <2>1. doubtful' \in BOOLEAN /\ lost' \in BOOLEAN
    BY Zenon
  <2>2. op' \in Operation
    BY DEF Operation, None
  <2> QED BY <2>1, <2>2 DEF IInv, TypeInv
<1>2. IdleInv' /\ StageInv'
  BY DEF IInv, IdleInv, StageInv
<1>3. CopyInv'
  BY DEF IInv, CopyInv, Agree
<1>4. LostInv'
  BY DEF LostInv
<1> QED BY <1>1, <1>2, <1>3, <1>4 DEF IInv

LEMMA RetryKeeps ==
  ASSUME IInv, op # None, NEW p \in Port, Retry(p),
         p = [port EXCEPT !.posted = p.posted], todo = <<Fetch>> => p = port
  PROVE  IInv'
<1>1. /\ p.select = port.select /\ p.csw = port.csw /\ p.tar = port.tar
      /\ p.sticky = port.sticky
  BY DEF IInv, TypeInv, Port
<1>2. CASE Fail(p)
  BY <1>1, <1>2, FailKeeps
<1>3. CASE ~Fail(p)
  <2>1. /\ port' = p
        /\ UNCHANGED <<phase, variant, held, op, todo, selected, cached, lost,
                       doubtful>>
    BY <1>3 DEF Retry
  <2>2. TypeInv' /\ IdleInv' /\ CopyInv'
    BY <1>1, <2>1 DEF IInv, TypeInv, IdleInv, CopyInv, Agree
  <2>3. StageInv'
    BY <1>1, <2>1, Distinct DEF IInv, StageInv, ReadInv, WriteInv, IdentifyInv, ProbeInv,
       PowerInv, Addressed, Selected, Wide, Sound, ToSelect, ToWidth, ToAddress
  <2>4. LostInv'
    BY <1>1, <2>1 DEF IInv, LostInv, Refuses, Transfer
  <2> QED BY <2>2, <2>3, <2>4 DEF IInv
<1> QED BY <1>2, <1>3

\* A read transfer changes no more than what is posted.
LEMMA ReadPerforms ==
  ASSUME IInv, op # None, Transfer.read
  PROVE  \E v \in Int \X Int:
           /\ Performed(Transfer) = [port EXCEPT !.posted = v]
           /\ todo = <<Fetch>> => v = port.posted
<1>1. AtTransfer /\ TypeInv
  BY WhichTransfer DEF IInv
<1>2. port = [port EXCEPT !.posted = port.posted] /\ port.posted \in Int \X Int
  BY <1>1 DEF TypeInv, Port
<1>3. Transfer \in {Post, Read("IDR"), Fetch, Read("IDCODE"), Read("STAT")}
  BY <1>1 DEF AtTransfer, ToSelect, ToWidth, ToAddress, Store, Write
<1>4. todo = <<Fetch>> => Transfer = Fetch
  BY Heads DEF Transfer
<1>5. CASE Transfer \in {Post, Read("IDR")}
  BY <1>1, <1>4, <1>5, PerformsRead, Distinct
<1>6. CASE Transfer \in {Fetch, Read("IDCODE"), Read("STAT")}
  BY <1>1, <1>2, <1>6, PerformsRead
<1> QED BY <1>3, <1>5, <1>6

LEMMA DamagedReadKeeps == IInv /\ DamagedRead => IInv'
<1> SUFFICES ASSUME IInv, DamagedRead PROVE IInv' OBVIOUS
<1>1. op # None /\ Transfer.read /\ Retry(Performed(Transfer))
  BY DEF DamagedRead, Heard
<1>2. PICK v \in Int \X Int:
        /\ Performed(Transfer) = [port EXCEPT !.posted = v]
        /\ todo = <<Fetch>> => v = port.posted
  BY <1>1, ReadPerforms
<1>3. /\ Performed(Transfer) \in Port
      /\ Performed(Transfer).posted = v
      /\ todo = <<Fetch>> => Performed(Transfer) = port
  BY <1>2 DEF IInv, TypeInv, Port
<1> QED BY <1>1, <1>2, <1>3, RetryKeeps

\* What an identification is answered with changes nothing of the port.
LEMMA MisidentifiedKeeps == IInv /\ Misidentified => IInv'
<1> SUFFICES ASSUME IInv, Misidentified PROVE IInv' OBVIOUS
<1>1. op # None /\ op.kind = "identify" /\ Len(todo) = 1 /\ TypeInv
  BY DEF Misidentified, Heard, IInv
<1>2. todo = <<Fetch>>
  <2>1. IdentifyInv BY <1>1 DEF IInv, StageInv
  <2> QED BY <1>1, <2>1, Heads DEF IdentifyInv
<1>3. Performed(Transfer) = port
  <2>1. Transfer = Fetch BY <1>2, Heads DEF Transfer
  <2> QED BY <1>1, <2>1, PerformsRead
<1>4. Fail(port) /\ port \in Port
  BY <1>1, <1>3 DEF Misidentified, TypeInv
<1> QED BY <1>1, <1>4, FailKeeps

LEMMA BusyKeeps == IInv /\ Busy => IInv'
<1> SUFFICES ASSUME IInv, Busy PROVE IInv' OBVIOUS
<1>1. op # None /\ Retry(port)
  BY DEF Busy, Heard
<1>2. port \in Port /\ port = [port EXCEPT !.posted = port.posted]
  BY DEF IInv, TypeInv, Port
<1> QED BY <1>1, <1>2, RetryKeeps

LEMMA RefusedKeeps == IInv /\ (Refused \/ Unheard) => IInv'
<1> SUFFICES ASSUME IInv, Refused \/ Unheard PROVE IInv' OBVIOUS
<1> DEFINE cleared == [port EXCEPT !.sticky = FALSE]
<1>1. /\ port \in Port /\ cleared \in Port
      /\ cleared.select = port.select /\ cleared.csw = port.csw
  BY DEF IInv, TypeInv, Port
<1>2. op # None /\ (Fail(cleared) \/ Fail(port))
  BY DEF Refused, Unheard
<1> HIDE DEF cleared
<1> QED BY <1>1, <1>2, FailKeeps

LEMMA NoAnswerKeeps == IInv /\ NoAnswer => IInv'
<1> SUFFICES ASSUME IInv, NoAnswer PROVE IInv' OBVIOUS
<1>1. op # None /\ TypeInv /\ AtTransfer
  BY WhichTransfer DEF NoAnswer, Heard, IInv
<1>2. PICK p \in Garbled(Transfer), mute \in BOOLEAN: Fail([p EXCEPT !.mute = mute])
  BY DEF NoAnswer
<1>3. p \in Port /\ (~op.changes => p.select = port.select /\ p.csw = port.csw)
  <2>1. CASE Transfer.read
    BY <1>1, <1>2, <2>1, ReadPerforms DEF Garbled, TypeInv, Port
  <2>2. CASE ~Transfer.read
    <3>1. ~op.changes => Transfer.reg \notin {"SELECT", "CSW"}
      BY <1>1 DEF AtTransfer, ToAddress, Post, Store, Fetch, Read, Write
    <3> QED BY <1>1, <1>2, <2>2, <3>1 DEF Garbled, TypeInv, Port, Unknown
  <2> QED BY <2>1, <2>2
<1>4. /\ [p EXCEPT !.mute = mute] \in Port
      /\ [p EXCEPT !.mute = mute].select = p.select
      /\ [p EXCEPT !.mute = mute].csw = p.csw
  BY <1>3 DEF Port
<1> QED BY <1>1, <1>2, <1>3, <1>4, FailKeeps

-------------------------------------------------------------------------------
(* Transfers that succeed                                                  *)

\* A transfer that the port carries out finds it without an error, but for
\* the two reads which are never refused.
LEMMA HeardSound ==
  ASSUME IInv, Heard
  PROVE  /\ op # None
         /\ \/ ~port.sticky
            \/ Transfer \in {Read("IDCODE"), Read("STAT")} /\ ~op.changes
         /\ Agree \/ doubtful
         /\ ~doubtful => ~lost
<1>1. op # None /\ ~Refuses(Transfer) /\ AtTransfer
  BY WhichTransfer DEF Heard, IInv
<1>2. port.sticky => Transfer \in {Read("IDCODE"), Read("STAT")}
  BY <1>1 DEF AtTransfer, Refuses, ToSelect, ToWidth, ToAddress, Post, Store,
              Fetch, Read, Write
<1>3. Transfer \in {Read("IDCODE"), Read("STAT")} => ~op.changes
  <2>1. op.kind = "read" => Transfer.reg \notin {"IDCODE", "STAT"}
    BY <1>1, Heads DEF IInv, StageInv, ReadInv, Transfer, ToSelect, ToWidth,
       ToAddress, Post, Fetch, Read, Write
  <2>2. op.kind = "write" => Transfer.reg \notin {"IDCODE", "STAT"}
    BY <1>1, Heads DEF IInv, StageInv, WriteInv, Transfer, ToSelect, ToWidth,
       ToAddress, Store, Read, Write
  <2>3. op.kind = "identify" => Transfer.reg \notin {"IDCODE", "STAT"}
    BY <1>1, Heads DEF IInv, StageInv, IdentifyInv, Transfer, ToSelect, Fetch,
       Read, Write
  <2>4. op.kind \in {"read", "write", "identify"} \/ ~op.changes
    BY <1>1 DEF IInv, StageInv, ProbeInv, PowerInv
  <2> QED BY <2>1, <2>2, <2>3, <2>4 DEF Read
<1> QED BY <1>1, <1>2, <1>3 DEF IInv, CopyInv, LostInv

\* What success does beside the stage of the operation.
LEMMA SucceedMoves ==
  ASSUME IInv, op # None, NEW v, Succeed(v)
  PROVE  /\ UNCHANGED <<variant, held, doubtful>>
         /\ todo' = Tail(todo)
         /\ Len(todo) > 1 => op' = op /\ phase' = phase
         /\ ~(Len(todo) > 1) => op' = None /\ phase' \notin {"begun", "closed"}
         /\ selected' = IF Transfer.reg = "SELECT" THEN Transfer.value ELSE selected
         /\ cached' = IF Transfer.reg = "CSW" THEN Transfer.value ELSE cached
BY DEF Succeed, Noted, IInv, IdleInv, PhaseAfter

LEMMA SucceedIdle ==
  ASSUME IInv, op # None, NEW v, Succeed(v)
  PROVE  IdleInv'
BY SucceedMoves DEF IInv, IdleInv

LEMMA SucceedType ==
  ASSUME IInv, op # None, NEW v, Succeed(v)
  PROVE  /\ op' \in Operation
         /\ selected' \in Int /\ cached' \in Int
         /\ held' \in BOOLEAN /\ doubtful' \in BOOLEAN
<1>1. AtTransfer BY WhichTransfer DEF IInv
<1>2. Transfer.reg \in {"SELECT", "CSW"} => Transfer.value \in Int
  BY <1>1 DEF AtTransfer, ToSelect, ToWidth, ToAddress, Post, Store, Fetch,
              Read, Write, IInv, TypeInv, Operation
<1>3. op' \in Operation
  <2>1. None \in Operation BY DEF None, Operation
  <2> QED BY <2>1, SucceedMoves DEF IInv, TypeInv
<1> QED BY <1>2, <1>3, SucceedMoves DEF IInv, TypeInv

LEMMA AcknowledgedPort ==
  ASSUME IInv, Acknowledged
  PROVE  TypeInv' /\ CopyInv' /\ LostInv' /\ IdleInv'
<1>0. PICK value \in Answers(Transfer): Succeed(value)
  BY DEF Acknowledged
<1>1. /\ op # None /\ AtTransfer /\ TypeInv /\ Succeed(value)
      /\ Heard /\ port' = Performed(Transfer)
  BY <1>0, WhichTransfer DEF Acknowledged, Heard, IInv
<1>2. /\ doubtful' = doubtful
      /\ selected' = IF Transfer.reg = "SELECT" THEN Transfer.value ELSE selected
      /\ cached' = IF Transfer.reg = "CSW" THEN Transfer.value ELSE cached
  BY <1>1, SucceedMoves
<1>3. port' \in Port /\ (Agree => Agree')
  <2>1. CASE Transfer \in {ToSelect(0), ToSelect(15)}
    <3>1. PICK b \in {0, 15}: Transfer = ToSelect(b) BY <2>1
    <3>2. port' = [port EXCEPT !.select = b] /\ selected' = b /\ cached' = cached
      BY <1>1, <1>2, <3>1, PerformsWrite, Fields
    <3> QED BY <1>1, <3>2 DEF Agree, TypeInv, Port
  <2>2. CASE Transfer = ToWidth /\ Selected
    <3>1. cached' = op.size /\ selected' = selected /\ Selected
      BY <1>1, <1>2, <2>2, Fields
    <3>2. port' = IF port.select = 0 THEN [port EXCEPT !.csw = op.size] ELSE port
      BY <1>1, <2>2, PerformsWrite
    <3> QED BY <1>1, <3>1, <3>2 DEF Agree, TypeInv, Port, Operation, Selected,
                                    Unknown
  <2>3. CASE Transfer = ToAddress
    <3>1. cached' = cached /\ selected' = selected
      BY <1>1, <1>2, <2>3, Fields
    <3>2. port' = IF port.select = 0 THEN [port EXCEPT !.tar = op.address] ELSE port
      BY <1>1, <2>3, PerformsWrite
    <3> QED BY <1>1, <3>1, <3>2 DEF Agree, TypeInv, Port, Operation
  <2>4. CASE Transfer \in {Post, Read("IDR")}
    <3>1. cached' = cached /\ selected' = selected
      BY <1>1, <1>2, <2>4, Fields
    <3>2. PICK v \in Int \X Int: port' = [port EXCEPT !.posted = v]
      BY <1>1, <2>4, PerformsRead
    <3> QED BY <1>1, <3>1, <3>2 DEF Agree, TypeInv, Port
  <2>5. CASE Transfer \in {Store, Fetch, Read("IDCODE"), Read("STAT"),
                           Write("CTRL", 0)}
    <3>1. cached' = cached /\ selected' = selected
      BY <1>1, <1>2, <2>5, Fields
    <3>2. port' = port
      BY <1>1, <2>5, PerformsRead, PerformsWrite
    <3> QED BY <1>1, <3>1, <3>2 DEF Agree, TypeInv
  <2> QED BY <1>1, <2>1, <2>2, <2>3, <2>4, <2>5 DEF AtTransfer
<1>4. lost' \in BOOLEAN /\ (~doubtful => ~lost')
  <2>1. CASE Transfer.reg = "DRW" /\ ~Transfer.read
    <3>0. Transfer = Store
      BY <1>1, <2>1 DEF AtTransfer, ToSelect, ToWidth, ToAddress, Post, Store,
                        Fetch, Read, Write
    <3>1. Addressed
      BY <1>1, <3>0 DEF AtTransfer, ToSelect, ToWidth, ToAddress, Post, Store,
                        Fetch, Read, Write
    <3>2. ~doubtful => ~port.sticky /\ Agree
      BY <1>1, <3>0, HeardSound DEF Store, Read, Write
    <3>3. ~doubtful => Meant
      BY <3>1, <3>2, <1>1 DEF Addressed, Selected, Wide, Sound, Agree, Meant,
         Unknown, TypeInv, Operation
    <3>4. lost' = ~Meant
      BY <2>1 DEF Acknowledged
    <3> QED BY <3>3, <3>4, Zenon
  <2>2. CASE ~(Transfer.reg = "DRW" /\ ~Transfer.read)
    <3>1. lost' = lost
      BY <2>2 DEF Acknowledged
    <3> QED BY <1>1, <3>1, HeardSound DEF TypeInv
  <2> QED BY <2>1, <2>2
<1>5. TypeInv'
  BY <1>1, <1>3, <1>4, SucceedType DEF TypeInv
<1>6. CopyInv'
  BY <1>1, <1>2, <1>3, HeardSound DEF CopyInv
<1>7. LostInv'
  BY <1>2, <1>4 DEF LostInv
<1> QED BY <1>1, <1>5, <1>6, <1>7, SucceedIdle

\* An operation that goes on is one stage further.
LEMMA StageMoves ==
  ASSUME IInv, op # None, NEW v, Succeed(v), Len(todo) > 1,
         Sound' => Sound /\ port' = Performed(Transfer)
  PROVE  op' = op /\ StageInv'
<1>1. AtTransfer /\ TypeInv /\ ~held /\ (Sound => Agree)
  BY WhichTransfer DEF IInv, IdleInv, CopyInv, Sound, TypeInv
<1>2. /\ op' = op /\ todo' = Tail(todo) /\ UNCHANGED <<held, doubtful>>
      /\ selected' = IF Transfer.reg = "SELECT" THEN Transfer.value ELSE selected
      /\ cached' = IF Transfer.reg = "CSW" THEN Transfer.value ELSE cached
  BY SucceedMoves
<1>3. ToWidth' = ToWidth /\ ToAddress' = ToAddress
  BY <1>2 DEF ToWidth, ToAddress
<1>4. /\ Transfer = ToSelect(0) => Selected' /\ (Wide => Wide')
      /\ Transfer = ToSelect(15) => selected' = 15
  BY <1>2, Fields DEF Selected, Wide
<1>5. Transfer = ToWidth => Wide' /\ (Selected => Selected')
  BY <1>2, Fields DEF Selected, Wide
<1>6. ASSUME Transfer = ToAddress, Selected, Wide PROVE Addressed'
  <2>1. Selected' /\ Wide'
    BY <1>2, <1>6, Fields DEF Selected, Wide
  <2>2. Sound' => port'.tar = op.address
    BY <1>1, <1>6, PerformsWrite DEF Agree, Selected, Unknown, TypeInv, Port
  <2> QED BY <1>2, <2>1, <2>2 DEF Addressed
<1>7. ASSUME Transfer = Post, Addressed
      PROVE  Sound' => port'.posted = <<op.address, op.size>>
  <2> SUFFICES ASSUME Sound' PROVE port'.posted = <<op.address, op.size>>
    OBVIOUS
  <2>1. port.select = 0 /\ port.csw = op.size /\ port.tar = op.address
    BY <1>1, <1>7 DEF Addressed, Selected, Wide, Agree, Unknown, TypeInv, Operation
  <2>2. PICK w \in Int \X Int:
          /\ Performed(Post) = [port EXCEPT !.posted = w]
          /\ port.select = 0 => w = Memory
    BY <1>1, PerformsRead
  <2> QED BY <1>1, <1>7, <2>1, <2>2 DEF Memory, TypeInv, Port
<1>8. ASSUME Transfer = Read("IDR"), selected = 15
      PROVE  Sound' => port'.posted = Identity
  <2>1. PICK w \in Int \X Int:
          /\ Performed(Read("IDR")) = [port EXCEPT !.posted = w]
          /\ port.select = 15 => w = Identity
    BY <1>1, PerformsRead
  <2> QED BY <1>1, <1>8, <2>1 DEF Agree, Unknown, TypeInv, Port
<1>9. CASE op.kind = "read"
  <2>1. ReadInv BY <1>9 DEF IInv, StageInv, Operation
  <2>2. ReadInv'
    <3>1. CASE op.changes /\ todo = <<ToSelect(0), ToWidth, ToAddress, Post, Fetch>>
      BY <1>2, <1>3, <1>4, <3>1, Heads DEF ReadInv, Transfer
    <3>2. CASE op.changes /\ Wide /\ todo = <<ToSelect(0), ToAddress, Post, Fetch>>
      BY <1>2, <1>3, <1>4, <3>2, Heads DEF ReadInv, Transfer
    <3>3. CASE op.changes /\ Selected /\ todo = <<ToWidth, ToAddress, Post, Fetch>>
      BY <1>2, <1>3, <1>5, <3>3, Heads DEF ReadInv, Transfer
    <3>4. CASE Selected /\ Wide /\ todo = <<ToAddress, Post, Fetch>>
      BY <1>2, <1>6, <3>4, Heads DEF ReadInv, Transfer
    <3>5. CASE Addressed /\ todo = <<Post, Fetch>>
      BY <1>2, <1>7, <3>5, Heads DEF ReadInv, Transfer
    <3>6. todo # <<Fetch>> BY Heads
    <3> QED BY <2>1, <3>1, <3>2, <3>3, <3>4, <3>5, <3>6 DEF ReadInv
  <2> QED BY <1>2, <1>9, <2>2 DEF StageInv
<1>10. CASE op.kind = "write"
  <2>1. WriteInv BY <1>10 DEF IInv, StageInv, Operation
  <2>2. WriteInv'
    <3>1. CASE op.changes /\ todo = <<ToSelect(0), ToWidth, ToAddress, Store>>
      BY <1>2, <1>3, <1>4, <3>1, Heads DEF WriteInv, Transfer
    <3>2. CASE op.changes /\ Wide /\ todo = <<ToSelect(0), ToAddress, Store>>
      BY <1>2, <1>3, <1>4, <3>2, Heads DEF WriteInv, Transfer
    <3>3. CASE op.changes /\ Selected /\ todo = <<ToWidth, ToAddress, Store>>
      BY <1>2, <1>3, <1>5, <3>3, Heads DEF WriteInv, Transfer
    <3>4. CASE Selected /\ Wide /\ todo = <<ToAddress, Store>>
      BY <1>2, <1>6, <3>4, Heads DEF WriteInv, Transfer
    <3>5. todo # <<Store>> BY Heads
    <3> QED BY <2>1, <3>1, <3>2, <3>3, <3>4, <3>5 DEF WriteInv
  <2> QED BY <1>2, <1>10, <2>2 DEF StageInv
<1>11. CASE op.kind = "identify"
  <2>1. IdentifyInv BY <1>11 DEF IInv, StageInv, Operation
  <2>2. IdentifyInv'
    <3>1. CASE op.changes /\ todo = <<ToSelect(15), Read("IDR"), Fetch>>
      BY <1>2, <1>4, <3>1, Heads DEF IdentifyInv, Transfer
    <3>2. CASE selected = 15 /\ todo = <<Read("IDR"), Fetch>>
      BY <1>2, <1>8, <3>2, Heads DEF IdentifyInv, Transfer
    <3>3. todo # <<Fetch>> BY Heads
    <3> QED BY <2>1, <3>1, <3>2, <3>3 DEF IdentifyInv
  <2> QED BY <1>2, <1>11, <2>2 DEF StageInv
<1>12. CASE op.kind = "probe"
  <2>1. ProbeInv BY <1>12 DEF IInv, StageInv
  <2>2. Len(<<Read("IDCODE")>>) = 1 OBVIOUS
  <2> QED BY <2>1, <2>2 DEF ProbeInv
<1>13. CASE op.kind = "power"
  <2>1. PowerInv BY <1>13 DEF IInv, StageInv
  <2>2. /\ Tail(<<Write("CTRL", 0), Read("STAT")>>) = <<Read("STAT")>>
        /\ ~(Len(<<Read("STAT")>>) > 1)
    OBVIOUS
  <2>3. todo' = <<Read("STAT")>> /\ ~op'.changes
    BY <1>2, <2>1, <2>2 DEF PowerInv
  <2>4. PowerInv' BY <2>3 DEF PowerInv
  <2> QED BY <1>2, <1>13, <2>4 DEF StageInv
<1> QED BY <1>2, <1>9, <1>10, <1>11, <1>12, <1>13 DEF IInv, StageInv

LEMMA AcknowledgedKeeps == IInv /\ Acknowledged => IInv'
<1> SUFFICES ASSUME IInv, Acknowledged PROVE IInv' OBVIOUS
<1>0. PICK value \in Answers(Transfer): Succeed(value)
  BY DEF Acknowledged
<1>1. /\ op # None /\ TypeInv /\ Succeed(value)
      /\ port' = Performed(Transfer)
  BY <1>0 DEF Acknowledged, Heard, IInv
<1>2. Sound' => Sound
  <2>1. Performed(Transfer).sticky = port.sticky
    BY <1>1 DEF Performed, TypeInv, Port
  <2>2. doubtful' = doubtful BY <1>1, SucceedMoves
  <2> QED BY <1>1, <2>1, <2>2 DEF Sound
<1>3. StageInv'
  <2>1. CASE Len(todo) > 1
    BY <1>1, <1>2, <2>1, StageMoves
  <2>2. CASE ~(Len(todo) > 1)
    BY <1>1, <2>2, SucceedMoves DEF StageInv
  <2> QED BY <2>1, <2>2
<1> QED BY <1>3, AcknowledgedPort DEF IInv

\* A copied register is never the last that an operation writes.
LEMMA Changes ==
  ASSUME StageInv, op # None, Transfer.reg \in {"SELECT", "CSW"}
  PROVE  op.changes /\ Len(todo) > 1
<1> DEFINE Goal == op.changes /\ Len(todo) > 1
<1>1. CASE op.kind = "read" /\ ReadInv
  <2>1. Goal \/ todo = <<ToAddress, Post, Fetch>> \/ todo = <<Post, Fetch>>
        \/ todo = <<Fetch>>
    BY <1>1, Heads DEF ReadInv
  <2>2. Goal \/ Transfer \in {ToAddress, Post, Fetch}
    BY <2>1, Heads DEF Transfer
  <2> QED BY <2>2, Fields
<1>2. CASE op.kind = "write" /\ WriteInv
  <2>1. Transfer \in {ToAddress, Store} \/ Goal
    BY <1>2, Heads DEF WriteInv, Transfer
  <2> QED BY <2>1, Fields
<1>3. CASE op.kind = "identify" /\ IdentifyInv
  <2>1. Transfer \in {Read("IDR"), Fetch} \/ Goal
    BY <1>3, Heads DEF IdentifyInv, Transfer
  <2> QED BY <2>1, Fields
<1>4. CASE op.kind = "probe" /\ ProbeInv
  <2>1. Transfer = Read("IDCODE")
    BY <1>4, Heads DEF ProbeInv, Transfer
  <2> QED BY <2>1, Fields
<1>5. CASE op.kind = "power" /\ PowerInv
  <2>1. Transfer \in {Write("CTRL", 0), Read("STAT")}
    BY <1>5, Heads DEF PowerInv, Transfer
  <2> QED BY <2>1, Fields
<1> QED BY <1>1, <1>2, <1>3, <1>4, <1>5 DEF StageInv

\* A spoiled transfer leaves its error behind, and the next one is refused.
LEMMA SpoiledKeeps == IInv /\ Spoiled => IInv'
<1> SUFFICES ASSUME IInv, Spoiled PROVE IInv' OBVIOUS
<1>1. /\ op # None /\ TypeInv /\ Succeed(Junk) /\ AtTransfer /\ Heard
      /\ ~Transfer.read \/ Transfer.reg = "DRW"
  BY WhichTransfer DEF Spoiled, Heard, IInv
<1>2. /\ port' = [port EXCEPT !.sticky = TRUE,
                             !.posted = IF Transfer.read THEN Junk ELSE @]
      /\ lost' = IF Transfer.reg = "DRW" /\ ~Transfer.read THEN TRUE ELSE lost
  BY DEF Spoiled
<1>3. /\ port' \in Port /\ port'.sticky
      /\ port'.select = port.select /\ port'.csw = port.csw
  <2> DEFINE w == IF Transfer.read THEN Junk ELSE port.posted
  <2>1. w \in Int \X Int
    BY <1>1 DEF TypeInv, Port, Junk
  <2>2. port' = [port EXCEPT !.sticky = TRUE, !.posted = w]
    BY <1>2
  <2> HIDE DEF w
  <2> QED BY <1>1, <2>1, <2>2 DEF TypeInv, Port
<1>4. /\ todo' = Tail(todo) /\ UNCHANGED doubtful
      /\ Len(todo) > 1 => op' = op
      /\ ~(Len(todo) > 1) => op' = None
      /\ selected' = IF Transfer.reg = "SELECT" THEN Transfer.value ELSE selected
      /\ cached' = IF Transfer.reg = "CSW" THEN Transfer.value ELSE cached
  BY <1>1, SucceedMoves
<1>5. TypeInv'
  <2>1. lost' \in BOOLEAN BY <1>1, <1>2 DEF TypeInv
  <2> QED BY <1>1, <1>3, <2>1, SucceedType DEF TypeInv
<1>6. StageInv'
  <2>1. CASE Len(todo) > 1
    BY <1>1, <1>3, <2>1, StageMoves DEF Sound
  <2>2. CASE ~(Len(todo) > 1)
    BY <1>4, <2>2 DEF StageInv
  <2> QED BY <2>1, <2>2
<1>7. CopyInv'
  <2>1. CASE Transfer.reg \in {"SELECT", "CSW"}
    <3>1. op.changes /\ Len(todo) > 1
      BY <1>1, <2>1, Changes DEF IInv
    <3> QED BY <1>1, <1>3, <1>4, <3>1 DEF CopyInv, None
  <2>2. CASE Transfer.reg \notin {"SELECT", "CSW"}
    <3>1. UNCHANGED <<selected, cached>> BY <1>4, <2>2
    <3> QED BY <1>1, <1>3, <1>4, <3>1, HeardSound DEF CopyInv, Agree
  <2> QED BY <2>1, <2>2
<1>8. LostInv'
  <2>1. CASE Transfer.reg = "DRW" /\ ~Transfer.read
    <3>1. Transfer = Store
      BY <1>1, <2>1 DEF AtTransfer, ToSelect, ToWidth, ToAddress, Post, Store,
                        Fetch, Read, Write
    <3>2. Len(todo) = 1
      BY <1>1, <3>1 DEF AtTransfer, ToSelect, ToWidth, ToAddress, Post, Store,
                        Fetch, Read, Write
    <3> QED BY <1>3, <1>4, <3>2 DEF LostInv
  <2>2. CASE ~(Transfer.reg = "DRW" /\ ~Transfer.read)
    <3>1. lost' = lost BY <1>2, <2>2
    <3> QED BY <1>1, <1>4, <3>1, HeardSound DEF LostInv
  <2> QED BY <2>1, <2>2
<1> QED BY <1>1, <1>5, <1>6, <1>7, <1>8, SucceedIdle DEF IInv

-------------------------------------------------------------------------------
(* Operations that begin                                                   *)

\* What an access to the memory transfers.
LEMMA Accesses ==
  ASSUME NEW a, NEW z
  PROVE  LET s == ToSelect(0) w == Write("CSW", z) t == Write("TAR", a) IN
         /\ selected = 0 /\ cached = z =>
              /\ MemRead(a, z) = <<t, Post, Fetch>>
              /\ MemWrite(a, z) = <<t, Store>>
         /\ selected = 0 /\ cached # z =>
              /\ MemRead(a, z) = <<w, t, Post, Fetch>>
              /\ MemWrite(a, z) = <<w, t, Store>>
         /\ selected # 0 /\ cached = z =>
              /\ MemRead(a, z) = <<s, t, Post, Fetch>>
              /\ MemWrite(a, z) = <<s, t, Store>>
         /\ selected # 0 /\ cached # z =>
              /\ MemRead(a, z) = <<s, w, t, Post, Fetch>>
              /\ MemWrite(a, z) = <<s, w, t, Store>>
<1> DEFINE s == ToSelect(0) w == Write("CSW", z) t == Write("TAR", a)
<1>1. /\ Select(0) = IF selected = 0 THEN <<>> ELSE <<s>>
      /\ Width(z) = IF cached = z THEN <<>> ELSE <<w>>
      /\ MemRead(a, z) = Select(0) \o Width(z) \o <<t>> \o <<Post, Fetch>>
      /\ MemWrite(a, z) = Select(0) \o Width(z) \o <<t, Store>>
  BY DEF Select, Width, MemRead, MemWrite, ApRead, ToSelect, Post, Fetch, Store
<1> HIDE DEF s, w, t
<1>2. ASSUME selected = 0, cached = z
      PROVE  /\ MemRead(a, z) = <<t, Post, Fetch>>
             /\ MemWrite(a, z) = <<t, Store>>
  <2>1. Select(0) = <<>> /\ Width(z) = <<>>
    BY <1>1, <1>2
  <2>2. Select(0) \o Width(z) = <<>>
    BY <2>1, ConcatEmpty
  <2>3. <<>> \o <<t>> = <<t>>
    BY ConcatEmpty
  <2>4. <<t>> \o <<Post, Fetch>> = <<t, Post, Fetch>>
    BY Concat12
  <2>5. <<>> \o <<t, Store>> = <<t, Store>>
    BY ConcatEmpty
  <2> QED BY <1>1, <2>2, <2>3, <2>4, <2>5, Zenon
<1>3. ASSUME selected = 0, cached # z
      PROVE  /\ MemRead(a, z) = <<w, t, Post, Fetch>>
             /\ MemWrite(a, z) = <<w, t, Store>>
  <2>1. Select(0) = <<>> /\ Width(z) = <<w>>
    BY <1>1, <1>3
  <2>2. Select(0) \o Width(z) = <<w>>
    BY <2>1, ConcatEmpty
  <2>3. <<w>> \o <<t>> = <<w, t>>
    BY Concat11
  <2>4. <<w, t>> \o <<Post, Fetch>> = <<w, t, Post, Fetch>>
    BY Concat22
  <2>5. <<w>> \o <<t, Store>> = <<w, t, Store>>
    BY Concat12
  <2> QED BY <1>1, <2>2, <2>3, <2>4, <2>5, Zenon
<1>4. ASSUME selected # 0, cached = z
      PROVE  /\ MemRead(a, z) = <<s, t, Post, Fetch>>
             /\ MemWrite(a, z) = <<s, t, Store>>
  <2>1. Select(0) = <<s>> /\ Width(z) = <<>>
    BY <1>1, <1>4
  <2>2. Select(0) \o Width(z) = <<s>>
    BY <2>1, ConcatEmpty
  <2>3. <<s>> \o <<t>> = <<s, t>>
    BY Concat11
  <2>4. <<s, t>> \o <<Post, Fetch>> = <<s, t, Post, Fetch>>
    BY Concat22
  <2>5. <<s>> \o <<t, Store>> = <<s, t, Store>>
    BY Concat12
  <2> QED BY <1>1, <2>2, <2>3, <2>4, <2>5, Zenon
<1>5. ASSUME selected # 0, cached # z
      PROVE  /\ MemRead(a, z) = <<s, w, t, Post, Fetch>>
             /\ MemWrite(a, z) = <<s, w, t, Store>>
  <2>1. Select(0) = <<s>> /\ Width(z) = <<w>>
    BY <1>1, <1>5
  <2>2. Select(0) \o Width(z) = <<s, w>>
    BY <2>1, Concat11
  <2>3. <<s, w>> \o <<t>> = <<s, w, t>>
    BY Concat21
  <2>4. <<s, w, t>> \o <<Post, Fetch>> = <<s, w, t, Post, Fetch>>
    BY Concat32
  <2>5. <<s, w>> \o <<t, Store>> = <<s, w, t, Store>>
    BY Concat22
  <2> QED BY <1>1, <2>2, <2>3, <2>4, <2>5, Zenon
<1> QED BY <1>2, <1>3, <1>4, <1>5 DEF s, w, t

\* An operation that starts with a write of a copied register changes one.
LEMMA BeginChanges ==
  ASSUME NEW kind, NEW a, NEW z, NEW transfers, Begin(kind, a, z, transfers)
  PROVE  /\ op = None /\ todo' = transfers
         /\ op'.kind = kind /\ op'.address = a /\ op'.size = z
         /\ op'.changes \in BOOLEAN
         /\ op' = [kind |-> kind, address |-> a, size |-> z, changes |-> op'.changes]
         /\ 1 \in 1 .. Len(transfers) /\ transfers[1].reg \in {"SELECT", "CSW"}
              => op'.changes
         /\ (\A i \in 1 .. Len(transfers): transfers[i].reg \notin {"SELECT", "CSW"})
              => ~op'.changes
BY DEF Begin

\* An operation of a session that goes on.
LEMMA BeginKeeps ==
  ASSUME IInv, NEW kind \in {"power", "identify", "read", "write"},
         NEW a \in Int, NEW z \in Nat, NEW transfers,
         Begin(kind, a, z, transfers),
         UNCHANGED <<port, doubtful, lost, selected, cached>>,
         held' = FALSE, phase' \notin {"begun", "closed"},
         ~(Head(transfers).reg \in {"IDCODE", "STAT"}), StageInv'
  PROVE  IInv'
<1>1. /\ op = None /\ todo' = transfers
      /\ op' = [kind |-> kind, address |-> a, size |-> z, changes |-> op'.changes]
      /\ op'.changes \in BOOLEAN
  BY BeginChanges
<1>2. TypeInv'
  <2>1. op' \in Operation BY <1>1 DEF Operation
  <2> QED BY <2>1 DEF IInv, TypeInv
<1>3. IdleInv' /\ CopyInv'
  BY <1>1 DEF IInv, IdleInv, CopyInv, Agree
<1>4. LostInv'
  BY <1>1 DEF IInv, LostInv, Refuses, Transfer
<1> QED BY <1>2, <1>3, <1>4 DEF IInv

LEMMA AccessKeeps == IInv /\ Access => IInv'
<1> SUFFICES ASSUME IInv, Access PROVE IInv' OBVIOUS
<1>1. PICK a \in Addresses, z \in Sizes:
        \/ Begin("read", a, z, MemRead(a, z))
        \/ Begin("write", a, z, MemWrite(a, z))
  BY DEF Access
<1>2. /\ UNCHANGED <<phase, held, port, doubtful, lost, selected, cached>>
      /\ phase = "open"
  BY DEF Access
<1>3. a \in Int /\ z \in Nat
  BY SwdAssumption DEF Sizes
<1>4. held' = FALSE /\ phase' \notin {"begun", "closed"}
  BY <1>2 DEF IInv, IdleInv, TypeInv
<1> DEFINE t == Write("TAR", a) w == Write("CSW", z) s == ToSelect(0)
<1>5. /\ s.reg = "SELECT" /\ w.reg = "CSW" /\ t.reg = "TAR"
      /\ op'.size = z => ToWidth' = w
      /\ op'.address = a => ToAddress' = t
      /\ cached = z /\ op'.size = z => Wide'
      /\ selected = 0 => Selected'
  BY <1>2 DEF ToSelect, ToWidth, ToAddress, Write, Wide, Selected
<1> HIDE DEF s, w, t
<1>6. CASE Begin("read", a, z, MemRead(a, z))
  <2>1. /\ op'.kind = "read" /\ op'.address = a /\ op'.size = z
        /\ todo' = MemRead(a, z)
    BY <1>6, BeginChanges
  <2> DEFINE Begun == ReadInv' /\ Head(MemRead(a, z)).reg \notin {"IDCODE", "STAT"}
  <2>2. ASSUME selected = 0, cached = z PROVE Begun
    <3>1. MemRead(a, z) = <<t, Post, Fetch>>
      BY <2>2, Accesses DEF t
    <3>2. Head(MemRead(a, z)) = t
      BY <3>1, Heads
    <3>3. ReadInv'
      BY <1>5, <2>1, <2>2, <3>1 DEF ReadInv
    <3> QED BY <1>5, <3>2, <3>3
  <2>3. ASSUME selected = 0, cached # z PROVE Begun
    <3>1. MemRead(a, z) = <<w, t, Post, Fetch>>
      BY <2>3, Accesses DEF t, w
    <3>2. Head(MemRead(a, z)) = w /\ op'.changes
      <4>1. MemRead(a, z)[1] = w /\ 1 \in 1 .. Len(MemRead(a, z))
        BY <3>1
      <4>2. op'.changes
        BY <1>5, <1>6, <4>1, BeginChanges
      <4> QED BY <3>1, <4>2, Heads
    <3>3. ReadInv'
      BY <1>5, <2>1, <2>3, <3>1, <3>2 DEF ReadInv
    <3> QED BY <1>5, <3>2, <3>3
  <2>4. ASSUME selected # 0, cached = z PROVE Begun
    <3>1. MemRead(a, z) = <<s, t, Post, Fetch>>
      BY <2>4, Accesses DEF t, s
    <3>2. Head(MemRead(a, z)) = s /\ op'.changes
      <4>1. MemRead(a, z)[1] = s /\ 1 \in 1 .. Len(MemRead(a, z))
        BY <3>1
      <4>2. op'.changes
        BY <1>5, <1>6, <4>1, BeginChanges
      <4> QED BY <3>1, <4>2, Heads
    <3>3. ReadInv'
      BY <1>5, <2>1, <2>4, <3>1, <3>2 DEF ReadInv, s
    <3> QED BY <1>5, <3>2, <3>3
  <2>5. ASSUME selected # 0, cached # z PROVE Begun
    <3>1. MemRead(a, z) = <<s, w, t, Post, Fetch>>
      BY <2>5, Accesses DEF t, w, s
    <3>2. Head(MemRead(a, z)) = s /\ op'.changes
      <4>1. MemRead(a, z)[1] = s /\ 1 \in 1 .. Len(MemRead(a, z))
        BY <3>1
      <4>2. op'.changes
        BY <1>5, <1>6, <4>1, BeginChanges
      <4> QED BY <3>1, <4>2, Heads
    <3>3. ReadInv'
      BY <1>5, <2>1, <2>5, <3>1, <3>2 DEF ReadInv, s
    <3> QED BY <1>5, <3>2, <3>3
  <2>6. Begun BY <2>2, <2>3, <2>4, <2>5
  <2>7. StageInv' BY <2>1, <2>6 DEF StageInv
  <2> QED BY <1>2, <1>3, <1>4, <1>6, <2>6, <2>7, BeginKeeps
<1>7. CASE Begin("write", a, z, MemWrite(a, z))
  <2>1. /\ op'.kind = "write" /\ op'.address = a /\ op'.size = z
        /\ todo' = MemWrite(a, z)
    BY <1>7, BeginChanges
  <2> DEFINE Begun == WriteInv' /\ Head(MemWrite(a, z)).reg \notin {"IDCODE", "STAT"}
  <2>2. ASSUME selected = 0, cached = z PROVE Begun
    <3>1. MemWrite(a, z) = <<t, Store>>
      BY <2>2, Accesses DEF t
    <3>2. Head(MemWrite(a, z)) = t
      BY <3>1, Heads
    <3>3. WriteInv'
      BY <1>5, <2>1, <2>2, <3>1 DEF WriteInv
    <3> QED BY <1>5, <3>2, <3>3
  <2>3. ASSUME selected = 0, cached # z PROVE Begun
    <3>1. MemWrite(a, z) = <<w, t, Store>>
      BY <2>3, Accesses DEF t, w
    <3>2. Head(MemWrite(a, z)) = w /\ op'.changes
      <4>1. MemWrite(a, z)[1] = w /\ 1 \in 1 .. Len(MemWrite(a, z))
        BY <3>1
      <4>2. op'.changes
        BY <1>5, <1>7, <4>1, BeginChanges
      <4> QED BY <3>1, <4>2, Heads
    <3>3. WriteInv'
      BY <1>5, <2>1, <2>3, <3>1, <3>2 DEF WriteInv
    <3> QED BY <1>5, <3>2, <3>3
  <2>4. ASSUME selected # 0, cached = z PROVE Begun
    <3>1. MemWrite(a, z) = <<s, t, Store>>
      BY <2>4, Accesses DEF t, s
    <3>2. Head(MemWrite(a, z)) = s /\ op'.changes
      <4>1. MemWrite(a, z)[1] = s /\ 1 \in 1 .. Len(MemWrite(a, z))
        BY <3>1
      <4>2. op'.changes
        BY <1>5, <1>7, <4>1, BeginChanges
      <4> QED BY <3>1, <4>2, Heads
    <3>3. WriteInv'
      BY <1>5, <2>1, <2>4, <3>1, <3>2 DEF WriteInv, s
    <3> QED BY <1>5, <3>2, <3>3
  <2>5. ASSUME selected # 0, cached # z PROVE Begun
    <3>1. MemWrite(a, z) = <<s, w, t, Store>>
      BY <2>5, Accesses DEF t, w, s
    <3>2. Head(MemWrite(a, z)) = s /\ op'.changes
      <4>1. MemWrite(a, z)[1] = s /\ 1 \in 1 .. Len(MemWrite(a, z))
        BY <3>1
      <4>2. op'.changes
        BY <1>5, <1>7, <4>1, BeginChanges
      <4> QED BY <3>1, <4>2, Heads
    <3>3. WriteInv'
      BY <1>5, <2>1, <2>5, <3>1, <3>2 DEF WriteInv, s
    <3> QED BY <1>5, <3>2, <3>3
  <2>6. Begun BY <2>2, <2>3, <2>4, <2>5
  <2>7. StageInv' BY <2>1, <2>6 DEF StageInv
  <2> QED BY <1>2, <1>3, <1>4, <1>7, <2>6, <2>7, BeginKeeps
<1> QED BY <1>1, <1>6, <1>7

LEMMA SessionKeeps == IInv /\ Session => IInv'
<1> SUFFICES ASSUME IInv, Session PROVE IInv' OBVIOUS
<1>0. 0 \in Int /\ 0 \in Nat OBVIOUS
<1>1. CASE Open
  <2>1. op = None /\ UNCHANGED <<op, todo, port, selected, cached, doubtful, lost>>
    BY <1>1 DEF Open, IInv, IdleInv
  <2>2. TypeInv'
    BY <1>1, <2>1, SwdAssumption DEF Open, IInv, TypeInv
  <2>3. IdleInv' /\ CopyInv' /\ StageInv' /\ LostInv'
    BY <1>1, <2>1 DEF Open, IInv, IdleInv, CopyInv, Agree, StageInv, LostInv
  <2> QED BY <2>2, <2>3 DEF IInv
<1>2. CASE ProbeFirst \/ ProbeNext
  <2>1. PICK number: Probe(number) /\ phase' = "probing"
    BY <1>2 DEF ProbeFirst, ProbeNext
  <2>2. /\ op'.kind = "probe" /\ ~op'.changes /\ todo' = <<Read("IDCODE")>>
        /\ op' \in Operation
    <3>1. Begin("probe", 0, 0, <<Read("IDCODE")>>)
      BY <2>1 DEF Probe
    <3>2. \A i \in 1 .. Len(<<Read("IDCODE")>>):
            <<Read("IDCODE")>>[i].reg \notin {"SELECT", "CSW"}
      BY DEF Read
    <3> QED BY <3>1, <3>2, BeginChanges DEF Operation
  <2>3. /\ port' = [port EXCEPT !.mute = FALSE] /\ doubtful' = FALSE
        /\ selected' = Unknown /\ cached' = Unknown /\ held' = FALSE
        /\ lost' = FALSE
    BY <2>1 DEF Probe, EnterDebug
  <2>4. TypeInv'
    <3>1. port' \in Port BY <2>3 DEF IInv, TypeInv, Port
    <3>2. Unknown \in Int BY DEF Unknown
    <3> QED BY <2>2, <2>3, <3>1, <3>2 DEF TypeInv
  <2>5. IdleInv' /\ CopyInv' /\ LostInv'
    BY <2>1, <2>3 DEF IdleInv, CopyInv, Agree, LostInv
  <2>6. StageInv'
    BY <2>2 DEF StageInv, ProbeInv
  <2> QED BY <2>4, <2>5, <2>6 DEF IInv
<1>3. CASE PowerUp
  <2> DEFINE transfers == <<Write("CTRL", 0), Read("STAT")>>
  <2>1. /\ Begin("power", 0, 0, transfers) /\ phase = "found"
        /\ phase' = "powering"
        /\ UNCHANGED <<held, port, doubtful, lost, selected, cached>>
    BY <1>3 DEF PowerUp
  <2>2. \A i \in 1 .. Len(transfers):
            transfers[i].reg \notin {"SELECT", "CSW"}
    BY DEF Read, Write
  <2>3. Head(transfers).reg \notin {"IDCODE", "STAT"}
    BY Heads, Fields
  <2>4. op'.kind = "power" /\ ~op'.changes /\ todo' = transfers
    BY <2>1, <2>2, BeginChanges
  <2>5. StageInv'
    BY <2>4 DEF StageInv, PowerInv
  <2>6. held' = FALSE
    BY <2>1 DEF IInv, IdleInv, TypeInv
  <2> HIDE DEF transfers
  <2> QED BY <1>0, <2>1, <2>3, <2>5, <2>6, BeginKeeps
<1>4. CASE Identify
  <2> DEFINE transfers == Select(15) \o ApRead("IDR")
  <2>1. /\ Begin("identify", 0, 0, transfers) /\ phase' = "identifying"
        /\ held' = FALSE
        /\ UNCHANGED <<port, doubtful, lost, selected, cached>>
    BY <1>4 DEF Identify
  <2>2. ApRead("IDR") = <<Read("IDR"), Fetch>> BY DEF ApRead, Fetch
  <2>3. selected = 15 => transfers = <<Read("IDR"), Fetch>>
    <3>1. selected = 15 => Select(15) = <<>> BY DEF Select
    <3> QED BY <3>1, <2>2, ConcatEmpty
  <2>4. selected # 15 => transfers = <<ToSelect(15), Read("IDR"), Fetch>>
    <3>1. selected # 15 => Select(15) = <<ToSelect(15)>> BY DEF Select, ToSelect
    <3> QED BY <3>1, <2>2, Concat12
  <2> HIDE DEF transfers
  <2>5. op'.kind = "identify" /\ todo' = transfers
    BY <2>1, BeginChanges
  <2>6. CASE selected = 15
    <3>1. Head(transfers).reg = "IDR" BY <2>3, <2>6, Heads, Fields
    <3>2. IdentifyInv' BY <2>1, <2>3, <2>5, <2>6 DEF IdentifyInv
    <3>3. StageInv' BY <2>5, <3>2 DEF StageInv
    <3> QED BY <1>0, <2>1, <3>1, <3>3, BeginKeeps
  <2>7. CASE selected # 15
    <3>1. Head(transfers).reg = "SELECT" BY <2>4, <2>7, Heads, Fields
    <3>2. op'.changes
      <4>1. transfers[1].reg = "SELECT" /\ 1 \in 1 .. Len(transfers)
        BY <2>4, <2>7, Fields
      <4> QED BY <2>1, <4>1, BeginChanges
    <3>3. IdentifyInv' BY <2>4, <2>5, <2>7, <3>2 DEF IdentifyInv
    <3>4. StageInv' BY <2>5, <3>3 DEF StageInv
    <3> QED BY <1>0, <2>1, <3>1, <3>4, BeginKeeps
  <2> QED BY <2>6, <2>7
<1>5. CASE Access
  BY <1>5, AccessKeeps
<1>6. CASE Close
  <2>1. /\ op = None /\ phase' = "closed" /\ held' = FALSE
        /\ UNCHANGED <<op, todo, port, selected, cached, doubtful, lost>>
    BY <1>6 DEF Close
  <2>2. TypeInv'
    BY <2>1 DEF IInv, TypeInv
  <2>3. IdleInv' /\ CopyInv' /\ StageInv' /\ LostInv'
    BY <2>1 DEF IInv, IdleInv, CopyInv, Agree, StageInv, LostInv
  <2> QED BY <2>2, <2>3 DEF IInv
<1> QED BY <1>1, <1>2, <1>3, <1>4, <1>5, <1>6 DEF Session

-------------------------------------------------------------------------------
(* The theorems                                                            *)

\* The copies, the port and what is left of an operation fit together.
THEOREM Invariance == Spec => []IInv
<1>1. Init => IInv
  <2> SUFFICES ASSUME Init PROVE IInv OBVIOUS
  <2>1. None \in Operation BY DEF None, Operation
  <2>2. TypeInv
    <3>1. port \in Port
      <4>1. Junk \in Int \X Int /\ Unknown \in Int /\ Sizes \subseteq Int
        BY DEF Junk, Unknown, Sizes
      <4>2. port \in [select: {0, 15}, csw: Sizes, tar: {Unknown},
                     posted: {Junk}, sticky: BOOLEAN, mute: {TRUE}]
        BY DEF Init
      <4>3. /\ port = [select |-> port.select, csw |-> port.csw, tar |-> port.tar,
                       posted |-> port.posted, sticky |-> port.sticky,
                       mute |-> port.mute]
            /\ port.select \in {0, 15} /\ port.csw \in Sizes
            /\ port.tar = Unknown /\ port.posted = Junk
            /\ port.sticky \in BOOLEAN /\ port.mute \in BOOLEAN
        BY <4>2
      <4>4. port.select \in Int /\ port.csw \in Int
        BY <4>1, <4>3
      <4> QED BY <4>1, <4>3, <4>4 DEF Port
    <3>2. Unknown \in Int BY DEF Unknown
    <3> QED BY <2>1, <3>1, <3>2 DEF Init, TypeInv
  <2>3. IdleInv /\ CopyInv /\ StageInv /\ LostInv
    BY DEF Init, IdleInv, CopyInv, Agree, StageInv, LostInv
  <2> QED BY <2>2, <2>3 DEF IInv
<1>2. IInv /\ [Next]_vars => IInv'
  <2> SUFFICES ASSUME IInv, [Next]_vars PROVE IInv' OBVIOUS
  <2>1. CASE Session BY <2>1, SessionKeeps
  <2>2. CASE Acknowledged BY <2>2, AcknowledgedKeeps
  <2>3. CASE Spoiled BY <2>3, SpoiledKeeps
  <2>4. CASE DamagedRead BY <2>4, DamagedReadKeeps
  <2>5. CASE Misidentified BY <2>5, MisidentifiedKeeps
  <2>6. CASE Busy BY <2>6, BusyKeeps
  <2>7. CASE Refused \/ Unheard BY <2>7, RefusedKeeps
  <2>8. CASE NoAnswer BY <2>8, NoAnswerKeeps
  <2>9. CASE UNCHANGED vars
    BY <2>9 DEF vars, client, IInv, TypeInv, IdleInv, CopyInv, Agree, StageInv,
       ReadInv, WriteInv, IdentifyInv, ProbeInv, PowerInv, Addressed, Selected,
       Wide, Sound, ToWidth, ToAddress, LostInv, Refuses, Transfer
  <2> QED BY <2>1, <2>2, <2>3, <2>4, <2>5, <2>6, <2>7, <2>8,
             <2>9 DEF Next, Bus
<1> QED BY <1>1, <1>2, PTL DEF Spec

\* Only a transfer that the port heard lets an operation succeed.
LEMMA SuccessIsHeard ==
  ASSUME IInv, Next, Succeeds
  PROVE  /\ Heard /\ op # None /\ ~(Len(todo) > 1)
         /\ result'.op = op
         /\ \/ Acknowledged /\ result'.value \in Answers(Transfer)
            \/ Spoiled
<1>1. op # None /\ op' = None /\ result'.ok BY DEF Succeeds
<1>2. ~Session
  BY <1>1 DEF Session, Open, ProbeFirst, ProbeNext, Probe, PowerUp, Identify,
     Access, Begin, Close, IInv, IdleInv
<1>3. ASSUME NEW p, Fail(p) PROVE FALSE
  BY <1>1, <1>3 DEF Fail
<1>4. ASSUME NEW p, Retry(p) PROVE FALSE
  BY <1>1, <1>3, <1>4 DEF Retry
<1>5. Acknowledged \/ Spoiled
  BY <1>2, <1>3, <1>4 DEF Next, Bus, DamagedRead, Misidentified, Busy, Refused,
     NoAnswer, Unheard
<1>6. ASSUME NEW v, Succeed(v)
      PROVE  ~(Len(todo) > 1) /\ result'.op = op /\ result'.value = v
  BY <1>1, <1>6 DEF Succeed
<1> QED BY <1>1, <1>5, <1>6 DEF Acknowledged, Spoiled

\* Nothing that was reported as written is lost without a failure, whatever
\* goes wrong on the wire and however often.
THEOREM NothingIsLost == Spec => WriteIsDone
<1>1. IInv /\ [Next]_vars => [Succeeds /\ ~doubtful => ~lost]_vars
  <2> SUFFICES ASSUME IInv, Next, Succeeds, ~doubtful PROVE ~lost OBVIOUS
  <2> QED BY SuccessIsHeard, HeardSound
<1> QED BY <1>1, Invariance, PTL DEF Spec, WriteIsDone

\* A read that succeeds delivers what is at its address in its width, although
\* the registers in between are only written when the copies say so, however
\* often the port was busy or the posted read was repeated.  Only an answer that
\* was fetched twice may be wrong.
THEOREM ReadsAreRight == Spec => ReadIsRight
<1> DEFINE Right ==
      /\ op.kind = "read" => result'.value = <<op.address, op.size>>
      /\ op.kind = "identify" => result'.value = Identity
<1>1. IInv /\ [Next]_vars => [Succeeds /\ ~doubtful /\ ~fetched => Right]_vars
  <2> SUFFICES ASSUME IInv, Next, Succeeds, ~doubtful, ~fetched PROVE Right OBVIOUS
  <2>1. /\ Heard /\ op # None /\ ~(Len(todo) > 1)
        /\ \/ Acknowledged /\ result'.value \in Answers(Transfer)
           \/ Spoiled
    BY SuccessIsHeard
  <2>2. ASSUME op.kind \in {"read", "identify"}
        PROVE  /\ result'.value = port.posted
               /\ op.kind = "read" => port.posted = <<op.address, op.size>>
               /\ op.kind = "identify" => port.posted = Identity
    <3>1. /\ todo = <<Fetch>>
          /\ Sound => /\ op.kind = "read" => port.posted = <<op.address, op.size>>
                      /\ op.kind = "identify" => port.posted = Identity
      <4>1. CASE op.kind = "read"
        <5>1. ReadInv BY <2>1, <4>1 DEF IInv, StageInv
        <5> QED BY <2>1, <4>1, <5>1, Heads DEF ReadInv
      <4>2. CASE op.kind = "identify"
        <5>1. IdentifyInv BY <2>1, <4>2 DEF IInv, StageInv
        <5> QED BY <2>1, <4>2, <5>1, Heads DEF IdentifyInv
      <4> QED BY <2>2, <4>1, <4>2
    <3>2. Transfer = Fetch BY <3>1, Heads DEF Transfer
    <3>3. Transfer.reg = "RDBUFF" /\ Transfer.read BY <3>2, Fields
    <3>4. Sound
      BY <2>1, <3>3, HeardSound, Fields DEF Sound
    <3>5. ~Spoiled BY <3>3 DEF Spoiled
    <3>6. Answers(Transfer) = {port.posted} BY <3>3 DEF Answers
    <3> QED BY <2>1, <3>1, <3>4, <3>5, <3>6
  <2> QED BY <2>2
<1> QED BY <1>1, Invariance, PTL DEF Spec, ReadIsRight

===============================================================================
