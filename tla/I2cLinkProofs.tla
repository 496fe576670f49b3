---------------------------- MODULE I2cLinkProofs ----------------------------
(***************************************************************************)
(* Proofs about I2cLink: the link implements ReadingFeed, and a reading    *)
(* that is lost has a cause.                                               *)
(***************************************************************************)
EXTENDS I2cLink, TLAPS

\* What the checksum of the packet of window w covers.
SumOf(w, unread) ==
  [c \in Covered |-> CASE c = "unread" -> unread
                       [] c = "sequence" -> w % Modulus
                       [] OTHER -> w]

Fields == Covered \union {"checksum"}
Numbers == Covered \ {"unread"}
Sums == [Covered -> Nat]
Packets == {p \in [Fields -> Nat \union Sums]:
              /\ p["unread"] \in {0, 3} /\ p["checksum"] \in Sums
              /\ \A c \in Numbers: p[c] \in Nat}

LinkType ==
  /\ buffers \in [0 .. 1 -> Packets] /\ packet \in Packets
  /\ active \in 0 .. 1 /\ readIndex \in 0 .. 1 /\ built \in Nat
  /\ main \in {"idle", "mains", "mux", "header", "unread", "sum", "checksum",
               "publish"}
  /\ transfer \in {"none", "read", "query", "garbled"}
  /\ byteIndex \in 0 .. Length
  /\ transfer # "read" => byteIndex = 0

\* What the main loop has written of the packet it builds.  The interrupt only
\* takes its mark and its checksum away.
BuildInv ==
  /\ main \in {"mux", "header", "unread", "sum"} =>
       \A c \in {"powerMains", "rmsMains"}: buffers[Build][c] = built + 1
  /\ main \in {"header", "unread", "sum"} =>
       \A c \in {"powerMux", "rmsMux"}: buffers[Build][c] = built + 1
  /\ main \in {"unread", "sum"} =>
       buffers[Build]["sequence"] = (built + 1) % Modulus
  /\ main = "checksum" => sum \in {SumOf(built + 1, u): u \in {0, 3}}

\* The last reading submitted, and the sequence number it had.
LastInv ==
  /\ missing \in Nat
  /\ \E w \in 0 .. built:
       /\ last = [c \in Parts |-> w]
       /\ lastSequence = IF w = 0 THEN NotReceived ELSE w % Modulus

\* The window of the last reading.
Last == last["rmsMux"]

\* A checksum that says unread is of one window, in a buffer whose turn it is:
\* the published one has the newest window, the other the one before or, from
\* the moment its checksum is written, the next.  Only what is newer than the
\* last reading can still be read.
SumInv ==
  /\ buffers[active]["checksum"]["unread"] # 0 =>
       /\ buffers[active]["checksum"] = SumOf(built, 3)
       /\ Last < built
  /\ buffers[Build]["checksum"]["unread"] # 0 =>
       IF main = "publish"
       THEN buffers[Build]["checksum"] = SumOf(built + 1, 3)
       ELSE /\ buffers[Build]["checksum"] = SumOf(built - 1, 3)
            /\ readIndex = Build => Last < built - 1

\* What the ESP32 has of a packet.
PacketInv ==
  transfer = "read" =>
    /\ byteIndex > 0 => temp = packet["unread"]
    /\ byteIndex > 1 /\ packet["checksum"]["unread"] # 0 =>
         \E w \in Last + 1 .. built:
           /\ packet["checksum"] = SumOf(w, 3)
           /\ w = built => readIndex = active

IInv == LinkType /\ BuildInv /\ LastInv /\ SumInv /\ PacketInv

-------------------------------------------------------------------------------
(* The packet                                                              *)

LEMMA LayoutFacts ==
  /\ Length = 7
  /\ Layout[1] = "unread" /\ Layout[2] = "checksum"
  /\ \A i \in 3 .. 7: Layout[i] \in Fields \ {"unread", "checksum"}
  /\ Range(Layout) = Fields
<1>1. Length = 7 /\ Layout[1] = "unread" /\ Layout[2] = "checksum"
  BY DEF Length, Layout
<1>2. /\ Layout[3] = "sequence" /\ Layout[4] = "powerMains"
      /\ Layout[5] = "powerMux" /\ Layout[6] = "rmsMains"
      /\ Layout[7] = "rmsMux"
  BY DEF Layout
<1>3. DOMAIN Layout = 1 .. 7
  BY DEF Layout
<1>4. Range(Layout) = {Layout[i]: i \in 1 .. 7}
  BY <1>3 DEF Range
<1>5. Range(Layout) = {Layout[1], Layout[2], Layout[3], Layout[4], Layout[5],
                       Layout[6], Layout[7]}
  BY <1>4
<1>6. Fields = {"unread", "checksum", "sequence", "powerMains", "powerMux",
                "rmsMains", "rmsMux"}
  BY DEF Fields, Covered, Parts
<1>7. QED
  BY <1>1, <1>2, <1>5, <1>6

LEMMA ClearedPacket ==
  /\ Cleared \in Packets
  /\ Cleared["unread"] = 0 /\ Cleared["checksum"]["unread"] = 0
  /\ \A c \in Parts: Cleared[c] = 0
<1> DEFINE zero == [c \in Covered |-> 0]
<1>1. zero \in Sums
  BY DEF Sums
<1>2. zero["unread"] = 0
  BY DEF Covered
<1> HIDE DEF zero
<1>3. Cleared = [c \in Fields |-> IF c = "checksum" THEN zero ELSE 0]
  BY LayoutFacts DEF Cleared, zero
<1>4. \A c \in Fields: Cleared[c] = IF c = "checksum" THEN zero ELSE 0
  BY <1>3
<1>5. /\ "checksum" \in Fields /\ "unread" \in Fields /\ Numbers \subseteq Fields
      /\ "checksum" \notin Numbers /\ Parts \subseteq Numbers
  BY DEF Fields, Covered, Numbers, Parts
<1>6. Cleared \in [Fields -> Nat \union Sums]
  BY <1>1, <1>3
<1>7. QED
  BY <1>1, <1>2, <1>4, <1>5, <1>6 DEF Packets

LEMMA SumOfFacts ==
  ASSUME NEW w, NEW unread
  PROVE  /\ SumOf(w, unread)["unread"] = unread
         /\ SumOf(w, unread)["sequence"] = w % Modulus
         /\ \A c \in Parts: SumOf(w, unread)[c] = w
         /\ w \in Nat /\ unread \in {0, 3} => SumOf(w, unread) \in Sums
<1>1. SumOf(w, unread) = [c \in Covered |-> CASE c = "unread" -> unread
                            [] c = "sequence" -> w % Modulus
                            [] OTHER -> w]
  BY DEF SumOf
<1>2. "unread" \in Covered /\ "sequence" \in Covered
  BY DEF Covered
<1>3. \A c \in Parts: c \in Covered /\ c # "unread" /\ c # "sequence"
  BY DEF Covered, Parts
<1>4. /\ SumOf(w, unread)["unread"] = unread
      /\ SumOf(w, unread)["sequence"] = w % Modulus
      /\ \A c \in Parts: SumOf(w, unread)[c] = w
  BY <1>1, <1>2, <1>3
<1>5. ASSUME w \in Nat, unread \in {0, 3}
      PROVE  SumOf(w, unread) \in Sums
  <2>1. w % Modulus \in Nat
    BY <1>5, I2cLinkAssumption
  <2>2. \A c \in Covered: (CASE c = "unread" -> unread
                            [] c = "sequence" -> w % Modulus
                            [] OTHER -> w) \in Nat
    BY <1>5, <2>1
  <2>3. QED
    BY <1>1, <2>2 DEF Sums
<1>6. QED
  BY <1>4, <1>5

\* A checksum that fits a packet says what its parts are.
LEMMA ChecksumFacts ==
  ASSUME NEW p, NEW unread
  PROVE  /\ Checksum(p, unread)["unread"] = unread
         /\ \A c \in Numbers: Checksum(p, unread)[c] = p[c]
         /\ p \in Packets /\ unread \in Nat => Checksum(p, unread) \in Sums
<1>1. "unread" \in Covered /\ Numbers \subseteq Covered
      /\ \A c \in Numbers: c # "unread"
  BY DEF Covered, Numbers
<1>2. ASSUME p \in Packets, unread \in Nat
      PROVE  Checksum(p, unread) \in Sums
  <2>1. \A c \in Covered:
          (IF c = "unread" THEN unread ELSE p[c]) \in Nat
    BY <1>2 DEF Packets, Numbers
  <2>2. QED
    BY <2>1 DEF Checksum, Sums
<1>3. QED
  BY <1>1, <1>2 DEF Checksum

\* Build and active are the two buffers.
LEMMA OtherBuffer ==
  ASSUME LinkType
  PROVE  Build \in 0 .. 1 /\ Build # active /\ active \in 0 .. 1
         /\ \A i \in 0 .. 1: i = Build \/ i = active
BY DEF LinkType, Build

\* The interrupt takes the mark and the checksum of the packet, nothing else.
LEMMA MarkReadFacts ==
  ASSUME NEW p \in Packets
  PROVE  /\ MarkRead(p) \in Packets
         /\ MarkRead(p)["checksum"]["unread"] = 0
         /\ \A c \in Numbers: MarkRead(p)[c] = p[c]
<1> DEFINE s == Checksum(p, 0)
           m == [p EXCEPT !["unread"] = 0]
<1>1. s \in Sums /\ s["unread"] = 0
  BY ChecksumFacts
<1>2. MarkRead(p) = [m EXCEPT !["checksum"] = s]
  BY DEF MarkRead
<1>3. /\ "unread" \in Fields /\ "checksum" \in Fields /\ Numbers \subseteq Fields
      /\ \A c \in Numbers: c # "unread" /\ c # "checksum"
  BY DEF Fields, Numbers, Covered, Parts
<1> HIDE DEF s
<1>4. p \in [Fields -> Nat \union Sums]
  BY DEF Packets
<1>5. m \in [Fields -> Nat \union Sums]
      /\ m["unread"] = 0 /\ \A c \in Numbers: m[c] = p[c]
  BY <1>3, <1>4
<1> HIDE DEF m
<1>6. /\ MarkRead(p) \in [Fields -> Nat \union Sums]
      /\ MarkRead(p)["checksum"] = s /\ MarkRead(p)["unread"] = 0
      /\ \A c \in Numbers: MarkRead(p)[c] = p[c]
  BY <1>1, <1>2, <1>3, <1>5
<1>7. \A c \in Numbers: p[c] \in Nat
  BY DEF Packets
<1>8. MarkRead(p) \in Packets
  BY <1>1, <1>6, <1>7 DEF Packets
<1>9. QED
  BY <1>1, <1>6, <1>8

\* What a write of the main loop changes.
LEMMA WriteFacts ==
  ASSUME LinkType, NEW parts \in SUBSET Fields, NEW value, Write(parts, value),
         \/ parts \subseteq Numbers /\ value \in Nat
         \/ parts = {"unread"} /\ value = 3
         \/ parts = {"checksum"} /\ value \in Sums
  PROVE  /\ buffers' \in [0 .. 1 -> Packets]
         /\ buffers'[active] = buffers[active]
         /\ \A c \in Fields:
              buffers'[Build][c] = IF c \in parts THEN value
                                   ELSE buffers[Build][c]
<1> DEFINE p == buffers[Build]
           q == [c \in DOMAIN p |-> IF c \in parts THEN value ELSE p[c]]
<1>1. Build \in 0 .. 1 /\ Build # active /\ active \in 0 .. 1
  BY OtherBuffer
<1>2. buffers \in [0 .. 1 -> Packets] /\ p \in Packets
  BY <1>1 DEF LinkType
<1>3. buffers' = [buffers EXCEPT ![Build] = q]
  BY DEF Write
<1>4. p \in [Fields -> Nat \union Sums] /\ DOMAIN p = Fields
      /\ p["unread"] \in {0, 3} /\ p["checksum"] \in Sums
      /\ \A c \in Numbers: p[c] \in Nat
  BY <1>2 DEF Packets
<1> HIDE DEF p
<1>5. q = [c \in Fields |-> IF c \in parts THEN value ELSE p[c]]
  BY <1>4
<1>6. value \in Nat \union Sums
  OBVIOUS
<1>7. /\ "unread" \in Fields /\ "checksum" \in Fields /\ Numbers \subseteq Fields
      /\ "unread" \notin Numbers /\ "checksum" \notin Numbers
  BY DEF Fields, Numbers, Covered, Parts
<1> HIDE DEF q
<1>8. q \in [Fields -> Nat \union Sums]
      /\ \A c \in Fields: q[c] = IF c \in parts THEN value ELSE p[c]
  BY <1>4, <1>5, <1>6
<1>9. q["unread"] \in {0, 3}
  BY <1>4, <1>7, <1>8
<1>10. q["checksum"] \in Sums
  BY <1>4, <1>7, <1>8
<1>11. \A c \in Numbers: q[c] \in Nat
  BY <1>4, <1>7, <1>8
<1>12. q \in Packets
  BY <1>8, <1>9, <1>10, <1>11 DEF Packets
<1>13. buffers' \in [0 .. 1 -> Packets] /\ buffers'[Build] = q
       /\ buffers'[active] = buffers[active]
  BY <1>1, <1>2, <1>3, <1>12
<1>14. QED
  BY <1>8, <1>13 DEF p

-------------------------------------------------------------------------------
(* The main loop                                                           *)

\* A step of the main loop that writes nothing but parts under the checksum.
LEMMA PartsStep ==
  ASSUME IInv, NEW from, NEW to, Step(from, to),
         from \in {"mains", "mux", "header", "unread"},
         to \in {"mux", "header", "unread", "sum"},
         NEW parts \in SUBSET Covered, NEW value, Write(parts, value),
         \/ parts \subseteq Numbers /\ value \in Nat
         \/ parts = {"unread"} /\ value = 3,
         UNCHANGED <<active, sum, built, troubled>>, BuildInv'
  PROVE  IInv'
<1>1. LinkType /\ LastInv /\ SumInv /\ PacketInv
  BY DEF IInv
<1>2. /\ main = from /\ main' = to
      /\ UNCHANGED <<slave, transfer, esp, polled, transfers, faults>>
  BY DEF Step
<1>3. UNCHANGED <<readIndex, byteIndex, temp, packet, last, lastSequence,
                  missing, transfer, active, built>>
  BY <1>2 DEF slave, esp
<1>4. parts \in SUBSET Fields /\ "checksum" \notin parts /\ "checksum" \in Fields
  BY DEF Fields, Covered, Parts
<1>5. /\ buffers' \in [0 .. 1 -> Packets]
      /\ buffers'[active] = buffers[active]
      /\ buffers'[Build]["checksum"] = buffers[Build]["checksum"]
  BY <1>1, <1>4, WriteFacts
<1>6. Build' = Build /\ Last' = Last
  BY <1>3 DEF Build, Last
<1>7. main \notin {"publish"} /\ main' \notin {"publish"}
  BY <1>2
<1>8. LinkType'
  BY <1>1, <1>2, <1>3, <1>5 DEF LinkType
<1>9. LastInv'
  BY <1>1, <1>3 DEF LastInv
<1>10. SumInv'
  BY <1>1, <1>3, <1>5, <1>6, <1>7 DEF SumInv
<1>11. PacketInv'
  BY <1>1, <1>3, <1>6 DEF PacketInv
<1>12. QED
  BY <1>8, <1>9, <1>10, <1>11 DEF IInv

LEMMA NextWindow ==
  ASSUME LinkType
  PROVE  built + 1 \in Nat /\ (built + 1) % Modulus \in Nat
BY I2cLinkAssumption DEF LinkType

LEMMA WriteMainsInv ==
  ASSUME IInv, WriteMains
  PROVE  IInv'
<1> DEFINE parts == {"powerMains", "rmsMains"}
<1>1. /\ Step("mains", "mux") /\ Write(parts, built + 1)
      /\ UNCHANGED <<active, sum, built, troubled>>
  BY DEF WriteMains
<1>2. parts \in SUBSET Fields /\ parts \in SUBSET Covered
      /\ parts \subseteq Numbers
  BY DEF Fields, Covered, Numbers, Parts
<1>3. built + 1 \in Nat /\ LinkType
  BY NextWindow DEF IInv
<1> HIDE DEF parts
<1>4. \A c \in Fields:
        buffers'[Build][c] = IF c \in parts THEN built + 1
                             ELSE buffers[Build][c]
  BY <1>1, <1>2, <1>3, WriteFacts
<1>5. main' = "mux" /\ Build' = Build /\ built' = built
  BY <1>1 DEF Step, Build
<1>6. BuildInv'
  BY <1>2, <1>4, <1>5 DEF BuildInv, parts
<1>7. QED
  BY <1>1, <1>2, <1>3, <1>6, PartsStep

LEMMA WriteMuxInv ==
  ASSUME IInv, WriteMux
  PROVE  IInv'
<1> DEFINE parts == {"powerMux", "rmsMux"}
<1>1. /\ Step("mux", "header") /\ Write(parts, built + 1)
      /\ UNCHANGED <<active, sum, built, troubled>>
  BY DEF WriteMux
<1>2. parts \in SUBSET Fields /\ parts \in SUBSET Covered
      /\ parts \subseteq Numbers
      /\ "powerMains" \in Fields \ parts /\ "rmsMains" \in Fields \ parts
  BY DEF Fields, Covered, Numbers, Parts
<1>3. built + 1 \in Nat /\ LinkType /\ BuildInv
  BY NextWindow DEF IInv
<1> HIDE DEF parts
<1>4. \A c \in Fields:
        buffers'[Build][c] = IF c \in parts THEN built + 1
                             ELSE buffers[Build][c]
  BY <1>1, <1>2, <1>3, WriteFacts
<1>5. main = "mux" /\ main' = "header" /\ Build' = Build /\ built' = built
  BY <1>1 DEF Step, Build
<1>6. BuildInv'
  BY <1>2, <1>3, <1>4, <1>5 DEF BuildInv, parts
<1>7. QED
  BY <1>1, <1>2, <1>3, <1>6, PartsStep

LEMMA WriteSequenceInv ==
  ASSUME IInv, WriteSequence
  PROVE  IInv'
<1> DEFINE parts == {"sequence"}
<1>1. /\ Step("header", "unread") /\ Write(parts, (built + 1) % Modulus)
      /\ UNCHANGED <<active, sum, built, troubled>>
  BY DEF WriteSequence
<1>2. parts \in SUBSET Fields /\ parts \in SUBSET Covered
      /\ parts \subseteq Numbers
      /\ \A c \in {"powerMains", "rmsMains", "powerMux", "rmsMux"}:
           c \in Fields /\ c \notin parts
  BY DEF Fields, Covered, Numbers, Parts
<1>3. (built + 1) % Modulus \in Nat /\ LinkType /\ BuildInv
  BY NextWindow DEF IInv
<1> HIDE DEF parts
<1>4. \A c \in Fields:
        buffers'[Build][c] = IF c \in parts THEN (built + 1) % Modulus
                             ELSE buffers[Build][c]
  BY <1>1, <1>2, <1>3, WriteFacts
<1>5. main = "header" /\ main' = "unread" /\ Build' = Build /\ built' = built
  BY <1>1 DEF Step, Build
<1>6. BuildInv'
  BY <1>2, <1>3, <1>4, <1>5 DEF BuildInv, parts
<1>7. QED
  BY <1>1, <1>2, <1>3, <1>6, PartsStep

LEMMA WriteUnreadInv ==
  ASSUME IInv, WriteUnread
  PROVE  IInv'
<1> DEFINE parts == {"unread"}
<1>1. /\ Step("unread", "sum") /\ Write(parts, 3)
      /\ UNCHANGED <<active, sum, built, troubled>>
  BY DEF WriteUnread
<1>2. parts \in SUBSET Fields /\ parts \in SUBSET Covered
      /\ \A c \in {"powerMains", "rmsMains", "powerMux", "rmsMux", "sequence"}:
           c \in Fields /\ c \notin parts
  BY DEF Fields, Covered, Numbers, Parts
<1>3. LinkType /\ BuildInv
  BY DEF IInv
<1>4. \A c \in Fields:
        buffers'[Build][c] = IF c \in parts THEN 3 ELSE buffers[Build][c]
  BY <1>1, <1>2, <1>3, WriteFacts
<1>5. main = "unread" /\ main' = "sum" /\ Build' = Build /\ built' = built
  BY <1>1 DEF Step, Build
<1>6. BuildInv'
  BY <1>2, <1>3, <1>4, <1>5 DEF BuildInv
<1>7. QED
  BY <1>1, <1>2, <1>3, <1>6, PartsStep

\* The checksum is of the window that was written, whole.
LEMMA ComputeChecksumInv ==
  ASSUME IInv, ComputeChecksum
  PROVE  IInv'
<1> DEFINE p == buffers[Build]
<1>1. /\ Step("sum", "checksum")
      /\ UNCHANGED <<buffers, active, built, troubled>>
  BY DEF ComputeChecksum
<1>2. PICK unread \in {3, p["unread"]}: sum' = Checksum(p, unread)
  BY DEF ComputeChecksum
<1>3. LinkType /\ BuildInv /\ LastInv /\ SumInv /\ PacketInv
  BY DEF IInv
<1>4. /\ main = "sum" /\ main' = "checksum"
      /\ UNCHANGED <<slave, transfer, esp, polled, transfers, faults>>
  BY <1>1 DEF Step
<1>5. UNCHANGED <<readIndex, byteIndex, temp, packet, last, lastSequence,
                  missing, transfer, active, built, buffers>>
  BY <1>1, <1>4 DEF slave, esp
<1>6. unread \in {0, 3}
  <2>1. p \in Packets
    BY <1>3, OtherBuffer DEF LinkType
  <2>2. QED
    BY <1>2, <2>1 DEF Packets
<1>7. /\ \A c \in Parts: p[c] = built + 1
      /\ p["sequence"] = (built + 1) % Modulus
  BY <1>3, <1>4 DEF BuildInv, Parts
<1> HIDE DEF p
<1>8. Checksum(p, unread) = SumOf(built + 1, unread)
  BY <1>7 DEF Checksum, SumOf, Covered
<1>9. Build' = Build /\ Last' = Last
  BY <1>5 DEF Build, Last
<1>10. LinkType'
  BY <1>3, <1>4, <1>5 DEF LinkType
<1>11. BuildInv'
  BY <1>2, <1>4, <1>5, <1>6, <1>8 DEF BuildInv
<1>12. LastInv'
  BY <1>3, <1>5 DEF LastInv
<1>13. SumInv'
  BY <1>3, <1>4, <1>5, <1>9 DEF SumInv
<1>14. PacketInv'
  BY <1>3, <1>5, <1>9 DEF PacketInv
<1>15. QED
  BY <1>10, <1>11, <1>12, <1>13, <1>14 DEF IInv

LEMMA WriteChecksumInv ==
  ASSUME IInv, WriteChecksum
  PROVE  IInv'
<1>1. /\ Step("checksum", "publish") /\ Write({"checksum"}, sum)
      /\ UNCHANGED <<active, sum, built, troubled>>
  BY DEF WriteChecksum
<1>2. LinkType /\ BuildInv /\ LastInv /\ SumInv /\ PacketInv
  BY DEF IInv
<1>3. /\ main = "checksum" /\ main' = "publish"
      /\ UNCHANGED <<slave, transfer, esp, polled, transfers, faults>>
  BY <1>1 DEF Step
<1>4. UNCHANGED <<readIndex, byteIndex, temp, packet, last, lastSequence,
                  missing, transfer, active, built>>
  BY <1>1, <1>3 DEF slave, esp
<1>5. PICK unread \in {0, 3}: sum = SumOf(built + 1, unread)
  BY <1>2, <1>3 DEF BuildInv
<1>6. sum \in Sums /\ sum["unread"] = unread
  BY <1>2, <1>5, NextWindow, SumOfFacts
<1>7. /\ buffers' \in [0 .. 1 -> Packets]
      /\ buffers'[active] = buffers[active]
      /\ buffers'[Build]["checksum"] = sum
  BY <1>1, <1>2, <1>6, WriteFacts DEF Fields
<1>8. Build' = Build /\ Last' = Last
  BY <1>4 DEF Build, Last
<1>9. LinkType'
  BY <1>2, <1>3, <1>4, <1>7 DEF LinkType
<1>10. BuildInv'
  BY <1>3 DEF BuildInv
<1>11. LastInv'
  BY <1>2, <1>4 DEF LastInv
<1>12. SumInv'
  <2>1. sum["unread"] # 0 => sum = SumOf(built + 1, 3)
    BY <1>5, <1>6
  <2>2. QED
    BY <1>2, <1>3, <1>4, <1>7, <1>8, <2>1 DEF SumInv
<1>13. PacketInv'
  BY <1>2, <1>4, <1>8 DEF PacketInv
<1>14. QED
  BY <1>9, <1>10, <1>11, <1>12, <1>13 DEF IInv

LEMMA WindowEndsInv ==
  ASSUME IInv, WindowEnds
  PROVE  IInv'
<1>1. LinkType /\ BuildInv /\ LastInv /\ SumInv /\ PacketInv
  BY DEF IInv
<1>2. /\ main = "idle" /\ main' = "mains"
      /\ UNCHANGED <<readIndex, byteIndex, temp, packet, last, lastSequence,
                     missing, transfer, active, built, buffers, sum>>
  BY DEF WindowEnds, slave, esp
<1>3. Build' = Build /\ Last' = Last
  BY <1>2 DEF Build, Last
<1>4. LinkType'
  BY <1>1, <1>2 DEF LinkType
<1>5. BuildInv'
  BY <1>2 DEF BuildInv
<1>6. LastInv'
  BY <1>1, <1>2 DEF LastInv
<1>7. SumInv'
  BY <1>1, <1>2, <1>3 DEF SumInv
<1>8. PacketInv'
  BY <1>1, <1>2, <1>3 DEF PacketInv
<1>9. QED
  BY <1>4, <1>5, <1>6, <1>7, <1>8 DEF IInv

\* The window of the last reading is a number up to the windows completed.
LEMMA LastType ==
  ASSUME LinkType, LastInv
  PROVE  /\ built \in Nat /\ Last \in 0 .. built
         /\ last = [c \in Parts |-> Last]
         /\ lastSequence = IF Last = 0 THEN NotReceived ELSE Last % Modulus
<1>1. PICK w \in 0 .. built:
        /\ last = [c \in Parts |-> w]
        /\ lastSequence = IF w = 0 THEN NotReceived ELSE w % Modulus
  BY DEF LastInv
<1>2. Last = w
  BY <1>1 DEF Last, Parts
<1>3. QED
  BY <1>1, <1>2 DEF LinkType

\* The buffers change their roles: the new packet is the published one.
LEMMA PublishInv ==
  ASSUME IInv, Publish
  PROVE  IInv'
<1>1. LinkType /\ BuildInv /\ LastInv /\ SumInv /\ PacketInv
  BY DEF IInv
<1>2. /\ main = "publish" /\ main' = "idle" /\ active' = Build
      /\ built' = built + 1
      /\ UNCHANGED <<readIndex, byteIndex, temp, packet, last, lastSequence,
                     missing, transfer, buffers>>
  BY DEF Publish, Step, slave, esp
<1>3. active \in 0 .. 1 /\ readIndex \in 0 .. 1
      /\ active' = 1 - active /\ Build' = active /\ Last' = Last
      /\ Build = 1 - active
  BY <1>1, <1>2 DEF LinkType, Build, Last
<1>4. built \in Nat /\ Last \in 0 .. built
  BY <1>1, LastType
<1>5. LinkType'
  BY <1>1, <1>2, <1>3, <1>4 DEF LinkType
<1>6. BuildInv'
  BY <1>2 DEF BuildInv
<1>7. LastInv'
  BY <1>1, <1>2, <1>4 DEF LastInv
<1>8. SumInv'
  <2>1. buffers'[active']["checksum"]["unread"] # 0 =>
          /\ buffers'[active']["checksum"] = SumOf(built', 3)
          /\ Last' < built'
    BY <1>1, <1>2, <1>3, <1>4 DEF SumInv
  <2>2. buffers'[Build']["checksum"]["unread"] # 0 =>
          /\ buffers'[Build']["checksum"] = SumOf(built' - 1, 3)
          /\ Last' < built' - 1
    <3>1. built' - 1 = built
      BY <1>2, <1>4
    <3>2. QED
      BY <1>1, <1>2, <1>3, <3>1 DEF SumInv
  <2>3. QED
    BY <1>2, <2>1, <2>2 DEF SumInv
<1>9. PacketInv'
  <2>1. SUFFICES ASSUME transfer = "read", byteIndex > 1,
                        packet["checksum"]["unread"] # 0
                 PROVE  \E w \in Last + 1 .. built':
                          /\ packet["checksum"] = SumOf(w, 3)
                          /\ w = built' => readIndex = active'
    BY <1>1, <1>2, <1>3 DEF PacketInv
  <2>2. PICK w \in Last + 1 .. built: packet["checksum"] = SumOf(w, 3)
    BY <1>1, <2>1 DEF PacketInv
  <2>3. w \in Last + 1 .. built' /\ w # built'
    BY <1>2, <1>4
  <2>4. QED
    BY <2>2, <2>3
<1>10. QED
  BY <1>5, <1>6, <1>7, <1>8, <1>9 DEF IInv

-------------------------------------------------------------------------------
(* Sequence numbers                                                        *)

LEMMA Division ==
  ASSUME NEW a \in Int
  PROVE  /\ a % Modulus \in 0 .. Modulus - 1 /\ a \div Modulus \in Int
         /\ a = (a \div Modulus) * Modulus + (a % Modulus)
BY I2cLinkAssumption, SMTT(30)

\* A number below the modulus is its own remainder, from either side.
LEMMA SmallRemainder ==
  ASSUME NEW d \in Int, -Modulus < d, d < Modulus
  PROVE  d % Modulus = IF d >= 0 THEN d ELSE d + Modulus
<1> DEFINE q == d \div Modulus
           r == d % Modulus
<1>1. r \in 0 .. Modulus - 1 /\ q \in Int /\ d = q * Modulus + r
  BY Division
<1>2. Modulus \in Nat \ {0}
  BY I2cLinkAssumption
<1> HIDE DEF q, r
<1>3. q \in {-1, 0}
  <2>1. CASE q >= 1
    <3>1. q * Modulus >= Modulus
      BY <1>1, <1>2, <2>1, SMTT(30)
    <3>2. QED
      BY <1>1, <1>2, <3>1
  <2>2. CASE q <= -2
    <3>1. q * Modulus <= -2 * Modulus
      BY <1>1, <1>2, <2>2, SMTT(30)
    <3>2. QED
      BY <1>1, <1>2, <3>1
  <2>3. QED
    BY <1>1, <2>1, <2>2
<1>4. QED
  BY <1>1, <1>2, <1>3 DEF r

\* The distance of two sequence numbers is that of their windows, up to the
\* modulus.
LEMMA SequenceDistance ==
  ASSUME NEW v \in Nat, NEW w \in Nat, v < w
  PROVE  LET delta == ((w % Modulus) - (v % Modulus)) % Modulus
         IN  /\ delta \in 0 .. w - v
             /\ w - v < Modulus => delta = w - v
<1> DEFINE rv == v % Modulus
           rw == w % Modulus
           qv == v \div Modulus
           qw == w \div Modulus
           delta == (rw - rv) % Modulus
           k == qw - qv
<1>1. /\ rv \in 0 .. Modulus - 1 /\ qv \in Int /\ v = qv * Modulus + rv
      /\ rw \in 0 .. Modulus - 1 /\ qw \in Int /\ w = qw * Modulus + rw
  BY Division
<1>2. Modulus \in Nat \ {0}
  BY I2cLinkAssumption
<1>3. delta = IF rw - rv >= 0 THEN rw - rv ELSE rw - rv + Modulus
  BY <1>1, <1>2, SmallRemainder
<1> HIDE DEF rv, rw, qv, qw, delta
<1>4. k * Modulus = qw * Modulus - qv * Modulus
  BY <1>1, <1>2, SMTT(30)
<1>5. k \in Int /\ w - v = k * Modulus + (rw - rv)
  <2>1. qw * Modulus \in Int /\ qv * Modulus \in Int
    BY <1>1, <1>2
  <2>2. QED
    BY <1>1, <1>4, <2>1
<1> HIDE DEF k
<1>6. k * Modulus \in Int
      /\ (k <= -1 => k * Modulus <= -Modulus) /\ (k = 0 => k * Modulus = 0)
      /\ (k >= 1 => k * Modulus >= Modulus)
      /\ (k >= 2 => k * Modulus >= 2 * Modulus)
      /\ (k = 1 => k * Modulus = Modulus)
  BY <1>2, <1>5, SMTT(30)
<1>7. CASE rw - rv >= 0
  <2>1. k >= 0
    BY <1>1, <1>2, <1>5, <1>6
  <2>2. QED
    BY <1>1, <1>2, <1>3, <1>5, <1>6, <1>7, <2>1 DEF delta, rw, rv
<1>8. CASE rw - rv < 0
  <2>1. k >= 1
    BY <1>1, <1>2, <1>5, <1>6, <1>8
  <2>2. delta \in 0 .. w - v /\ (w - v < Modulus => delta = w - v)
    BY <1>1, <1>2, <1>3, <1>5, <1>6, <1>8, <2>1
  <2>3. QED
    BY <2>2 DEF delta, rw, rv
<1>9. QED
  BY <1>1, <1>7, <1>8

\* What is counted as missing between two readings is exact up to the modulus.
LEMMA GapFacts ==
  ASSUME LinkType, LastInv, NEW w \in Last + 1 .. built
  PROVE  LET gap == Gap(w % Modulus)
         IN  /\ gap \in 0 .. w - Last - 1
             /\ Last = 0 => gap = 0
             /\ Last > 0 /\ w - Last < Modulus => gap = w - Last - 1
<1> DEFINE delta == ((w % Modulus) - (Last % Modulus)) % Modulus
           gap == Gap(w % Modulus)
<1>1. built \in Nat /\ Last \in 0 .. built
      /\ lastSequence = IF Last = 0 THEN NotReceived ELSE Last % Modulus
  BY LastType
<1>2. w \in Nat /\ Last \in Nat /\ Last < w
  BY <1>1
<1>3. delta \in 0 .. w - Last /\ (w - Last < Modulus => delta = w - Last)
  BY <1>2, SequenceDistance
<1>4. Last % Modulus \in Nat
  BY <1>2, Division, I2cLinkAssumption
<1>5. Last = 0 => gap = 0
  BY <1>1 DEF Gap
<1>6. Last > 0 => gap = IF delta > 1 THEN delta - 1 ELSE 0
  BY <1>1, <1>2, <1>4 DEF Gap, NotReceived
<1> HIDE DEF delta, gap
<1>7. QED
  BY <1>2, <1>3, <1>5, <1>6 DEF gap

-------------------------------------------------------------------------------
(* Transfers                                                               *)

\* A transfer starts with no byte sent; a garbled index latches the published
\* buffer.
LEMMA StartInv ==
  ASSUME IInv, StartRead \/ StartQuery \/ StartGarbledQuery
  PROVE  IInv'
<1>1. LinkType /\ BuildInv /\ LastInv /\ SumInv /\ PacketInv
  BY DEF IInv
<1>2. /\ transfer = "none" /\ transfer' \in {"read", "query", "garbled"}
      /\ packet' \in {Cleared, packet} /\ readIndex' \in {readIndex, active}
      /\ byteIndex' = 0
      /\ UNCHANGED <<buffers, active, main, sum, built, last, lastSequence,
                     missing>>
  BY <1>1 DEF StartRead, StartQuery, StartGarbledQuery, Start, samd, slave,
              esp, LinkType
<1>3. Build' = Build /\ Last' = Last /\ Build # active
  BY <1>1, <1>2, OtherBuffer DEF Build, Last
<1>4. LinkType'
  <2>1. packet' \in Packets
    BY <1>1, <1>2, ClearedPacket DEF LinkType
  <2>2. byteIndex' \in 0 .. Length
    BY <1>2, LayoutFacts
  <2>3. readIndex' \in 0 .. 1
    BY <1>1, <1>2 DEF LinkType
  <2>4. QED
    BY <1>1, <1>2, <2>1, <2>2, <2>3 DEF LinkType
<1>5. BuildInv'
  BY <1>1, <1>2, <1>3 DEF BuildInv
<1>6. LastInv'
  BY <1>1, <1>2 DEF LastInv
<1>7. SumInv'
  BY <1>1, <1>2, <1>3 DEF SumInv
<1>8. PacketInv'
  BY <1>2 DEF PacketInv
<1>9. QED
  BY <1>4, <1>5, <1>6, <1>7, <1>8 DEF IInv

\* A byte of the checksum comes from a buffer that may be read.
LEMMA SendByteInv ==
  ASSUME IInv, SendByte
  PROVE  IInv'
<1> DEFINE part == Layout[byteIndex + 1]
<1>1. LinkType /\ BuildInv /\ LastInv /\ SumInv /\ PacketInv
  BY DEF IInv
<1>2. /\ transfer = "read" /\ byteIndex < Length /\ main # "publish"
      /\ packet' = [packet EXCEPT ![part] = buffers[readIndex][part]]
      /\ temp' = IF byteIndex = 0 THEN buffers[readIndex]["unread"] ELSE temp
      /\ byteIndex' = byteIndex + 1
      /\ UNCHANGED <<buffers, active, main, sum, built, readIndex, transfer,
                     last, lastSequence, missing>>
  BY DEF SendByte, Publishing, samd
<1>3. Build' = Build /\ Last' = Last
  BY <1>2 DEF Build, Last
<1>4. byteIndex \in 0 .. 6 /\ byteIndex' \in 0 .. Length
  BY <1>1, <1>2, LayoutFacts DEF LinkType
<1>5. /\ byteIndex = 0 => part = "unread"
      /\ byteIndex = 1 => part = "checksum"
      /\ byteIndex > 1 => part \in Fields \ {"unread", "checksum"}
  BY <1>4, LayoutFacts
<1>6. part \in Fields
  BY <1>4, <1>5 DEF Fields, Covered
<1>7. buffers[readIndex] \in Packets /\ packet \in Packets
  BY <1>1 DEF LinkType
<1>8. /\ buffers[readIndex] \in [Fields -> Nat \union Sums]
      /\ packet \in [Fields -> Nat \union Sums]
  BY <1>7 DEF Packets
<1>9. "unread" \in Fields /\ "checksum" \in Fields /\ Numbers \subseteq Fields
  BY DEF Fields, Numbers, Covered
<1> HIDE DEF part
<1>10. /\ packet' \in [Fields -> Nat \union Sums]
       /\ \A c \in Fields:
            packet'[c] = IF c = part THEN buffers[readIndex][c] ELSE packet[c]
  BY <1>2, <1>6, <1>8
<1>11. packet' \in Packets
  <2>1. packet'["unread"] \in {0, 3}
    BY <1>7, <1>9, <1>10 DEF Packets
  <2>2. packet'["checksum"] \in Sums
    BY <1>7, <1>9, <1>10 DEF Packets
  <2>3. \A c \in Numbers: packet'[c] \in Nat
    BY <1>7, <1>9, <1>10 DEF Packets
  <2>4. QED
    BY <1>10, <2>1, <2>2, <2>3 DEF Packets
<1>12. LinkType'
  BY <1>1, <1>2, <1>4, <1>11 DEF LinkType
<1>13. BuildInv' /\ LastInv' /\ SumInv'
  BY <1>1, <1>2, <1>3 DEF BuildInv, LastInv, SumInv
<1>14. PacketInv'
  <2>1. byteIndex' > 0 /\ temp' = packet'["unread"]
    <3>1. CASE byteIndex = 0
      BY <1>2, <1>4, <1>5, <1>9, <1>10, <3>1
    <3>2. CASE byteIndex > 0
      <4>1. part # "unread" /\ temp = packet["unread"]
        BY <1>1, <1>2, <1>4, <1>5, <3>2 DEF PacketInv
      <4>2. QED
        BY <1>2, <1>4, <1>9, <1>10, <3>2, <4>1
    <3>3. QED
      BY <1>4, <3>1, <3>2
  <2>2. ASSUME byteIndex' > 1, packet'["checksum"]["unread"] # 0
        PROVE  \E w \in Last + 1 .. built:
                 /\ packet'["checksum"] = SumOf(w, 3)
                 /\ w = built => readIndex = active
    <3>1. CASE byteIndex = 1
      <4>1. packet'["checksum"] = buffers[readIndex]["checksum"]
        BY <1>5, <1>9, <1>10, <3>1
      <4>2. built \in Nat /\ Last \in 0 .. built
        BY <1>1, LastType
      <4>3. CASE readIndex = active
        <5>1. buffers[active]["checksum"] = SumOf(built, 3) /\ Last < built
          BY <1>1, <2>2, <4>1, <4>3 DEF SumInv
        <5>2. built \in Last + 1 .. built
          BY <4>2, <5>1
        <5>3. QED
          BY <4>1, <4>3, <5>1, <5>2
      <4>4. CASE readIndex = Build
        <5>1. buffers[Build]["checksum"] = SumOf(built - 1, 3)
              /\ Last < built - 1
          BY <1>1, <1>2, <2>2, <4>1, <4>4 DEF SumInv
        <5>2. built - 1 \in Last + 1 .. built /\ built - 1 # built
          BY <4>2, <5>1
        <5>3. QED
          BY <4>1, <4>4, <5>1, <5>2
      <4>5. QED
        BY <1>1, <4>3, <4>4, OtherBuffer DEF LinkType
    <3>2. CASE byteIndex > 1
      <4>1. packet'["checksum"] = packet["checksum"]
        BY <1>5, <1>9, <1>10, <3>2
      <4>2. QED
        BY <1>1, <1>2, <2>2, <3>2, <4>1 DEF PacketInv
    <3>3. QED
      BY <1>2, <1>4, <2>2, <3>1, <3>2
  <2>3. QED
    BY <1>2, <1>3, <2>1, <2>2 DEF PacketInv
<1>15. QED
  BY <1>12, <1>13, <1>14 DEF IInv

\* A stop leaves the buffers as they are or marks the one that was read.
LEMMA StopFacts ==
  ASSUME LinkType, NEW sent, Stop(sent)
  PROVE  /\ buffers' \in [0 .. 1 -> Packets]
         /\ \A i \in 0 .. 1:
              /\ \A c \in Numbers: buffers'[i][c] = buffers[i][c]
              /\ \/ buffers'[i] = buffers[i]
                 \/ buffers'[i]["checksum"]["unread"] = 0
         /\ sent >= Length /\ temp # 0 =>
              buffers'[readIndex]["checksum"]["unread"] = 0
         /\ byteIndex' = 0 /\ readIndex' = active
<1> DEFINE p == buffers[readIndex]
           m == MarkRead(p)
<1>1. buffers \in [0 .. 1 -> Packets] /\ readIndex \in 0 .. 1 /\ p \in Packets
  BY DEF LinkType
<1>2. /\ m \in Packets /\ m["checksum"]["unread"] = 0
      /\ \A c \in Numbers: m[c] = p[c]
  BY <1>1, MarkReadFacts
<1>3. byteIndex' = 0 /\ readIndex' = active
  BY DEF Stop
<1>4. CASE sent >= Length /\ temp # 0
  <2>1. buffers' = [buffers EXCEPT ![readIndex] = m]
    BY <1>4 DEF Stop
  <2> HIDE DEF m
  <2>2. QED
    BY <1>1, <1>2, <1>3, <2>1
<1>5. CASE ~(sent >= Length /\ temp # 0)
  <2>1. buffers' = buffers
    BY <1>5 DEF Stop
  <2>2. QED
    BY <1>1, <1>3, <1>5, <2>1
<1>6. QED
  BY <1>4, <1>5

\* After a stop the published buffer is the one to be read, and a reading of
\* it is newer than the last.
LEMMA StoppedInv ==
  ASSUME IInv, LastInv', transfer' = "none", byteIndex' = 0,
         readIndex' = active, UNCHANGED <<active, main, sum, built, packet>>,
         buffers' \in [0 .. 1 -> Packets],
         \A i \in 0 .. 1:
           /\ \A c \in Numbers: buffers'[i][c] = buffers[i][c]
           /\ \/ buffers'[i] = buffers[i]
              \/ buffers'[i]["checksum"]["unread"] = 0,
         buffers'[active]["checksum"]["unread"] # 0 => Last' < built
  PROVE  IInv'
<1>1. LinkType /\ BuildInv /\ SumInv
  BY DEF IInv
<1>2. Build' = Build /\ Build # active /\ Build \in 0 .. 1
      /\ active \in 0 .. 1
  BY <1>1, OtherBuffer DEF Build
<1>3. LinkType'
  BY <1>1, <1>2, LayoutFacts DEF LinkType
<1>4. BuildInv'
  <2>1. {"powerMains", "rmsMains", "powerMux", "rmsMux", "sequence"}
          \subseteq Numbers
    BY DEF Numbers, Covered, Parts
  <2>2. \A c \in Numbers: buffers'[Build][c] = buffers[Build][c]
    BY <1>2
  <2>3. QED
    BY <1>1, <1>2, <2>1, <2>2 DEF BuildInv
<1>5. SumInv'
  <2>1. buffers'[active]["checksum"]["unread"] # 0 =>
          buffers'[active]["checksum"] = SumOf(built, 3)
    BY <1>1, <1>2 DEF SumInv
  <2>2. buffers'[Build]["checksum"]["unread"] # 0 =>
          IF main = "publish"
          THEN buffers'[Build]["checksum"] = SumOf(built + 1, 3)
          ELSE buffers'[Build]["checksum"] = SumOf(built - 1, 3)
    BY <1>1, <1>2 DEF SumInv
  <2>3. QED
    BY <1>2, <2>1, <2>2 DEF SumInv
<1>6. PacketInv'
  BY DEF PacketInv
<1>7. QED
  BY <1>3, <1>4, <1>5, <1>6 DEF IInv

LEMMA BrokenOffInv ==
  ASSUME IInv, FailRead \/ EndQuery
  PROVE  IInv'
<1>1. LinkType /\ LastInv /\ SumInv
  BY DEF IInv
<1>2. /\ transfer' = "none" /\ byteIndex' = 0 /\ readIndex' = active
      /\ UNCHANGED <<active, main, sum, built, packet, last, lastSequence,
                     missing>>
      /\ Stop(byteIndex) \/ Stop(Length) \/ UNCHANGED buffers
  BY DEF FailRead, EndQuery, Stop, esp
<1>3. /\ buffers' \in [0 .. 1 -> Packets]
      /\ \A i \in 0 .. 1:
           /\ \A c \in Numbers: buffers'[i][c] = buffers[i][c]
           /\ \/ buffers'[i] = buffers[i]
              \/ buffers'[i]["checksum"]["unread"] = 0
  <2>1. CASE Stop(byteIndex) \/ Stop(Length)
    BY <1>1, <2>1, StopFacts
  <2>2. CASE UNCHANGED buffers
    BY <1>1, <2>2 DEF LinkType
  <2>3. QED
    BY <1>2, <2>1, <2>2
<1>4. LastInv' /\ Last' = Last
  BY <1>1, <1>2 DEF LastInv, Last
<1>5. buffers'[active]["checksum"]["unread"] # 0 => Last' < built
  BY <1>1, <1>3, <1>4 DEF SumInv, LinkType
<1>6. QED
  BY <1>2, <1>3, <1>4, <1>5, StoppedInv

\* A packet the ESP32 accepts is whole, of a completed window, newer than the
\* last, and no longer to be read.
LEMMA AcceptedReading ==
  ASSUME IInv, EndRead, Acceptable(packet)
  PROVE  \E w \in Last + 1 .. built:
           /\ last' = [c \in Parts |-> w]
           /\ lastSequence' = w % Modulus
           /\ missing' = missing + Gap(w % Modulus)
           /\ w = built => buffers'[active]["checksum"]["unread"] = 0
<1>1. LinkType /\ PacketInv
  BY DEF IInv
<1>2. /\ transfer = "read" /\ byteIndex = Length /\ Stop(byteIndex)
      /\ last' = Body(packet) /\ lastSequence' = packet["sequence"]
      /\ missing' = missing + Gap(packet["sequence"])
  BY DEF EndRead
<1>3. byteIndex = 7 /\ Length = 7
  BY <1>2, LayoutFacts
<1>4. /\ packet["unread"] # 0
      /\ packet["checksum"] = Checksum(packet, packet["unread"])
  BY DEF Acceptable
<1>5. packet["checksum"]["unread"] = packet["unread"]
      /\ \A c \in Numbers: packet["checksum"][c] = packet[c]
  BY <1>4, ChecksumFacts
<1>6. PICK w \in Last + 1 .. built:
        /\ packet["checksum"] = SumOf(w, 3)
        /\ w = built => readIndex = active
  BY <1>1, <1>2, <1>3, <1>4, <1>5 DEF PacketInv
<1>7. /\ packet["checksum"]["sequence"] = w % Modulus
      /\ \A c \in Parts: packet["checksum"][c] = w
  BY <1>6, SumOfFacts
<1>8. "sequence" \in Numbers /\ Parts \subseteq Numbers
  BY DEF Numbers, Covered, Parts
<1>9. packet["sequence"] = w % Modulus /\ \A c \in Parts: packet[c] = w
  BY <1>5, <1>7, <1>8
<1>10. last' = [c \in Parts |-> w]
  BY <1>2, <1>9 DEF Body
<1>11. temp # 0
  BY <1>1, <1>2, <1>3, <1>4 DEF PacketInv
<1>12. buffers'[readIndex]["checksum"]["unread"] = 0
  BY <1>1, <1>2, <1>3, <1>11, StopFacts
<1>13. QED
  BY <1>2, <1>6, <1>9, <1>10, <1>12

LEMMA EndReadInv ==
  ASSUME IInv, EndRead
  PROVE  IInv'
<1>1. LinkType /\ LastInv /\ SumInv
  BY DEF IInv
<1>2. /\ transfer' = "none" /\ byteIndex' = 0 /\ readIndex' = active
      /\ UNCHANGED <<active, main, sum, built, packet>> /\ Stop(byteIndex)
  BY DEF EndRead, Stop
<1>3. /\ buffers' \in [0 .. 1 -> Packets]
      /\ \A i \in 0 .. 1:
           /\ \A c \in Numbers: buffers'[i][c] = buffers[i][c]
           /\ \/ buffers'[i] = buffers[i]
              \/ buffers'[i]["checksum"]["unread"] = 0
  BY <1>1, <1>2, StopFacts
<1>4. built \in Nat /\ Last \in 0 .. built /\ active \in 0 .. 1
  BY <1>1, LastType DEF LinkType
<1>5. LastInv' /\ (buffers'[active]["checksum"]["unread"] # 0 => Last' < built)
  <2>1. CASE Acceptable(packet)
    <3>1. PICK w \in Last + 1 .. built:
            /\ last' = [c \in Parts |-> w]
            /\ lastSequence' = w % Modulus
            /\ missing' = missing + Gap(w % Modulus)
            /\ w = built => buffers'[active]["checksum"]["unread"] = 0
      BY <2>1, AcceptedReading
    <3>2. w \in 0 .. built' /\ w # 0
      BY <1>2, <1>4
    <3>3. LastInv'
      <4>1. Gap(w % Modulus) \in Nat /\ missing \in Nat
        BY <1>1, <1>4, GapFacts DEF LastInv
      <4>2. missing' \in Nat
        BY <3>1, <4>1
      <4>3. QED
        BY <3>1, <3>2, <4>2 DEF LastInv
    <3>4. Last' = w
      BY <3>1 DEF Last, Parts
    <3>5. QED
      BY <1>4, <3>1, <3>3, <3>4
  <2>2. CASE ~Acceptable(packet)
    <3>1. UNCHANGED <<last, lastSequence, missing>>
      BY <2>2 DEF EndRead
    <3>2. LastInv' /\ Last' = Last
      BY <1>1, <1>2, <3>1 DEF LastInv, Last
    <3>3. QED
      BY <1>1, <1>3, <1>4, <3>2 DEF SumInv
  <2>3. QED
    BY <2>1, <2>2
<1>6. QED
  BY <1>2, <1>3, <1>5, StoppedInv

-------------------------------------------------------------------------------

LEMMA InitInv ==
  ASSUME Init
  PROVE  IInv
<1>1. /\ buffers = [i \in 0 .. 1 |-> Cleared] /\ active = 0 /\ main = "idle"
      /\ sum = Cleared["checksum"] /\ built = 0 /\ readIndex = 0
      /\ byteIndex = 0 /\ temp = 0 /\ transfer = "none" /\ packet = Cleared
      /\ last = Body(Cleared) /\ lastSequence = NotReceived /\ missing = 0
  BY DEF Init
<1>2. buffers[0] = Cleared /\ buffers[1] = Cleared /\ Build = 1
  BY <1>1 DEF Build
<1>3. LinkType
  BY <1>1, ClearedPacket, LayoutFacts DEF LinkType
<1>4. BuildInv
  BY <1>1 DEF BuildInv
<1>5. LastInv
  <2>1. last = [c \in Parts |-> 0]
    BY <1>1, ClearedPacket DEF Body
  <2>2. 0 \in 0 .. built
    BY <1>1
  <2>3. QED
    BY <1>1, <2>1, <2>2 DEF LastInv
<1>6. SumInv
  BY <1>1, <1>2, ClearedPacket DEF SumInv
<1>7. PacketInv
  BY <1>1 DEF PacketInv
<1>8. QED
  BY <1>3, <1>4, <1>5, <1>6, <1>7 DEF IInv

LEMMA NextInv ==
  ASSUME IInv, [Next]_vars
  PROVE  IInv'
<1>1. CASE WindowEnds
  BY <1>1, WindowEndsInv
<1>2. CASE WriteMains
  BY <1>2, WriteMainsInv
<1>3. CASE WriteMux
  BY <1>3, WriteMuxInv
<1>4. CASE WriteSequence
  BY <1>4, WriteSequenceInv
<1>5. CASE WriteUnread
  BY <1>5, WriteUnreadInv
<1>6. CASE ComputeChecksum
  BY <1>6, ComputeChecksumInv
<1>7. CASE WriteChecksum
  BY <1>7, WriteChecksumInv
<1>8. CASE Publish
  BY <1>8, PublishInv
<1>9. CASE StartRead \/ StartQuery \/ StartGarbledQuery
  BY <1>9, StartInv
<1>10. CASE SendByte
  BY <1>10, SendByteInv
<1>11. CASE EndRead
  BY <1>11, EndReadInv
<1>12. CASE FailRead \/ EndQuery
  BY <1>12, BrokenOffInv
<1>13. CASE UNCHANGED vars
  BY <1>13 DEF vars, samd, slave, esp, IInv, LinkType, BuildInv, LastInv,
               SumInv, PacketInv, Build, Last
<1>14. QED
  BY <1>1, <1>2, <1>3, <1>4, <1>5, <1>6, <1>7, <1>8, <1>9, <1>10, <1>11,
     <1>12, <1>13 DEF Next, Main, Transfer

LEMMA Invariance == Spec => []IInv
<1>1. Init => IInv
  BY InitInv
<1>2. IInv /\ [Next]_vars => IInv'
  BY NextInv
<1>3. QED
  BY <1>1, <1>2, PTL DEF Spec

-------------------------------------------------------------------------------
(* The link implements the feed                                            *)

LEMMA FeedStep ==
  ASSUME IInv, [Next]_vars
  PROVE  [Feed!Next]_<<built, last, missing>>
<1>1. LinkType /\ LastInv
  BY DEF IInv
<1>2. built \in Nat /\ Last \in 0 .. built /\ last = [c \in Parts |-> Last]
  BY <1>1, LastType
<1>3. CASE Publish
  <2>1. built' = built + 1 /\ UNCHANGED <<last, missing>>
    BY <1>3 DEF Publish, Step, esp
  <2>2. QED
    BY <2>1 DEF Feed!Next, Feed!Build
<1>4. CASE EndRead
  <2>1. CASE Acceptable(packet)
    <3>1. PICK w \in Last + 1 .. built:
            /\ last' = [c \in Parts |-> w]
            /\ missing' = missing + Gap(w % Modulus)
      BY <1>4, <2>1, AcceptedReading
    <3>2. UNCHANGED built
      BY <1>4 DEF EndRead
    <3> DEFINE gap == Gap(w % Modulus)
    <3>3. /\ gap \in 0 .. w - Last - 1
          /\ Last = 0 => gap = 0
          /\ Last > 0 /\ w - Last < Modulus => gap = w - Last - 1
          /\ missing \in Nat
      BY <1>1, GapFacts DEF LastInv
    <3> HIDE DEF gap
    <3>4. missing' = missing + gap
      BY <3>1 DEF gap
    <3>5. /\ missing' - missing \in 0 .. w - Last - 1
          /\ Last = 0 => missing' = missing
          /\ Last > 0 /\ w - Last < Modulus =>
               missing' - missing = w - Last - 1
      BY <1>1, <1>2, <3>3, <3>4
    <3>6. Feed!Receive(Last, w)
      BY <1>2, <3>1, <3>2, <3>5 DEF Feed!Receive, Feed!Whole
    <3>7. Last \in 0 .. built /\ w \in 0 .. built
      BY <1>2
    <3>8. QED
      BY <3>6, <3>7 DEF Feed!Next
  <2>2. CASE ~Acceptable(packet)
    <3>1. UNCHANGED <<built, last, missing>>
      BY <1>4, <2>2 DEF EndRead
    <3>2. QED
      BY <3>1
  <2>3. QED
    BY <2>1, <2>2
<1>5. CASE UNCHANGED vars
  BY <1>5 DEF vars, samd, esp
<1>6. ASSUME ~Publish, ~EndRead, Next
      PROVE  UNCHANGED <<built, last, missing>>
  <2>1. CASE Main
    BY <1>6, <2>1 DEF Main, WindowEnds, WriteMains, WriteMux, WriteSequence,
       WriteUnread, ComputeChecksum, WriteChecksum, Step, esp
  <2>2. CASE Transfer
    BY <1>6, <2>2 DEF Transfer, StartRead, SendByte, FailRead, StartQuery,
       StartGarbledQuery, EndQuery, samd, esp
  <2>3. QED
    BY <1>6, <2>1, <2>2 DEF Next
<1>7. QED
  BY <1>3, <1>4, <1>5, <1>6

\* The link implements ReadingFeed: every reading the ESP32 submits is whole,
\* of a completed window and newer than the one before, and the ones between
\* are counted, however transfers, interrupts and the main loop interleave.
THEOREM LinkImplementsFeed == Spec => FeedSpec
<1>1. Init => Feed!Init
  <2>1. SUFFICES ASSUME Init PROVE Feed!Init
    OBVIOUS
  <2>2. last = [c \in Parts |-> 0]
    BY <2>1, ClearedPacket DEF Init, Body
  <2>3. QED
    BY <2>1, <2>2 DEF Init, Feed!Init, Feed!Whole
<1>2. IInv /\ [Next]_vars => [Feed!Next]_<<built, last, missing>>
  BY FeedStep
<1>3. QED
  BY <1>1, <1>2, Invariance, PTL DEF Spec, FeedSpec, Feed!Spec

-------------------------------------------------------------------------------
(* Losses                                                                  *)

\* The packet of window w as it is published.
WholeOf(p, w) ==
  /\ p["unread"] = 3 /\ p["checksum"] = SumOf(w, 3)
  /\ \A c \in Numbers: p[c] = SumOf(w, 3)[c]

\* A transfer that meets the main loop, or is none of the readings', is noted.
TroubleInv ==
  /\ transfer # "none" /\ main # "idle" => built \in troubled
  /\ transfer \in {"query", "garbled"} => built \in troubled

\* An untroubled read has its bytes from the buffer as it is.
CopyInv ==
  transfer = "read" /\ built \notin troubled =>
    \A i \in 1 .. byteIndex: packet[Layout[i]] = buffers[readIndex][Layout[i]]

\* Untroubled, the main loop's packet is whole when it is published.
CleanInv ==
  built \notin troubled =>
    /\ main \in {"sum", "checksum", "publish"} => buffers[Build]["unread"] = 3
    /\ main = "checksum" => sum = SumOf(built + 1, 3)
    /\ main \in {"checksum", "publish"} =>
         \A c \in Numbers: buffers[Build][c] = SumOf(built + 1, 3)[c]
    /\ main = "publish" => buffers[Build]["checksum"] = SumOf(built + 1, 3)

\* A reading that must still be received.
Unread(w) == Quiet(w) /\ Last < w

\* A reading not yet received waits: in the published buffer during its own
\* window, which is the one to be read once it was polled, and in the other
\* one in the next window until that is polled.
TurnInv ==
  /\ polled \subseteq 0 .. built
  /\ Unread(built) => WholeOf(buffers[active], built)
  /\ Unread(built) /\ built \in polled => readIndex = active
  /\ (/\ Unread(built - 1) /\ main = "idle"
      /\ built - 1 \in polled /\ built \notin polled)
     => readIndex = Build /\ WholeOf(buffers[Build], built - 1)

\* Polled in its own window and in the next, a quiet reading was received.
Received ==
  \A w \in Nat: {w, w + 1} \subseteq polled /\ Quiet(w) => w <= Last

LossInv == TroubleInv /\ CopyInv /\ CleanInv /\ TurnInv /\ Received

\* The numbers and the sides the loss proofs compare: the last reading is at most
\* the published one, and the reader is on one of the two sides.
LEMMA LastNumber ==
  ASSUME IInv
  PROVE  /\ built \in Nat /\ Last \in Nat /\ Last <= built
         /\ active \in 0 .. 1 /\ Build \in 0 .. 1 /\ Build # active
         /\ readIndex \in {active, Build}
<1>1. LinkType /\ LastInv
  BY DEF IInv
<1>2. built \in Nat /\ Last \in 0 .. built
  BY <1>1, LastType
<1>3. Build \in 0 .. 1 /\ Build # active /\ active \in 0 .. 1
      /\ \A i \in 0 .. 1: i = Build \/ i = active
  BY <1>1, OtherBuffer
<1>4. readIndex \in 0 .. 1
  BY <1>1 DEF LinkType
<1>5. QED
  BY <1>2, <1>3, <1>4

\* A step in a window that has trouble, or gets it, promises nothing of it.
LEMMA StepInTrouble ==
  ASSUME IInv, Received, polled \subseteq 0 .. built, built' = built,
         built \in troubled', troubled \subseteq troubled',
         polled' \subseteq polled \union {built}, Last <= Last', Last' \in Nat
  PROVE  LossInv'
<1>1. built \in Nat /\ Last \in Nat
  BY LastNumber
<1>2. ~Quiet(built)' /\ ~Quiet(built - 1)'
  BY <1>1 DEF Quiet
<1>3. TroubleInv' /\ CopyInv' /\ CleanInv'
  BY DEF TroubleInv, CopyInv, CleanInv
<1>4. TurnInv'
  BY <1>1, <1>2 DEF TurnInv, Unread
<1>5. Received'
  <2> SUFFICES ASSUME NEW w \in Nat, {w, w + 1} \subseteq polled',
                      {w - 1, w, w + 1} \intersect troubled' = {}
               PROVE  w <= Last'
    BY DEF Received, Quiet
  <2>1. w # built /\ w + 1 # built
    OBVIOUS
  <2>2. {w, w + 1} \subseteq polled /\ Quiet(w)
    BY <2>1 DEF Quiet
  <2>3. w <= Last
    BY <2>2 DEF Received
  <2>4. QED
    BY <1>1, <2>3
<1>6. QED
  BY <1>3, <1>4, <1>5 DEF LossInv

\* The steps between the end of a window and the publication of its packet.
Composing == \/ WriteMains \/ WriteMux \/ WriteSequence
             \/ WriteUnread \/ ComputeChecksum \/ WriteChecksum

\* A step that composes a packet leaves the published one and the transfer alone.
LEMMA ComposingFacts ==
  ASSUME IInv, Composing
  PROVE  /\ main # "idle" /\ main' # "idle"
         /\ UNCHANGED <<active, built, troubled, polled, transfer, packet,
                        readIndex, byteIndex, last>>
         /\ buffers'[active] = buffers[active]
<1>1. active \in 0 .. 1 /\ Build # active /\ buffers \in [0 .. 1 -> Packets]
  BY LastNumber DEF IInv, LinkType
<1>2. \A parts, value: Write(parts, value) => buffers'[active] = buffers[active]
  BY <1>1 DEF Write
<1>3. /\ main # "idle" /\ main' # "idle"
      /\ UNCHANGED <<slave, transfer, esp, polled, active, built, troubled>>
  BY DEF Composing, WriteMains, WriteMux, WriteSequence, WriteUnread,
         ComputeChecksum, WriteChecksum, Step
<1>4. buffers'[active] = buffers[active]
  BY <1>2 DEF Composing, WriteMains, WriteMux, WriteSequence, WriteUnread,
              ComputeChecksum, WriteChecksum
<1>5. QED
  BY <1>3, <1>4 DEF slave, esp

\* Undisturbed, every step of the main loop does its part of the packet.
LEMMA ComposingClean ==
  ASSUME IInv, CleanInv, Composing
  PROVE  CleanInv'
<1>1. /\ main # "idle" /\ UNCHANGED <<active, built, troubled>>
  BY ComposingFacts
<1>2. Build' = Build /\ LinkType /\ BuildInv
  BY <1>1 DEF Build, IInv
<1>3. CASE WriteMains \/ WriteMux \/ WriteSequence
  <2>1. main' \in {"mux", "header", "unread"}
    BY <1>3 DEF WriteMains, WriteMux, WriteSequence, Step
  <2>2. QED
    BY <2>1 DEF CleanInv
<1>4. CASE WriteUnread
  <2>1. main' = "sum" /\ Write({"unread"}, 3)
    BY <1>4 DEF WriteUnread, Step
  <2>2. {"unread"} \in SUBSET Fields
    BY DEF Fields, Covered
  <2>3. buffers'[Build]["unread"] = 3
    BY <1>2, <2>1, <2>2, WriteFacts
  <2>4. QED
    BY <1>2, <2>1, <2>3 DEF CleanInv
<1>5. CASE ComputeChecksum
  <2> DEFINE p == buffers[Build]
  <2>1. /\ main = "sum" /\ main' = "checksum" /\ UNCHANGED buffers
        /\ \E unread \in {3, p["unread"]}: sum' = Checksum(p, unread)
    BY <1>5 DEF ComputeChecksum, Step
  <2>2. SUFFICES ASSUME built \notin troubled
                 PROVE  CleanInv'
    BY <1>1 DEF CleanInv
  <2>3. p["unread"] = 3
    BY <2>1, <2>2 DEF CleanInv
  <2>4. sum' = Checksum(p, 3)
    BY <2>1, <2>3
  <2>5. /\ \A c \in Parts: p[c] = built + 1
        /\ p["sequence"] = (built + 1) % Modulus
    BY <1>2, <2>1 DEF BuildInv, Parts
  <2> HIDE DEF p
  <2>6. Checksum(p, 3) = SumOf(built + 1, 3)
    BY <2>5 DEF Checksum, SumOf, Covered
  <2>7. \A c \in Numbers: p[c] = SumOf(built + 1, 3)[c]
    BY <2>6, ChecksumFacts
  <2>8. QED
    BY <1>1, <1>2, <2>1, <2>3, <2>4, <2>6, <2>7 DEF CleanInv, p
<1>6. CASE WriteChecksum
  <2>1. /\ main = "checksum" /\ main' = "publish" /\ Write({"checksum"}, sum)
    BY <1>6 DEF WriteChecksum, Step
  <2>2. SUFFICES ASSUME built \notin troubled
                 PROVE  CleanInv'
    BY <1>1 DEF CleanInv
  <2>3. /\ buffers[Build]["unread"] = 3 /\ sum = SumOf(built + 1, 3)
        /\ \A c \in Numbers: buffers[Build][c] = SumOf(built + 1, 3)[c]
    BY <2>1, <2>2 DEF CleanInv
  <2>4. {"checksum"} \in SUBSET Fields /\ "checksum" \in Fields
        /\ "unread" \in Fields \ {"checksum"}
        /\ Numbers \subseteq Fields \ {"checksum"}
    BY DEF Fields, Numbers, Covered, Parts
  <2>5. sum \in Sums
    BY <1>2, <2>3, NextWindow, SumOfFacts
  <2>6. \A c \in Fields:
          buffers'[Build][c] = IF c \in {"checksum"} THEN sum
                               ELSE buffers[Build][c]
    BY <1>2, <2>1, <2>4, <2>5, WriteFacts
  <2>7. /\ buffers'[Build]["unread"] = 3
        /\ buffers'[Build]["checksum"] = SumOf(built + 1, 3)
        /\ \A c \in Numbers: buffers'[Build][c] = SumOf(built + 1, 3)[c]
    BY <2>3, <2>4, <2>6
  <2>8. QED
    BY <1>1, <1>2, <2>1, <2>7 DEF CleanInv
<1>7. QED
  BY <1>3, <1>4, <1>5, <1>6 DEF Composing

\* The main loop's composing keeps the loss invariant: only its own packet changes.
LEMMA ComposingLoss ==
  ASSUME IInv, LossInv, Composing
  PROVE  LossInv'
<1>1. /\ main # "idle" /\ main' # "idle"
      /\ UNCHANGED <<active, built, troubled, polled, transfer, packet,
                     readIndex, byteIndex, last>>
      /\ buffers'[active] = buffers[active]
  BY ComposingFacts
<1>2. Build' = Build /\ Last' = Last
  BY <1>1 DEF Build, Last
<1>3. TroubleInv' /\ CopyInv'
  BY <1>1 DEF LossInv, TroubleInv, CopyInv
<1>4. CleanInv'
  BY ComposingClean DEF LossInv
<1>5. TurnInv'
  BY <1>1, <1>2 DEF LossInv, TurnInv, Unread, Quiet, WholeOf
<1>6. Received'
  BY <1>1, <1>2 DEF LossInv, Received, Quiet
<1>7. QED
  BY <1>3, <1>4, <1>5, <1>6 DEF LossInv

\* The end of a window in the middle of a transfer is trouble, otherwise nothing
\* of a reading changes.
LEMMA WindowEndsLoss ==
  ASSUME IInv, LossInv, WindowEnds
  PROVE  LossInv'
<1>1. /\ main = "idle" /\ main' = "mains"
      /\ UNCHANGED <<buffers, active, sum, built, transfer, packet, readIndex,
                     byteIndex, last, polled>>
      /\ troubled' = IF transfer = "none" THEN troubled
                     ELSE troubled \union {built}
  BY DEF WindowEnds, Overlap, slave, esp
<1>2. Build' = Build /\ Last' = Last
  BY <1>1 DEF Build, Last
<1>3. CASE transfer = "none"
  <2>1. troubled' = troubled
    BY <1>1, <1>3
  <2>2. TroubleInv' /\ CopyInv' /\ CleanInv'
    BY <1>1, <1>3 DEF TroubleInv, CopyInv, CleanInv
  <2>3. TurnInv'
    BY <1>1, <1>2, <2>1 DEF LossInv, TurnInv, Unread, Quiet, WholeOf
  <2>4. Received'
    BY <1>1, <1>2, <2>1 DEF LossInv, Received, Quiet
  <2>5. QED
    BY <2>2, <2>3, <2>4 DEF LossInv
<1>4. CASE transfer # "none"
  <2>1. /\ built \in troubled' /\ troubled \subseteq troubled'
        /\ polled' \subseteq polled \union {built}
        /\ Last <= Last' /\ Last' \in Nat
    BY <1>1, <1>2, <1>4, LastNumber
  <2>2. Received /\ polled \subseteq 0 .. built /\ built' = built
    BY <1>1 DEF LossInv, TurnInv
  <2>3. QED
    BY <2>1, <2>2, StepInTrouble
<1>5. QED
  BY <1>3, <1>4

\* The published packet is the one to wait for, the one before it moves to
\* the other side with its reader.
LEMMA PublishLoss ==
  ASSUME IInv, LossInv, Publish
  PROVE  LossInv'
<1>1. /\ main = "publish" /\ main' = "idle" /\ active' = Build
      /\ built' = built + 1
      /\ UNCHANGED <<buffers, transfer, packet, readIndex, byteIndex, last,
                     polled>>
      /\ troubled' = IF transfer = "none" THEN troubled
                     ELSE troubled \union {built, built + 1}
  BY DEF Publish, Step, Overlap, slave, esp
<1>2. /\ built \in Nat /\ Last \in Nat /\ built + 1 - 1 = built
      /\ polled \subseteq 0 .. built
  BY LastNumber DEF LossInv, TurnInv
<1>3. Build' = active /\ Last' = Last
  BY <1>1, LastNumber DEF Build, Last
<1>4. CleanInv'
  BY <1>1 DEF CleanInv
<1>5. Received'
  <2>1. troubled \subseteq troubled'
    BY <1>1
  <2>2. QED
    BY <1>1, <1>3, <2>1 DEF LossInv, Received, Quiet
<1>6. polled' \subseteq 0 .. built' /\ built' \notin polled'
  BY <1>1, <1>2
<1>7. CASE transfer = "none"
  <2>1. troubled' = troubled
    BY <1>1, <1>7
  <2>2. TroubleInv' /\ CopyInv'
    BY <1>1, <1>7 DEF TroubleInv, CopyInv
  <2>3. (Unread(built) => WholeOf(buffers[active], built))'
    <3>1. SUFFICES ASSUME Unread(built)'
                   PROVE  WholeOf(buffers[active], built)'
      OBVIOUS
    <3>2. built' - 1 \notin troubled'
      BY <3>1 DEF Unread, Quiet
    <3>3. built' - 1 = built /\ built \notin troubled
      BY <1>1, <1>2, <2>1, <3>2
    <3>4. WholeOf(buffers[Build], built + 1)
      BY <1>1, <3>3 DEF LossInv, CleanInv, WholeOf
    <3>5. QED
      BY <1>1, <3>4 DEF WholeOf
  <2>4. built' - 1 = built
    BY <1>1, <1>2
  <2>5. ASSUME Unread(built - 1)', (built - 1)' \in polled'
        PROVE  (readIndex = Build /\ WholeOf(buffers[Build], built - 1))'
    <3>1. Unread(built)
      BY <1>1, <1>3, <2>1, <2>4, <2>5 DEF Unread, Quiet
    <3>2. built \in polled
      BY <1>1, <2>4, <2>5
    <3>3. readIndex = active /\ WholeOf(buffers[active], built)
      BY <3>1, <3>2 DEF LossInv, TurnInv
    <3>4. QED
      BY <1>1, <1>3, <2>4, <3>3 DEF WholeOf
  <2>6. TurnInv'
    BY <1>6, <2>3, <2>5, <1>1, <1>2, <2>4 DEF TurnInv
  <2>7. QED
    BY <1>4, <1>5, <2>2, <2>6 DEF LossInv
<1>8. CASE transfer # "none"
  <2>1. built \in troubled' /\ built' \in troubled'
    BY <1>1, <1>8
  <2>2. ~Quiet(built)' /\ ~Quiet(built - 1)'
    BY <1>1, <1>2, <2>1 DEF Quiet
  <2>3. TroubleInv' /\ CopyInv'
    BY <2>1 DEF TroubleInv, CopyInv
  <2>4. TurnInv'
    BY <1>6, <2>2 DEF TurnInv, Unread
  <2>5. QED
    BY <1>4, <1>5, <2>3, <2>4 DEF LossInv
<1>9. QED
  BY <1>7, <1>8

\* A transfer that starts while the main loop works, or that is a query, is
\* trouble; any other starts with no byte sent.
LEMMA StartLoss ==
  ASSUME IInv, LossInv, StartRead \/ StartQuery \/ StartGarbledQuery
  PROVE  LossInv'
<1>1. /\ transfer = "none" /\ troubled \subseteq troubled'
      /\ UNCHANGED <<buffers, active, main, sum, built, last, polled>>
  BY DEF StartRead, StartQuery, StartGarbledQuery, Start, samd, esp
<1>2. Build' = Build /\ Last' = Last /\ built \in Nat /\ Last \in Nat
  BY <1>1, LastNumber DEF Build, Last
<1>3. Received /\ polled \subseteq 0 .. built
  BY DEF LossInv, TurnInv
<1>4. CASE built \in troubled'
  BY <1>1, <1>2, <1>3, <1>4, StepInTrouble
<1>5. CASE built \notin troubled'
  <2>1. /\ transfer' = "read" /\ main = "idle" /\ troubled' = troubled
        /\ UNCHANGED <<readIndex, byteIndex>>
    BY <1>5 DEF StartRead, StartQuery, StartGarbledQuery, Start, slave
  <2>2. byteIndex = 0
    BY <1>1 DEF IInv, LinkType
  <2>3. TroubleInv' /\ CopyInv' /\ CleanInv'
    BY <1>1, <2>1, <2>2 DEF TroubleInv, CopyInv, CleanInv
  <2>4. TurnInv'
    BY <1>1, <1>2, <2>1 DEF LossInv, TurnInv, Unread, Quiet, WholeOf
  <2>5. Received'
    BY <1>1, <1>2, <2>1 DEF LossInv, Received, Quiet
  <2>6. QED
    BY <2>3, <2>4, <2>5 DEF LossInv
<1>6. QED
  BY <1>4, <1>5

\* Every byte sent is the published packet's at its place.
LEMMA SendByteLoss ==
  ASSUME IInv, LossInv, SendByte
  PROVE  LossInv'
<1> DEFINE part == Layout[byteIndex + 1]
<1>1. /\ packet' = [packet EXCEPT ![part] = buffers[readIndex][part]]
      /\ byteIndex' = byteIndex + 1 /\ transfer = "read"
      /\ byteIndex < Length
      /\ UNCHANGED <<buffers, active, main, sum, built, readIndex, transfer,
                     last, polled, troubled>>
  BY DEF SendByte, samd
<1>2. Build' = Build /\ Last' = Last
  BY <1>1 DEF Build, Last
<1>3. byteIndex \in Nat /\ packet \in [Fields -> Nat \union Sums]
      /\ byteIndex + 1 \in 1 .. 7
  BY <1>1, LayoutFacts DEF IInv, LinkType, Packets
<1>4. \A i \in 1 .. 7: Layout[i] \in Fields
  BY LayoutFacts DEF Fields, Covered
<1>5. CopyInv'
  <2>1. SUFFICES ASSUME built \notin troubled, NEW i \in 1 .. byteIndex + 1
                 PROVE  packet'[Layout[i]] = buffers[readIndex][Layout[i]]
    BY <1>1 DEF CopyInv
  <2>2. Layout[i] \in Fields
    BY <1>3, <1>4
  <2> HIDE DEF part
  <2>3. packet'[Layout[i]] = IF Layout[i] = part THEN buffers[readIndex][part]
                             ELSE packet[Layout[i]]
    BY <1>1, <1>3, <2>2
  <2>4. CASE i = byteIndex + 1
    BY <2>3, <2>4 DEF part
  <2>5. CASE i # byteIndex + 1
    <3>1. i \in 1 .. byteIndex
      BY <1>3, <2>5
    <3>2. packet[Layout[i]] = buffers[readIndex][Layout[i]]
      BY <1>1, <2>1, <3>1 DEF LossInv, CopyInv
    <3>3. QED
      BY <2>3, <3>2
  <2>6. QED
    BY <2>4, <2>5
<1>6. TroubleInv' /\ CleanInv'
  BY <1>1, <1>2 DEF LossInv, TroubleInv, CleanInv
<1>7. TurnInv'
  BY <1>1, <1>2 DEF LossInv, TurnInv, Unread, Quiet, WholeOf
<1>8. Received'
  BY <1>1, <1>2 DEF LossInv, Received, Quiet
<1>9. QED
  BY <1>5, <1>6, <1>7, <1>8 DEF LossInv

\* What was copied untroubled from a whole packet is taken.
LEMMA WholeAccepted ==
  ASSUME IInv, CopyInv, EndRead, built \notin troubled, NEW w \in Nat,
         WholeOf(buffers[readIndex], w)
  PROVE  last'["rmsMux"] = w
<1> DEFINE p == buffers[readIndex]
<1>1. transfer = "read" /\ byteIndex = 7
  BY LayoutFacts DEF EndRead
<1>2. \A i \in 1 .. 7: packet[Layout[i]] = p[Layout[i]]
  BY <1>1 DEF CopyInv
<1>3. \A c \in Fields: packet[c] = p[c]
  <2>1. Range(Layout) = {Layout[i]: i \in 1 .. 7}
    BY DEF Layout, Range
  <2>2. QED
    BY <1>2, <2>1, LayoutFacts
<1>4. "unread" \in Fields /\ "checksum" \in Fields /\ Numbers \subseteq Fields
  BY DEF Fields, Numbers, Covered
<1>5. /\ packet["unread"] = 3 /\ packet["checksum"] = SumOf(w, 3)
      /\ \A c \in Numbers: packet[c] = SumOf(w, 3)[c]
  BY <1>3, <1>4 DEF WholeOf
<1>6. Checksum(packet, 3) = SumOf(w, 3)
  <2>1. \A c \in Covered: c # "unread" => packet[c] = SumOf(w, 3)[c]
    BY <1>5 DEF Numbers
  <2>2. SumOf(w, 3) = [c \in Covered |-> SumOf(w, 3)[c]]
    BY DEF SumOf
  <2>3. SumOf(w, 3)["unread"] = 3
    BY SumOfFacts
  <2>4. QED
    BY <2>1, <2>2, <2>3 DEF Checksum
<1>7. Acceptable(packet)
  BY <1>5, <1>6 DEF Acceptable
<1>8. last' = Body(packet)
  BY <1>7 DEF EndRead
<1>9. packet["rmsMux"] = w
  <2>1. "rmsMux" \in Parts /\ "rmsMux" \in Numbers
    BY DEF Parts, Numbers, Covered
  <2>2. QED
    BY <1>5, <2>1, SumOfFacts
<1>10. QED
  BY <1>8, <1>9 DEF Body, Parts

\* The stop of a read turns the reader to the published side.  Either the packet it
\* read was a waiting reading, which is taken, or it was the other side's.
LEMMA EndReadLoss ==
  ASSUME IInv, LossInv, EndRead
  PROVE  LossInv'
<1>1. /\ transfer = "read" /\ transfer' = "none" /\ readIndex' = active
      /\ polled' = polled \union {built}
      /\ UNCHANGED <<active, main, sum, built, packet, troubled>>
      /\ Stop(byteIndex)
  BY DEF EndRead, Stop
<1>2. /\ built \in Nat /\ Last \in Nat /\ Last <= built /\ Build' = Build
      /\ Build # active /\ active \in 0 .. 1 /\ readIndex \in {active, Build}
      /\ polled \subseteq 0 .. built
  BY <1>1, LastNumber DEF Build, LossInv, TurnInv
<1>3. Last <= Last' /\ Last' \in Nat
  <2>1. CASE Acceptable(packet)
    <3>1. PICK w \in Last + 1 .. built: last' = [c \in Parts |-> w]
      BY <2>1, AcceptedReading
    <3>2. Last' = w
      BY <3>1 DEF Last, Parts
    <3>3. QED
      BY <1>2, <3>2
  <2>2. CASE ~Acceptable(packet)
    BY <1>2, <2>2 DEF EndRead, Last
  <2>3. QED
    BY <2>1, <2>2
<1>4. CASE built \in troubled
  <2>1. Received
    BY DEF LossInv
  <2>2. QED
    BY <1>1, <1>2, <1>3, <1>4, <2>1, StepInTrouble
<1>5. CASE built \notin troubled
  <2>1. main = "idle" /\ CopyInv
    BY <1>1, <1>5 DEF LossInv, TroubleInv
  <2>2. \A w \in Nat: WholeOf(buffers[readIndex], w) => Last' = w
    BY <1>5, <2>1, WholeAccepted DEF Last
  <2>3. TroubleInv' /\ CopyInv' /\ CleanInv'
    BY <1>1, <2>1 DEF TroubleInv, CopyInv, CleanInv
  <2>4. Unread(built)' => WholeOf(buffers'[active], built)
    <3>1. SUFFICES ASSUME Unread(built)'
                   PROVE  WholeOf(buffers'[active], built)
      OBVIOUS
    <3>2. Unread(built) /\ Last' < built
      BY <1>1, <1>2, <1>3, <3>1 DEF Unread, Quiet
    <3>3. WholeOf(buffers[active], built)
      BY <3>2 DEF LossInv, TurnInv
    <3>4. readIndex # active
      BY <1>2, <1>3, <2>2, <3>2, <3>3
    <3>5. buffers'[active] = buffers[active]
      BY <1>1, <1>2, <3>4 DEF Stop, IInv, LinkType
    <3>6. QED
      BY <3>3, <3>5
  <2>5. TurnInv'
    <3>1. polled' \subseteq 0 .. built /\ built \in polled'
      BY <1>1, <1>2
    <3>2. QED
      BY <1>1, <2>4, <3>1 DEF TurnInv
  <2>6. Received'
    <3>1. SUFFICES ASSUME NEW w \in Nat, {w, w + 1} \subseteq polled', Quiet(w)
                   PROVE  w <= Last'
      BY <1>1 DEF Received, Quiet
    <3>2. CASE {w, w + 1} \subseteq polled
      <4>1. w <= Last
        BY <3>1, <3>2 DEF LossInv, Received
      <4>2. QED
        BY <1>2, <1>3, <4>1
    <3>3. CASE ~({w, w + 1} \subseteq polled)
      <4>1. w + 1 = built /\ w = built - 1 /\ w \in polled /\ built \notin polled
        BY <1>1, <1>2, <3>1, <3>3
      <4>2. SUFFICES ASSUME Last' < w
                     PROVE  FALSE
        BY <1>3
      <4>3. Unread(w)
        BY <1>2, <1>3, <3>1, <4>2 DEF Unread
      <4>4. readIndex = Build /\ WholeOf(buffers[Build], w)
        BY <2>1, <4>1, <4>3 DEF LossInv, TurnInv
      <4>5. QED
        BY <1>3, <2>2, <4>2, <4>4
    <3>4. QED
      BY <3>2, <3>3
  <2>7. QED
    BY <2>3, <2>5, <2>6 DEF LossInv
<1>6. QED
  BY <1>4, <1>5

\* Every step keeps the loss invariant.
LEMMA LossStep ==
  ASSUME IInv, LossInv, [Next]_vars
  PROVE  LossInv'
<1>1. CASE Composing
  BY <1>1, ComposingLoss
<1>2. CASE FailRead \/ EndQuery
  <2>1. /\ troubled' = troubled \union {built}
        /\ UNCHANGED <<built, last, polled>>
    BY <1>2 DEF FailRead, EndQuery, esp
  <2>2. Last' = Last /\ Last \in Nat /\ Received /\ polled \subseteq 0 .. built
    BY <2>1, LastNumber DEF Last, LossInv, TurnInv
  <2>3. QED
    BY <2>1, <2>2, StepInTrouble
<1>3. CASE UNCHANGED vars
  BY <1>3 DEF vars, samd, slave, esp, LossInv, TroubleInv, CopyInv, CleanInv,
              TurnInv, Received, Unread, Quiet, WholeOf, Last, Build
<1>4. QED
  BY <1>1, <1>2, <1>3, WindowEndsLoss, PublishLoss, StartLoss, SendByteLoss,
     EndReadLoss DEF Next, Main, Transfer, Composing

\* A reading the ESP32 skips was not polled both in its own window and in the
\* next, or a transfer in or beside its window met the main loop, failed or was a
\* query: the double buffer and the checksum alone lose nothing.
THEOREM LossesHaveCauses == Spec => LossHasCause
<1>1. Init => LossInv
  <2>1. SUFFICES ASSUME Init PROVE LossInv
    OBVIOUS
  <2>2. built = 0 /\ main = "idle" /\ transfer = "none" /\ polled = {}
    BY <2>1 DEF Init
  <2>3. Last \in Nat
    BY <2>1, InitInv, LastNumber
  <2>4. ~Unread(built) /\ ~(built - 1 \in polled)
    BY <2>2, <2>3 DEF Unread
  <2>5. QED
    BY <2>2, <2>4 DEF LossInv, TroubleInv, CopyInv, CleanInv, TurnInv, Received
<1>2. IInv /\ LossInv /\ [Next]_vars => LossInv'
  BY LossStep
<1>3. IInv /\ LossInv
        => [last' # last =>
              \A w \in last.rmsMux + 1 .. last'.rmsMux - 1:
                {w, w + 1} \subseteq polled => ~Quiet(w)]_vars
  <2>1. SUFFICES ASSUME IInv, LossInv,
                        NEW w \in last.rmsMux + 1 .. last'.rmsMux - 1,
                        {w, w + 1} \subseteq polled, Quiet(w)
                 PROVE  FALSE
    OBVIOUS
  <2>2. Last \in Nat /\ w \in Int /\ w >= Last + 1
    BY <2>1, LastNumber DEF Last
  <2>3. w \in Nat
    BY <2>2
  <2>4. w <= Last
    BY <2>1, <2>3 DEF LossInv, Received
  <2>5. QED
    BY <2>2, <2>4
<1>4. QED
  BY <1>1, <1>2, <1>3, Invariance, PTL DEF Spec, LossHasCause
=============================================================================
