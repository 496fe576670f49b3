------------------------------ MODULE ReadingFeed ------------------------------
(***************************************************************************)
(* What the I2C link promises: the firmware completes one measurement      *)
(* window after the other, and the component receives some of them, each   *)
(* whole, none twice and none after a later one, and counts those it did   *)
(* not receive.                                                            *)
(***************************************************************************)
EXTENDS Integers

CONSTANTS
  Parts,    \* the parts of a reading
  Modulus   \* of the sequence number, which limits what can be counted

VARIABLES
  built,    \* windows completed so far
  last,     \* the last reading received: of which window each part is
  missing   \* readings counted as not received

Whole(w) == [p \in Parts |-> w]

Init == built = 0 /\ last = Whole(0) /\ missing = 0

Build == built' = built + 1 /\ UNCHANGED <<last, missing>>

\* Counting starts with the first reading, and is exact up to the modulus.
Receive(v, w) ==
  /\ last = Whole(v) /\ last' = Whole(w) /\ v < w /\ w <= built
  /\ missing' - missing \in 0 .. w - v - 1
  /\ v = 0 => missing' = missing
  /\ v > 0 /\ w - v < Modulus => missing' - missing = w - v - 1
  /\ UNCHANGED built

Next == Build \/ \E v, w \in 0 .. built: Receive(v, w)

Spec == Init /\ [][Next]_<<built, last, missing>>
===============================================================================
