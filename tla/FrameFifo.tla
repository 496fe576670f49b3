------------------------------ MODULE FrameFifo ------------------------------
(***************************************************************************)
(* What the firmware's frame buffers promise to the link: a queue of at    *)
(* most Depth finished frames, numbered in the order they were made.  A    *)
(* frame that finds the queue full is lost and its number is not used      *)
(* again; a frame in the queue does not change; frames leave in order.     *)
(***************************************************************************)
EXTENDS Naturals, Sequences

CONSTANT Depth

VARIABLES made, queue

Init == made = 0 /\ queue = <<>>

Put ==
  /\ Len(queue) < Depth
  /\ Len(queue') = Len(queue) + 1
  /\ \A i \in 1 .. Len(queue) : queue'[i] = queue[i]
  /\ queue'[Len(queue')].sequence = made
  /\ made' = made + 1

Lose == Len(queue) = Depth /\ queue' = queue /\ made' = made + 1

Take == queue # <<>> /\ queue' = Tail(queue) /\ made' = made

Next == Put \/ Lose \/ Take

Spec == Init /\ [][Next]_<<made, queue>>
=============================================================================
