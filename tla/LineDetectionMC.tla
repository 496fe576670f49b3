---------------------------- MODULE LineDetectionMC ----------------------------
(***************************************************************************)
(* The circuit of the model-checked instance: an inductive load on line 2, *)
(* off, on with a current lag of 30 degrees, and on with a lag of 10       *)
(* degrees.  The correlation with the line itself and with the two others  *)
(* is the apparent power times the cosine of the lag, of the lag less 120  *)
(* and of the lag plus 120 degrees.  Both draw the same current: between   *)
(* them only the phasor turns, by more than the smallest change that       *)
(* starts a transition.                                                    *)
(***************************************************************************)
EXTENDS LineDetection

Point(self, next, other, i, degrees) ==
  [score |-> <<other, self, next>>, current |-> i, lag |-> degrees]

MCLoads == {Point(0, 0, 0, 0, 30), Point(18, -18, 0, 20, 30),
            Point(20, -7, -13, 20, 10)}
MCRatio == <<3, 2>>
===============================================================================
