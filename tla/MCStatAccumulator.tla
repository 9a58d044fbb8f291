------------------------- MODULE MCStatAccumulator --------------------------
(* Instances of StatAccumulator for TLC. *)
EXTENDS StatAccumulator

(* Below 2 or more than 4 samples warn; above 2, or more than 5, is an     *)
(* error.  The warning limit of the upper peak is the wider one, as        *)
(* nothing in the code forbids.                                            *)
WarnLimits == [peakMin |-> 2, peakMax |-> 3, countMin |-> 1, countMax |-> 4]
ErrorLimits == [peakMin |-> 1, peakMax |-> 2, countMin |-> 1, countMax |-> 5]
=============================================================================
