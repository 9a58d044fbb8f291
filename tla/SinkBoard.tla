----------------------------- MODULE SinkBoard ------------------------------
(***************************************************************************)
(* The aggregator as its sinks see it: a board of levels, of which every   *)
(* change is handed to every sink.  The aggregator implements the board    *)
(* and the handing over (Aggregator!BoardSpec, Aggregator!SinksCurrent).   *)
(***************************************************************************)
EXTENDS Integers

CONSTANTS Nodes, Levels, None, Timeout, Deadline    \* see DiagnosticsBoard

VARIABLES board, silent                             \* see DiagnosticsBoard

Board == INSTANCE DiagnosticsBoard

(* The deadline leaves room for a stale check after the timeout.           *)
ASSUME BoardAssumption ==
    /\ Timeout \in Nat /\ Deadline \in Nat /\ Timeout < Deadline
    /\ Levels \subseteq 0..255 /\ None \notin Int
=============================================================================
