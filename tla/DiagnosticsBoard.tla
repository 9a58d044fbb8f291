-------------------------- MODULE DiagnosticsBoard --------------------------
(***************************************************************************)
(* What the diagnostics aggregator promises to whoever reads its state:    *)
(* one level per node that ever reported, changed only by a report or by   *)
(* silence.  A node is declared STALE only after more than Timeout without *)
(* a report, and never stays undeclared as long as Deadline.               *)
(***************************************************************************)
EXTENDS Integers

CONSTANTS Nodes,        \* the nodes that may report
          Levels,       \* the levels a report may carry
          None,         \* the entry of a node that never reported
          Timeout,      \* stale_timeout_sec, in ticks
          Deadline      \* no silence this long goes unnoticed; also where ages saturate

VARIABLES board,        \* level of each node, None before its first report
          silent        \* ticks since the node's last report

bvars == <<board, silent>>

Stale == 3              \* the level that stands for STALE

Aged(age) == IF age < Deadline THEN age + 1 ELSE age

Known == {n \in Nodes : board[n] # None}

Init == /\ board = [n \in Nodes |-> None]
        /\ silent = [n \in Nodes |-> 0]

(* A report replaces the node's level, whatever it was, and ends its silence. *)
Report(n, level) ==
    /\ board' = [board EXCEPT ![n] = level]
    /\ silent' = [silent EXCEPT ![n] = 0]

(* A set of nodes is declared stale: each silent for more than Timeout. *)
Expire(S) ==
    /\ S # {}
    /\ \A n \in S : board[n] # Stale /\ silent[n] > Timeout
    /\ board' = [n \in Nodes |-> IF n \in S THEN Stale ELSE board[n]]
    /\ UNCHANGED silent

(* Time passes, but never beyond the deadline of a node not yet declared. *)
Pass ==
    /\ silent' = [n \in Nodes |-> IF n \in Known THEN Aged(silent[n]) ELSE silent[n]]
    /\ \A n \in Known : board[n] # Stale => silent'[n] < Deadline
    /\ UNCHANGED board

Next ==
    \/ \E n \in Nodes, level \in Levels : Report(n, level)
    \/ \E S \in SUBSET Known : Expire(S)
    \/ Pass

Spec == Init /\ [][Next]_bvars
=============================================================================
