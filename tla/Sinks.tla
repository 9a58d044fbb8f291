------------------------------- MODULE Sinks --------------------------------
(***************************************************************************)
(* The sinks behind one aggregator: each report is handled and then        *)
(* published, each expiry published, to a sink that shows the state and to *)
(* one that records it, in the order of the list (aggregator.py, 181-194;  *)
(* aggregator_node.py, build_sinks).  They differ in what they lose when   *)
(* the reports stop: neither has a timer.                                  *)
(***************************************************************************)
EXTENDS RateLimitedSink, InfluxSink

vars == <<board, silent, showVars, bufferVars>>

TypeOK ==
    /\ board \in [Nodes -> Levels \union {Board!Stale, None}]
    /\ silent \in [Nodes -> 0..Deadline]
    /\ ShowTypeOK
    /\ BufferTypeOK

Init == Board!Init /\ ShowInit /\ BufferInit

(* process_message: handled by each sink, then published to it.            *)
(* Bound: a node reports at most once a tick.                              *)
Report(n, level) ==
    /\ open
    /\ board[n] = None \/ silent[n] > 0
    /\ Board!Report(n, level)
    /\ Show(board')
    /\ BufferAndFlush(level)

(* A stale check that marks S.                                             *)
Expire(S) == open /\ Board!Expire(S) /\ Show(board') /\ FlushOnly

(* The aggregator closes its sinks: nothing is handed over after that.     *)
Close == open /\ CloseBuffer /\ UNCHANGED <<board, silent, showVars>>

Tick == open /\ Board!Pass /\ ShowTick /\ BufferTick

Closed == ~open /\ UNCHANGED vars

ReportAny == \E n \in Nodes, level \in Levels : Report(n, level)
ExpireAny == \E S \in SUBSET Board!Known : Expire(S)

Next == ReportAny \/ ExpireAny \/ Tick \/ Close \/ Closed

Spec == Init /\ [][Next]_vars

(* Time passes, the stale check runs, and some node goes on reporting.     *)
FairSpec == Spec /\ WF_vars(Tick) /\ WF_vars(ExpireAny) /\ WF_vars(ReportAny)

-----------------------------------------------------------------------------
(* Properties, besides those of the two sinks.                             *)

(* A node that stays silent while another one goes on reporting is shown   *)
(* as STALE in the end, whatever the sink withheld on the way.             *)
SilenceIsShown ==
    \A n \in Nodes :
        open /\ board[n] # None ~> ~open \/ silent[n] = 0 \/ shown[n] = Board!Stale
=============================================================================
