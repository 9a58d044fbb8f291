--------------------------- MODULE RateLimitedSink --------------------------
(***************************************************************************)
(* A sink that shows the state of the aggregator at a limited rate:        *)
(* RosDiagnosticsSink, which publishes it on a topic, and StdoutSink,      *)
(* which prints it.  Neither has a timer: publish_state either shows the   *)
(* state it is given or forgets it.                                        *)
(***************************************************************************)
EXTENDS SinkBoard, Throttle

CONSTANT ShowInterval   \* _publish_period_sec or _interval_sec, in ticks

ASSUME PeriodAssumption == ShowInterval \in Nat \ {0}

VARIABLES
    shown,          \* the state shown last
    sinceShown,     \* age of _last_publish_time or _last_print
    sinceGiven      \* history: age of the last call of publish_state

showVars == <<shown, sinceShown, sinceGiven>>

ShowHorizon == ShowInterval + Deadline
ShowAged(age) == IF age = Never \/ age = ShowHorizon THEN age ELSE age + 1

ShowTypeOK ==
    /\ shown \in [Nodes -> Levels \union {Board!Stale, None}]
    /\ sinceShown \in 0..ShowHorizon \union {Never}
    /\ sinceGiven \in 0..ShowHorizon \union {Never}

ShowInit ==
    /\ shown = board
    /\ sinceShown = Never
    /\ sinceGiven = Never

AfterWithholding_Restarts == 0
AfterWithholding == sinceShown

(* publish_state.                                                          *)
Show(states) ==
    /\ sinceGiven' = 0
    /\ IF MayPublish(sinceShown, ShowInterval)
       THEN shown' = states /\ sinceShown' = 0
       ELSE sinceShown' = AfterWithholding /\ UNCHANGED shown

ShowTick ==
    /\ sinceShown' = ShowAged(sinceShown)
    /\ sinceGiven' = ShowAged(sinceGiven)
    /\ UNCHANGED shown

-----------------------------------------------------------------------------
(* Properties.                                                             *)

(* The sink is at most one interval behind: what it shows is the current   *)
(* state, unless the last state it was given came within the interval of   *)
(* the one it shows.                                                       *)
WithheldIsYoung == shown # board => sinceShown < ShowInterval + sinceGiven
=============================================================================
