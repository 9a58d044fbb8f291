--------------------------- MODULE HostCollectors ---------------------------
(***************************************************************************)
(* One pass of the host monitor over its collectors, in the order of       *)
(* build_collectors: those that only read something and may be slow at it, *)
(* the network counters, and the two commands.  HostMonitor has the loop   *)
(* around a pass and what becomes of the samples; here are the collectors' *)
(* own states, which last from pass to pass, and the time they take.  The  *)
(* battery and Xenomai collectors, after the counters and at the end, keep *)
(* no state, wait for nothing, and are left out of the pass.               *)
(***************************************************************************)
EXTENDS CommandCollector, CounterRates

CONSTANTS
    MinPeriod, MaxPeriod,   \* the monitor's passes start this far apart, see
                            \* HostMonitor!Paced, or later after an overrun
    MaxHang                 \* bound: ticks of a pass beyond MaxWork

ASSUME PeriodAssumption == MinPeriod \in Nat \ {0} /\ MaxPeriod \in Nat /\ MinPeriod <= MaxPeriod
ASSUME HangAssumption == MaxHang \in Nat

VARIABLE turn       \* the collector that is due; "asleep" between passes

vars == <<turn, sincePass, rateVars, commandVars>>

(* What the monitor may count on for the length of a pass.                 *)
MaxWork == MaxDelay + Patience["gpu"] + Patience["tegrastats"] + Grace

TypeOK ==
    /\ turn \in {"asleep", "network", "gpu", "tegrastats"}
    /\ CommandTypeOK
    /\ RatesTypeOK

Init == turn = "asleep" /\ CommandInit /\ RatesInit

After == [network |-> "gpu", gpu |-> "tegrastats", tegrastats |-> "asleep"]

BeginPass ==
    /\ turn = "asleep"
    /\ sincePrevious # Absent => sincePass >= MinPeriod
    /\ turn' = "network"
    /\ sincePass' = 0
    /\ hung' = FALSE
    /\ UNCHANGED <<rateVars, callVars, latchVars, outcome, reported>>

SampleNetwork(present) ==
    /\ turn = "network"
    /\ SampleCounters(present)
    /\ turn' = After[turn]
    /\ UNCHANGED <<sincePass, commandVars>>

NetworkUnread ==
    /\ turn = "network"
    /\ CountersUnread
    /\ turn' = After[turn]
    /\ UNCHANGED <<sincePass, commandVars>>

(* A command is called once a pass.                                        *)
BeginCall == \E t \in Tools : turn = t /\ Call(t) /\ UNCHANGED <<turn, sincePass, rateVars>>
Skip == \E t \in Tools : turn = t /\ SkipCall(t) /\ turn' = After[t] /\ UNCHANGED <<sincePass, rateVars>>
InCall == CommandStep /\ UNCHANGED <<turn, sincePass, rateVars>>
EndCall == Leave /\ turn' = After[turn] /\ UNCHANGED <<sincePass, rateVars>>
Child == (ChildWrites \/ ChildExits) /\ UNCHANGED <<turn, sincePass, rateVars>>

(* Time passes between the passes, before the network collector reads, and *)
(* while a command is waited for.                                          *)
Tick ==
    /\ \/ turn = "asleep" /\ sincePass < MaxPeriod /\ UNCHANGED commandVars
       \/ turn = "network" /\ sincePass < MaxDelay /\ UNCHANGED commandVars
       \/ sincePass < MaxWork + MaxHang /\ CommandTick
    /\ RatesTick
    /\ UNCHANGED turn

Next ==
    \/ BeginPass
    \/ \E present \in SUBSET Interfaces : SampleNetwork(present)
    \/ NetworkUnread
    \/ BeginCall \/ Skip \/ InCall \/ EndCall
    \/ Child \/ Tick

Spec == Init /\ [][Next]_vars

-----------------------------------------------------------------------------
(* Properties, besides those of the command collectors.                    *)

(* A rate divides by the time its counters were read apart, up to the time *)
(* a pass takes before it reads: also for an interface that was away in    *)
(* between, and after samples that failed.                                 *)
RatesSpanTheirTime ==
    [][\A present \in SUBSET Interfaces : SampleNetwork(present) =>
          \A i \in Rated(present) : previous[i] - Elapsed \in (-MaxDelay)..MaxDelay]_vars

(* The commands keep a pass within their timeouts and one grace, unless    *)
(* tegrastats stops in the middle of a line or a killed command does not   *)
(* go away: MaxWork is what HostMonitor may assume of a pass.              *)
PassIsBounded == turn # "asleep" /\ ~hung => sincePass <= MaxWork
=============================================================================
