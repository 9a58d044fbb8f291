---------------------------- MODULE SampleAlerts ----------------------------
(***************************************************************************)
(* The alerts of a sample on their way to a level: a collector puts one    *)
(* observation per quantity it could read into a sample, evaluate() folds  *)
(* them into the states of HealthEvaluator, and the sample is published    *)
(* with the worst level among the alerts it observed (_publish_sample).    *)
(*                                                                         *)
(* A quantity may be missing from a sample (no swap, a file system that    *)
(* cannot be read, a battery that is plugged in), and two of them may      *)
(* share a key (sensors of one chip name and label, mount points that      *)
(* differ in characters sanitize_name replaces).                           *)
(***************************************************************************)
EXTENDS HealthEvaluator, Sequences

CONSTANTS
    Samples,        \* kinds of samples; a behaviour is about one of them
    AlertsOf,       \* for each, the quantities it may observe, once each, in order
    KeyOf,          \* for each quantity, its alert key
    Optional,       \* the quantities that may be missing from a sample
    Bare            \* the samples published even without an observation

Alerts == UNION {{AlertsOf[s][i] : i \in DOMAIN AlertsOf[s]} : s \in Samples}

ASSUME AlertsAssumption ==
    /\ AlertsOf \in [Samples -> Seq(Alerts)]
    /\ \A s \in Samples : \A i, j \in DOMAIN AlertsOf[s] :
           AlertsOf[s][i] = AlertsOf[s][j] => i = j
    /\ KeyOf \in [Alerts -> Keys]
    /\ Optional \subseteq Alerts /\ Bare \subseteq Samples

VARIABLES
    sample,         \* the kind of sample
    turn,           \* index of the observation being evaluated, 0 between calls
    active,         \* worst level active so far in this call of evaluate
    seen,           \* history: the quantities observed in this, or the last, call
    shown           \* level of the last message published, None before

callVars == <<turn, active, seen, shown>>
alertVars == <<vars, sample, callVars>>

CallTypeOK ==
    /\ TypeOK
    /\ sample \in Samples
    /\ turn \in 0..(Len(AlertsOf[sample]) + 1)
    /\ active \in 0..2
    /\ seen \subseteq Alerts
    /\ shown \in 0..2 \union {None}

CallInit ==
    /\ Init
    /\ sample \in Samples
    /\ turn = 0 /\ active = 0 /\ seen = {} /\ shown = None

-----------------------------------------------------------------------------
Alert == AlertsOf[sample][turn]
InCall == turn > 0 /\ turn <= Len(AlertsOf[sample])

ActiveAtFirst_Kept == active
ActiveAtFirst == 0

BeginCall ==
    /\ turn = 0
    /\ turn' = 1
    /\ active' = ActiveAtFirst
    /\ seen' = {}
    /\ UNCHANGED <<vars, sample, shown>>

(* max(item[0] for item in active), one item at a time.                    *)
Worse_Latest(old, new) == new
Worse(old, new) == IF new > old THEN new ELSE old

EvaluateAlert(value) ==
    /\ InCall
    /\ Observe(KeyOf[Alert], value)
    /\ active' = Worse(active, state'[KeyOf[Alert]].level)
    /\ seen' = seen \union {Alert}
    /\ turn' = turn + 1
    /\ UNCHANGED <<sample, shown>>

(* The collector has not put it into the sample.                           *)
Missing ==
    /\ InCall
    /\ Alert \in Optional
    /\ turn' = turn + 1
    /\ UNCHANGED <<vars, sample, active, seen, shown>>

(* A collector that could read nothing returns no sample, but a battery's  *)
(* or a tegrastats' may be published without any alert.                    *)
Publish ==
    /\ turn > Len(AlertsOf[sample])
    /\ shown' = IF seen # {} \/ sample \in Bare THEN active ELSE shown
    /\ turn' = 0
    /\ UNCHANGED <<vars, sample, active, seen>>

CallNext ==
    \/ BeginCall
    \/ \E value \in Values : EvaluateAlert(value)
    \/ Missing
    \/ Publish

CallSpec == CallInit /\ [][CallNext]_alertVars

-----------------------------------------------------------------------------
(* TemperatureCollector's thresholds for a sensor: its own limits where it *)
(* has them, in the place of or next to the configured ones.               *)
Given(limit) == limit # None /\ limit > 0

SensorWarn(high, critical, defaultWarn) ==
    IF Given(high) THEN high
    ELSE IF Given(critical) THEN critical - 10
    ELSE defaultWarn

SensorError(critical, warn, defaultError) ==
    IF critical # None /\ critical > warn THEN critical
    ELSE IF defaultError > warn + 5 THEN defaultError ELSE warn + 5

-----------------------------------------------------------------------------
(* Properties.                                                             *)

OwnKey(a) == \A b \in Alerts : KeyOf[b] = KeyOf[a] => b = a
Readings(a) == {recent[KeyOf[a]][i] : i \in Window}

(* A quantity with a key of its own is never hidden by another one of its  *)
(* sample, nor by samples it was missing from: once the last Consecutive   *)
(* readings of it are past its error threshold the sample that has the     *)
(* last of them is published as ERROR, and once they are in its warning    *)
(* zone, as WARN at least.                                                 *)
TroubleIsShown ==
    turn = 0 => \A a \in seen : OwnKey(a) /\ None \notin Readings(a) =>
        /\ (\A v \in Readings(a) : Past(KeyOf[a], v, 2)) => shown = 2
        /\ (\A v \in Readings(a) : InWarnZone(KeyOf[a], v)) => shown >= 1

(* In a sample of quantities with keys of their own, nothing but one of    *)
(* those it observed raises its level: one with a reading, among its last  *)
(* Consecutive, that is not clear of the warning threshold.  One that is   *)
(* missing from the sample does not.                                       *)
AlarmHasCause ==
    turn = 0 /\ (seen # {} \/ sample \in Bare) /\ (\A a \in seen : OwnKey(a)) /\ shown \in {1, 2} =>
        \E a \in seen : \E v \in Readings(a) : v # None /\ ~Clear(KeyOf[a], v, 1)
=============================================================================
