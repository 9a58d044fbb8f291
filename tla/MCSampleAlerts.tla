--------------------------- MODULE MCSampleAlerts ---------------------------
(* Instances of SampleAlerts and of the HealthEvaluator in it for TLC. *)
EXTENDS HostAlerts

CONSTANT Config     \* the configuration the monitor was started with

(* A file with thresholds such that every zone of _target has one value;   *)
(* the rest is left to the defaults.                                       *)
File == [duration |-> [d \in Durations |-> Unset],
         consecutive |-> 2 * Scale, margin |-> 1,
         warn |-> [q \in Quantities |-> 2],
         error |-> [q \in Quantities |-> IF q = "battery" THEN 0 ELSE 4],
         statPath |-> TRUE]
ZonesConfig == HostMerged(File)
ZoneValues == 0..4

(* The defaults, in tenths.                                                *)
Defaults == [File EXCEPT !.consecutive = Unset, !.margin = Unset,
                         !.warn = [q \in Quantities |-> Unset],
                         !.error = [q \in Quantities |-> Unset]]
DefaultConfig == HostMerged(Defaults)
LinkValues == {0, Scale}

(* The monitor starts with both.                                           *)
ASSUME FilesLoad == HostLoads(File) /\ HostLoads(Defaults)

Sensor == [high |-> 2, critical |-> 4]

HostSamples == DOMAIN SampleOf \ {"network"}
HostAlertsOf == [s \in Samples |-> SampleOf[s].alerts]
HostKeys == {KeyIn(a) : a \in Alerts}
HostKeyOf == [a \in Alerts |-> KeyIn(a)]
HostOptional == UNION {SampleOf[s].optional : s \in Samples}
HostBare == {s \in Samples : SampleOf[s].bare}
HostDirection == [k \in Keys |-> DirectionIn(k)]
HostWarn == [k \in Keys |-> WarnIn(k, Config, Sensor)]
HostError == [k \in Keys |-> ErrorIn(k, Config, Sensor)]
HostMargin == Config.margin
HostConsecutive == Whole(Config.consecutive)
=============================================================================
