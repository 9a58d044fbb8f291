----------------------------- MODULE HostAlerts ------------------------------
(***************************************************************************)
(* The samples of the host collectors (host_monitor/collectors.py) as      *)
(* SampleAlerts takes them: the quantities each one observes, in order,    *)
(* which of them it may go without, and whether it is published without    *)
(* any; then the key and the thresholds of each quantity.  Values that     *)
(* raise no alert are left out.                                            *)
(***************************************************************************)
EXTENDS SampleAlerts, HostMonitorConfig

CpuSample == [alerts |-> <<"cpu">>, optional |-> {}, bare |-> FALSE]

(* There may be no swap.                                                   *)
MemorySample == [alerts |-> <<"ram", "swap">>, optional |-> {"swap"}, bare |-> FALSE]

(* Two sensors of one chip name and label, on a host with two sockets.     *)
TemperatureSample ==
    [alerts |-> <<"socket0", "socket1">>, optional |-> {"socket0", "socket1"}, bare |-> FALSE]

(* A file system may be unmounted, or not be readable.                     *)
FilesystemSample ==
    [alerts |-> <<"root", "home">>, optional |-> {"root", "home"}, bare |-> FALSE]

(* An interface that is required, with or without counters.                *)
NetworkSample == [alerts |-> <<"link">>, optional |-> {}, bare |-> FALSE]

(* The charge is only observed while the battery discharges.               *)
BatterySample == [alerts |-> <<"charge">>, optional |-> {"charge"}, bare |-> TRUE]

GpuSample == [alerts |-> <<"gpu">>, optional |-> {}, bare |-> FALSE]

(* A line may have either, or only values without an alert.                *)
TegrastatsSample ==
    [alerts |-> <<"jetsonRam", "jetsonCore">>, optional |-> {"jetsonRam", "jetsonCore"},
     bare |-> TRUE]

SampleOf ==
    [cpu |-> CpuSample, memory |-> MemorySample, temperature |-> TemperatureSample,
     filesystem |-> FilesystemSample, network |-> NetworkSample, battery |-> BatterySample,
     gpu |-> GpuSample, tegrastats |-> TegrastatsSample]

KeyIn(alert) == IF alert \in {"socket0", "socket1"} THEN "core" ELSE alert

(* The quantity of the configuration a key takes its thresholds from.      *)
QuantityIn(key) ==
    CASE key \in {"core", "gpu", "jetsonCore"} -> "temperature"
      [] key = "jetsonRam" -> "ram"
      [] key \in {"root", "home"} -> "filesystem"
      [] key = "charge" -> "battery"
      [] OTHER -> key

DirectionIn(key) == IF key = "link" THEN "low" ELSE WorseIs(QuantityIn(key))

(* A link is 0 or 1 against one half, with no error; sensors may have      *)
(* limits of their own.                                                    *)
WarnIn(key, c, sensor) ==
    CASE key = "link" -> Scale \div 2
      [] key = "core" -> SensorWarn(sensor.high, sensor.critical, c.warn["temperature"])
      [] OTHER -> c.warn[QuantityIn(key)]

ErrorIn(key, c, sensor) ==
    CASE key = "link" -> None
      [] key = "core" -> SensorError(sensor.critical, WarnIn(key, c, sensor), c.error["temperature"])
      [] OTHER -> c.error[QuantityIn(key)]
=============================================================================
