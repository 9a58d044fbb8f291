------------------------- MODULE HostMonitorConfig --------------------------
(***************************************************************************)
(* load_host_monitor_config (host_monitor/config.py): the numbers of the   *)
(* file over the defaults, and what _validate lets through.  Texts and     *)
(* lists, of which only xenomai_stat_path is validated, are left out.      *)
(***************************************************************************)
EXTENDS Settings, Sequences

Durations == {"sample_interval_sec", "gpu_timeout_sec", "tegrastats_timeout_sec"}
Quantities == {"cpu", "ram", "swap", "filesystem", "temperature", "battery"}

(* The collectors in the order build_collectors makes them.                *)
AllCollectors == <<"system", "cpu", "memory", "temperature", "filesystem", "disk_io",
                   "network", "battery", "gpu", "tegrastats", "xenomai">>

HostFiles ==
    [duration : [Durations -> Setting], consecutive : Setting, margin : Setting,
     warn : [Quantities -> Setting], error : [Quantities -> Setting],
     statPath : BOOLEAN]        \* the path is not empty

InPercent(n) == n * Scale
DefaultDuration == [d \in Durations |-> IF d = "tegrastats_timeout_sec" THEN 2 * Scale ELSE Scale]
DefaultWarn == [cpu |-> InPercent(90), ram |-> InPercent(85), swap |-> InPercent(80),
                filesystem |-> InPercent(85), temperature |-> 80 * Scale,
                battery |-> InPercent(20)]
DefaultError == [cpu |-> InPercent(98), ram |-> InPercent(95), swap |-> InPercent(95),
                 filesystem |-> InPercent(95), temperature |-> 90 * Scale,
                 battery |-> InPercent(10)]

(* The file over the defaults, float() and int() not yet applied.          *)
HostMerged(file) ==
    [duration |-> [d \in Durations |-> Taken(file.duration[d], DefaultDuration[d])],
     consecutive |-> Taken(file.consecutive, 3 * Scale),
     margin |-> Taken(file.margin, 5 * Scale),
     warn |-> [q \in Quantities |-> Taken(file.warn[q], DefaultWarn[q])],
     error |-> [q \in Quantities |-> Taken(file.error[q], DefaultError[q])],
     statPath |-> file.statPath]

(* float() takes them all; int() takes no NaN.                             *)
HostReadable(c) ==
    /\ \A d \in Durations : c.duration[d] # Unreadable
    /\ c.consecutive \notin {Unreadable, NaN}
    /\ c.margin # Unreadable
    /\ \A q \in Quantities : c.warn[q] # Unreadable /\ c.error[q] # Unreadable

(* _validate, on what the file and the defaults make together.             *)
HostValid(c) ==
    /\ \A d \in Durations : ~AtMost(c.duration[d], 0)
    /\ c.statPath
    /\ Whole(c.consecutive) > 0
    /\ ~Below(c.margin, 0)
    /\ \A q \in Quantities \ {"battery"} : ~AtMost(c.error[q], c.warn[q])
    /\ ~AtMost(c.warn["battery"], c.error["battery"])

(* The monitor starts with this file.                                      *)
HostLoads(file) == HostReadable(HostMerged(file)) /\ HostValid(HostMerged(file))

(* collectors: all of them but those that are switched off.                *)
EnabledCollectors(flags) ==
    LET On(c) == AsBool(flags[c], TRUE) IN SelectSeq(AllCollectors, On)

(* Which way each quantity is worse: what its collector tells evaluate().  *)
WorseIs(q) == IF q = "battery" THEN "low" ELSE "high"
=============================================================================
