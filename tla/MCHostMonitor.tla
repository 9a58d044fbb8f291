--------------------------- MODULE MCHostMonitor ----------------------------
(* Instances of HostMonitor for TLC. *)
EXTENDS HostMonitor, HostMonitorConfig

(* A configuration that leaves two collectors on: one whose paths come and *)
(* go, as interfaces do, and one with a single path.                       *)
TwoOn == EnabledCollectors([c \in {AllCollectors[i] : i \in DOMAIN AllCollectors} |->
                               IF c \in {"network", "gpu"} THEN Unset ELSE FALSE])
ThreePaths == [network |-> {"eth0", "eth1"}, gpu |-> {"gpu.0"}]
=============================================================================
