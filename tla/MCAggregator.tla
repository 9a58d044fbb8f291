---------------------------- MODULE MCAggregator ----------------------------
(* Instances of Aggregator for TLC, as built from a configuration. *)
EXTENDS Aggregator, AggregatorConfig

(* The defaults with ROS on: two sources, and of the sinks the InfluxDB    *)
(* and the ROS one.                                                        *)
RosOn == AggregatorMerged(
    [time |-> [t \in Times |-> Unset], rate |-> Unset, size |-> Unset,
     switch |-> [s \in Switches |-> IF s = "ros_diagnostics" THEN TRUE ELSE Unset],
     text |-> [t \in RosTexts |-> TRUE]])
RosSources == SourcesOf(RosOn, TRUE)
RosSinks == Len(SinksOf(RosOn, TRUE))

(* One status, and two of which the loop processes the first before the    *)
(* second.                                                                 *)
OneAndTwo == {<<[node |-> "arm", level |-> 3]>>,
              <<[node |-> "leg", level |-> 3], [node |-> "arm", level |-> 3]>>}
=============================================================================
