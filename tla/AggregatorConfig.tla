-------------------------- MODULE AggregatorConfig --------------------------
(***************************************************************************)
(* load_config (aggregator/config.py) and what main() builds from it       *)
(* (aggregator_node.py): the numbers of the file over the defaults, what   *)
(* is let through, and the sources and sinks in the order of their lists.  *)
(***************************************************************************)
EXTENDS Settings, Sequences

Times == {"stale_timeout_sec", "stale_check_interval_sec", "interval_sec"}
Switches == {"ros_diagnostics", "publish_aggregated", "json_file", "stdout"}
RosTexts == {"input_topic", "aggregated_topic", "aggregation_root"}

AggregatorFiles ==
    [time : [Times -> Setting], rate : Setting, size : Setting,
     switch : [Switches -> Flag],
     text : [RosTexts -> BOOLEAN]]      \* not empty; for the root, but for "/"

DefaultTime == [stale_timeout_sec |-> 5 * Scale, stale_check_interval_sec |-> Scale,
                interval_sec |-> 10 * Scale]

AggregatorMerged(file) ==
    [time |-> [t \in Times |-> Taken(file.time[t], DefaultTime[t])],
     rate |-> Taken(file.rate, Scale),
     size |-> Taken(file.size, 100 * Scale),
     switch |-> [s \in Switches |-> AsBool(file.switch[s], s = "publish_aggregated")],
     text |-> file.text]

AggregatorReadable(c) ==
    (\A t \in Times : c.time[t] # Unreadable) /\ c.rate # Unreadable /\ c.size # Unreadable

(* The checks at the end; those of ROS only if it is enabled.              *)
AggregatorValid(c) ==
    /\ \A t \in Times : ~AtMost(c.time[t], 0)
    /\ ~AtMost(c.size, 0)
    /\ c.switch["ros_diagnostics"] =>
        /\ c.text["input_topic"]
        /\ c.switch["publish_aggregated"] => c.text["aggregated_topic"]
        /\ ~AtMost(c.rate, 0)
        /\ c.text["aggregation_root"]

AggregatorLoads(file) ==
    AggregatorReadable(AggregatorMerged(file)) /\ AggregatorValid(AggregatorMerged(file))

(* _build_ros_io, build_sinks and main: rclpy may not be installed; the    *)
(* InfluxDB sink is in the list whether it is enabled or not.              *)
HasRos(c, rclpy) == c.switch["ros_diagnostics"] /\ rclpy

SourcesOf(c, rclpy) == IF HasRos(c, rclpy) THEN <<"zmq", "ros">> ELSE <<"zmq">>

SinksOf(c, rclpy) ==
    <<"influxdb">>
    \o (IF c.switch["json_file"] THEN <<"json_file">> ELSE <<>>)
    \o (IF c.switch["stdout"] THEN <<"stdout">> ELSE <<>>)
    \o (IF HasRos(c, rclpy) /\ c.switch["publish_aggregated"] THEN <<"ros">> ELSE <<>>)
=============================================================================
