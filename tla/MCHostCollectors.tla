-------------------------- MODULE MCHostCollectors ---------------------------
(* Instances of HostCollectors for TLC. *)
EXTENDS HostCollectors

Timeouts == [gpu |-> 1, tegrastats |-> 2]
=============================================================================
