---------------------------- MODULE CounterRates ----------------------------
(***************************************************************************)
(* The collectors that turn counters into rates (CpuCollector,             *)
(* DiskIoCollector, NetworkCollector of host_monitor/collectors.py): each  *)
(* keeps the counters it read last and the instant its pass began, and     *)
(* divides the difference of two readings by that of two such instants.    *)
(*                                                                         *)
(* A reading stands for the instant it was taken at, so a difference of    *)
(* two readings is the span it covers; CPU and disk are the case of a      *)
(* single counter that is always there.                                    *)
(***************************************************************************)
EXTENDS Integers

CONSTANTS
    Interfaces,     \* what has counters: network interfaces come and go
    Absent,         \* no reading, no instant
    MaxDelay,       \* bound: ticks a pass takes before these collectors read
    MaxUnread       \* bound: a read fails only up to this long after the last

ASSUME RatesAssumption == MaxDelay \in Nat /\ MaxUnread \in Nat /\ Absent \notin Int

VARIABLES
    sincePass,      \* age of the start of the pass: the argument "now"
    sincePrevious,  \* age of _previous_time
    previous        \* _previous: age of the reading kept for each interface

rateVars == <<sincePrevious, previous>>

RatesTypeOK ==
    /\ sincePass \in Nat
    /\ sincePrevious \in Nat \union {Absent}
    /\ previous \in [Interfaces -> Nat \union {Absent}]

RatesInit ==
    /\ sincePass = 0
    /\ sincePrevious = Absent
    /\ previous = [i \in Interfaces |-> Absent]

(* The divisor, and the interfaces of this reading that get a rate.        *)
Elapsed == IF sincePrevious = Absent THEN 0 ELSE sincePrevious - sincePass
Rated(present) == {i \in present : previous[i] # Absent /\ Elapsed > 0}

Kept_Merged(present) == [i \in Interfaces |-> IF i \in present THEN 0 ELSE previous[i]]
Kept(present) == [i \in Interfaces |-> IF i \in present THEN 0 ELSE Absent]

(* sample(), with counters for the interfaces that are present.            *)
SampleCounters(present) ==
    /\ sincePrevious' = sincePass
    /\ previous' = Kept(present)

(* sample() raises, or finds no counters at all: nothing is kept.          *)
CountersUnread ==
    /\ sincePrevious # Absent => sincePrevious <= MaxUnread
    /\ UNCHANGED rateVars

AgedReading(age) == IF age = Absent THEN Absent ELSE age + 1

RatesTick ==
    /\ sincePass' = sincePass + 1
    /\ sincePrevious' = AgedReading(sincePrevious)
    /\ previous' = [i \in Interfaces |-> AgedReading(previous[i])]
=============================================================================
