---------------------------- MODULE HostMonitor -----------------------------
(***************************************************************************)
(* The host monitor (host_monitor/monitor.py): one thread that samples its *)
(* collectors in turn and publishes what they report, each path through a  *)
(* publisher of its own, then sleeps until its deadline.                   *)
(*                                                                         *)
(* A collector is what the loop sees of it: sample() returns any of its    *)
(* paths, or raises.  The level of a sample is the evaluator's (see        *)
(* HealthEvaluator) and what becomes of a message the publisher's (see     *)
(* StatsPublisher, kind "immediate"); neither comes back to the loop.      *)
(***************************************************************************)
EXTENDS Integers, Sequences, FiniteSets

CONSTANTS
    Collectors,     \* the names of the enabled collectors, in order
    PathsOf,        \* for each name, the paths it may report
    Interval,       \* sample_interval_sec, in ticks
    MaxSockets,     \* bound of libzmq: sockets of one context
    MaxWork,        \* bound: ticks one pass over the collectors takes
    MaxOvershoot    \* bound: ticks a sleep lasts too long

Names == {Collectors[i] : i \in DOMAIN Collectors}
Paths == UNION {PathsOf[c] : c \in Names}

ASSUME CollectorsAssumption ==
    /\ Collectors \in Seq(STRING) /\ Collectors # <<>>
    /\ \A i, j \in DOMAIN Collectors : Collectors[i] = Collectors[j] => i = j
    /\ DOMAIN PathsOf = Names
    /\ \A c, d \in Names : c # d => PathsOf[c] \intersect PathsOf[d] = {}
ASSUME MonitorTimeAssumption ==
    Interval \in Nat \ {0} /\ MaxWork \in Nat /\ MaxOvershoot \in 0..(Interval - 1)
ASSUME SocketsAssumption == MaxSockets \in Nat /\ IsFiniteSet(Paths)

VARIABLES
    pc,             \* where the thread is
    running,        \* _running
    current,        \* index of the collector being sampled
    pending,        \* paths of its samples not yet published
    sampled,        \* paths of its samples, of this call
    publishers,     \* _publishers: the paths that have a socket
    collectorPaths, \* _collector_paths
    shown,          \* the last message of each path: "sample" or "unavailable"
    ahead,          \* deadline - now; negative when late
    work,           \* ticks the present pass has taken
    sinceStart,     \* history: age of the last start of a pass, or of run()
    outcome,        \* history: how each collector's last call ended
    latest          \* history: the paths of each one's last sample that had any

loopVars == <<pc, running, current, pending, sampled>>
tableVars == <<publishers, collectorPaths, shown>>
timeVars == <<ahead, work, sinceStart>>
historyVars == <<outcome, latest>>
vars == <<loopVars, tableVars, timeVars, historyVars>>

InRun == {"begin", "collect", "publish", "fail", "sleep"}
MaxGap == IF MaxWork > Interval + MaxOvershoot THEN MaxWork ELSE Interval + MaxOvershoot

TypeOK ==
    /\ pc \in InRun \union {"start", "close", "done"}
    /\ running \in BOOLEAN
    /\ current \in 1..(Len(Collectors) + 1)
    /\ pending \subseteq Paths /\ sampled \subseteq Paths
    /\ publishers \subseteq Paths /\ Cardinality(publishers) <= MaxSockets
    /\ collectorPaths \in [Names -> SUBSET Paths]
    /\ shown \in [Paths -> {"nothing", "sample", "unavailable"}]
    /\ ahead \in (-(MaxWork + MaxOvershoot))..Interval
    /\ work \in 0..MaxWork
    /\ sinceStart \in 0..(MaxGap + 1)
    /\ outcome \in [Names -> {"none", "samples", "empty", "raised"}]
    /\ latest \in [Names -> SUBSET Paths]

Init ==
    /\ pc = "start"
    /\ running = FALSE
    /\ current = 1
    /\ pending = {} /\ sampled = {}
    /\ publishers = {}
    /\ collectorPaths = [c \in Names |-> {}]
    /\ shown = [p \in Paths |-> "nothing"]
    /\ ahead = 0 /\ work = 0 /\ sinceStart = 0
    /\ outcome = [c \in Names |-> "none"]
    /\ latest = [c \in Names |-> {}]

-----------------------------------------------------------------------------
(* run().                                                                  *)

(* The handlers are already installed when run() sets _running.            *)
Run ==
    /\ pc = "start"
    /\ running' = TRUE
    /\ pc' = "begin"
    /\ ahead' = 0
    /\ sinceStart' = Interval
    /\ UNCHANGED <<current, pending, sampled, tableVars, work, historyVars>>

BeginPass_Always ==
    /\ pc = "begin"
    /\ pc' = "collect"
    /\ current' = 1
    /\ work' = 0
    /\ sinceStart' = 0
    /\ UNCHANGED <<running, pending, sampled, tableVars, ahead, historyVars>>

BeginPass ==
    /\ pc = "begin"
    /\ running
    /\ pc' = "collect"
    /\ current' = 1
    /\ work' = 0
    /\ sinceStart' = 0
    /\ UNCHANGED <<running, pending, sampled, tableVars, ahead, historyVars>>

LeaveLoop ==
    /\ pc = "begin"
    /\ ~running
    /\ pc' = "close"
    /\ UNCHANGED <<running, current, pending, sampled, tableVars, timeVars, historyVars>>

(* The deadline moves on by an interval; a pass that overran it makes the  *)
(* present the deadline instead.                                           *)
NextAhead_KeepsUp == ahead + Interval
NextAhead_WholeSleep == Interval
NextAhead == IF ahead + Interval > 0 THEN ahead + Interval ELSE 0

EndPass ==
    /\ pc = "collect"
    /\ current > Len(Collectors)
    /\ ahead' = NextAhead
    /\ pc' = IF ahead' > 0 THEN "sleep" ELSE "begin"
    /\ UNCHANGED <<running, current, pending, sampled, tableVars, work, sinceStart, historyVars>>

(* A signal does not cut the sleep short: it is resumed.                   *)
Wake ==
    /\ pc = "sleep"
    /\ ahead <= 0
    /\ pc' = "begin"
    /\ UNCHANGED <<running, current, pending, sampled, tableVars, timeVars, historyVars>>

-----------------------------------------------------------------------------
(* sample_once(), one collector.                                           *)

Collector == Collectors[current]

(* sample() returns: its samples are to be published.                      *)
Sample(paths) ==
    /\ pc = "collect"
    /\ current <= Len(Collectors)
    /\ paths \subseteq PathsOf[Collector]
    /\ pending' = paths
    /\ sampled' = paths
    /\ pc' = "publish"
    /\ outcome' = [outcome EXCEPT ![Collector] = IF paths # {} THEN "samples" ELSE "empty"]
    /\ latest' = IF paths # {} THEN [latest EXCEPT ![Collector] = paths] ELSE latest
    /\ UNCHANGED <<running, current, tableVars, timeVars>>

(* sample() raises.                                                        *)
SampleRaises ==
    /\ pc = "collect"
    /\ current <= Len(Collectors)
    /\ pc' = "fail"
    /\ outcome' = [outcome EXCEPT ![Collector] = "raised"]
    /\ UNCHANGED <<running, current, pending, sampled, tableVars, timeVars, latest>>

(* _publish_sample: the path gets a publisher if it has none yet.          *)
HasSocket(p) == p \in publishers \/ Cardinality(publishers) < MaxSockets

Publish(p) ==
    /\ pc = "publish"
    /\ p \in pending
    /\ HasSocket(p)
    /\ publishers' = publishers \union {p}
    /\ shown' = [shown EXCEPT ![p] = "sample"]
    /\ pending' = pending \ {p}
    /\ UNCHANGED <<pc, running, current, sampled, collectorPaths, timeVars, historyVars>>

(* Creating the publisher raises: this call is outside the try of          *)
(* sample_once, and nothing else catches it.                               *)
PublishRaises ==
    /\ pc = "publish"
    /\ \E p \in pending : ~HasSocket(p)
    /\ pc' = "close"
    /\ UNCHANGED <<running, current, pending, sampled, tableVars, timeVars, historyVars>>

(* All published: the paths are remembered, if there are any.              *)
Remembered_Always == [collectorPaths EXCEPT ![Collector] = sampled]
Remembered == IF sampled # {} THEN [collectorPaths EXCEPT ![Collector] = sampled]
                              ELSE collectorPaths

NextCollector ==
    /\ pc = "publish"
    /\ pending = {}
    /\ collectorPaths' = Remembered
    /\ current' = current + 1
    /\ pc' = "collect"
    /\ UNCHANGED <<running, pending, sampled, publishers, shown, timeVars, historyVars>>

AfterFailure_LeavesPass == Len(Collectors) + 1
AfterFailure == current + 1

(* _handle_collector_error: a warning at every path remembered.            *)
HandleCollectorError ==
    /\ pc = "fail"
    /\ shown' = [p \in Paths |-> IF p \in collectorPaths[Collector] THEN "unavailable" ELSE shown[p]]
    /\ current' = AfterFailure
    /\ pc' = "collect"
    /\ UNCHANGED <<running, pending, sampled, publishers, collectorPaths, timeVars, historyVars>>

(* main's finally block closes every publisher.                            *)
Close ==
    /\ pc = "close"
    /\ publishers' = {}
    /\ pc' = "done"
    /\ UNCHANGED <<running, current, pending, sampled, collectorPaths, shown, timeVars, historyVars>>

-----------------------------------------------------------------------------
(* The environment.                                                        *)

(* SIGINT or SIGTERM; before run() has set _running it is forgotten.       *)
Stop ==
    /\ pc \in InRun \union {"start"}
    /\ running' = FALSE
    /\ UNCHANGED <<pc, current, pending, sampled, tableVars, timeVars, historyVars>>

Tick ==
    /\ \/ pc \in {"collect", "publish", "fail"} /\ work < MaxWork /\ work' = work + 1
       \/ pc = "sleep" /\ ahead > -MaxOvershoot /\ UNCHANGED work
    /\ ahead' = ahead - 1
    /\ sinceStart' = IF sinceStart > MaxGap THEN sinceStart ELSE sinceStart + 1
    /\ UNCHANGED <<loopVars, tableVars, historyVars>>

Ended == pc = "done" /\ UNCHANGED vars

Step ==
    \/ Run \/ BeginPass \/ LeaveLoop \/ EndPass \/ Wake
    \/ \E paths \in SUBSET Paths : Sample(paths)
    \/ SampleRaises
    \/ \E p \in Paths : Publish(p)
    \/ PublishRaises \/ NextCollector \/ HandleCollectorError \/ Close

Next == Step \/ Stop \/ Tick \/ Ended

Spec == Init /\ [][Next]_vars

(* The thread is never suspended for good and time passes.                 *)
FairSpec == Spec /\ WF_vars(Step) /\ WF_vars(Tick)

-----------------------------------------------------------------------------
(* Properties.                                                             *)

(* What a path shows is how its collector's last call ended: between two   *)
(* calls, a collector that raised has the warning at every path of the     *)
(* last sample it had anything in, however many empty ones came between,   *)
(* and one that reported has it at none of the paths it reported.          *)
Between == pc \in {"begin", "collect", "sleep"}
ShownIsCurrent ==
    Between => \A c \in Names : \A p \in latest[c] :
        /\ outcome[c] = "raised" => shown[p] = "unavailable"
        /\ outcome[c] = "samples" => shown[p] = "sample"

(* Passes keep the sampling interval, up to what one sleep may be late,    *)
(* and a pass that overruns it is followed at once by one pass and not by  *)
(* a burst that makes up for those missed.                                 *)
Paced == [][BeginPass => Interval - MaxOvershoot <= sinceStart /\ sinceStart <= MaxGap]_vars

(* "Collector isolation is intentional": every collector is sampled again  *)
(* and again, whatever the others do, until the monitor is stopped or a    *)
(* path to publish finds no socket left.                                   *)
Sampling(c) == pc = "collect" /\ current <= Len(Collectors) /\ Collector = c
OutOfSockets == pc = "publish" /\ \E p \in pending : ~HasSocket(p)
CollectorsAreIsolated ==
    \A c \in Names : pc \in InRun ~> Sampling(c) \/ ~running \/ OutOfSockets

(* A signal run() has seen ends the process.                               *)
StopEnds == (pc \in InRun /\ ~running) ~> pc = "done"
=============================================================================
