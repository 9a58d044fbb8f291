----------------------------- MODULE Aggregator -----------------------------
(***************************************************************************)
(* The aggregator process: a single-threaded loop that takes messages from *)
(* its sources, keeps the last message of every node, marks silent nodes   *)
(* STALE and hands every change to its sinks (aggregator/aggregator.py,    *)
(* wired by aggregator/aggregator_node.py).                                *)
(*                                                                         *)
(* The loop is cut where something else can happen between two of its      *)
(* lines: a message arrives, time passes, a signal handler runs, a sink or *)
(* a source raises.  Instants are kept as saturating ages: the code only   *)
(* ever compares now - last_seen with the timeout and now -                *)
(* _last_stale_check with the interval.                                    *)
(***************************************************************************)
EXTENDS Integers, Sequences

CONSTANTS
    Nodes,          \* names of the nodes that report
    ZmqLevels,      \* levels the JSON schema accepts
    RosLevels,      \* levels a ROS status may carry: not checked by any schema
    None,           \* stands for "no entry in the dictionary"
    Malformed,      \* a ZMQ frame that validation rejects
    Sources,        \* <<"zmq">> or <<"zmq", "ros">>, in polling order
    NumSinks,       \* length of the list of sinks
    Timeout,        \* stale_timeout_sec, in ticks
    CheckInterval,  \* stale_check_interval_sec, in ticks
    MaxPass,        \* bound: ticks between two evaluations of the check condition
    ZmqHwm,         \* bound: frames waiting on the PULL socket
    RosDepth,       \* KEEP_LAST depth of the ROS subscription
    Arrays          \* bound: the DiagnosticArrays that may arrive

ASSUME LevelsAssumption == ZmqLevels \subseteq 0..3 /\ RosLevels \subseteq 0..255
ASSUME SourcesAssumption == Sources \in {<<"zmq">>, <<"zmq", "ros">>}
ASSUME SinksAssumption == NumSinks \in Nat \ {0}
ASSUME TimeAssumption == /\ Timeout \in Nat
                         /\ CheckInterval \in Nat \ {0}
                         /\ MaxPass \in Nat \ {0}
ASSUME QueueAssumption == /\ ZmqHwm \in Nat \ {0}
                          /\ RosDepth \in Nat \ {0}

VARIABLES
    pc,             \* where the thread is in run()
    running,        \* _running
    source,         \* index of the source being polled; past the end in the check
    batch,          \* messages the last poll returned and the loop has not processed
    sink,           \* index of the sink being called, or of the component being closed
    cache,          \* state_cache
    sinceSeen,      \* now - _last_seen[node]
    sinceCheck,     \* now - _last_stale_check
    sincePass,      \* age of the last evaluation of the check condition
    snapshot,       \* what publish_state gave to each sink last
    raised,         \* an exception is ending run()
    closed,         \* how many sinks, then sources, close() has closed
    zmqQueue,       \* frames waiting on the PULL socket
    rosQueue        \* arrays waiting on the ROS subscription

loopVars == <<pc, running, source, batch, sink, raised, closed>>
dataVars == <<cache, snapshot>>
timeVars == <<sinceSeen, sinceCheck, sincePass>>
queueVars == <<zmqQueue, rosQueue>>
vars == <<loopVars, dataVars, timeVars, queueVars>>

STALE == 3
Levels == ZmqLevels \union RosLevels
ZmqMessage == [node : Nodes, level : ZmqLevels]
RosMessage == [node : Nodes, level : RosLevels]
Entry == [level : Levels \union {STALE}, msg : {"reported", "STALE"}]
ASSUME NoneAssumption == None \notin Entry /\ None \notin Levels \union {STALE}
ASSUME ArraysAssumption == Arrays \subseteq Seq(RosMessage)
ASSUME MalformedAssumption == Malformed \notin ZmqMessage

Components == NumSinks + Len(Sources)
Deadline == Timeout + CheckInterval + MaxPass
Aged(age) == IF age < Deadline THEN age + 1 ELSE age
Known == {n \in Nodes : cache[n] # None}

InLoop == {"top", "poll", "process", "handle", "publish", "check"}

TypeOK ==
    /\ pc \in InLoop \union {"start", "close", "done"}
    /\ running \in BOOLEAN
    /\ source \in 1..(Len(Sources) + 1)
    /\ batch \in Seq(ZmqMessage \union RosMessage)
    /\ sink \in 1..NumSinks
    /\ cache \in [Nodes -> Entry \union {None}]
    /\ sinceSeen \in [Nodes -> 0..Deadline]
    /\ sinceCheck \in 0..Deadline
    /\ sincePass \in 0..MaxPass
    /\ snapshot \in [1..NumSinks -> [Nodes -> Entry \union {None}]]
    /\ raised \in BOOLEAN
    /\ closed \in 0..Components
    /\ zmqQueue \in Seq(ZmqMessage \union {Malformed})
    /\ rosQueue \in Seq(Seq(RosMessage))

Init ==
    /\ pc = "start"
    /\ running = FALSE
    /\ source = 1
    /\ batch = <<>>
    /\ sink = 1
    /\ cache = [n \in Nodes |-> None]
    /\ sinceSeen = [n \in Nodes |-> 0]
    /\ sinceCheck = 0
    /\ sincePass = 0
    /\ snapshot = [k \in 1..NumSinks |-> [n \in Nodes |-> None]]
    /\ raised = FALSE
    /\ closed = 0
    /\ zmqQueue = <<>>
    /\ rosQueue = <<>>

-----------------------------------------------------------------------------
(* The thread.                                                             *)

(* run() sets _running, installs its signal handlers and enters the loop.  *)
Run ==
    /\ pc = "start"
    /\ running' = TRUE
    /\ pc' = "top"
    /\ sincePass' = 0
    /\ UNCHANGED <<source, batch, sink, raised, closed, dataVars, sinceSeen, sinceCheck, queueVars>>

(* while self._running: enter another poll_once ...                        *)
BeginPass ==
    /\ pc = "top"
    /\ running
    /\ pc' = "poll"
    /\ source' = 1
    /\ UNCHANGED <<running, batch, sink, raised, closed, dataVars, timeVars, queueVars>>

(* ... or leave the loop for the finally block.                            *)
LeaveLoop ==
    /\ pc = "top"
    /\ ~running
    /\ pc' = "close"
    /\ UNCHANGED <<running, source, batch, sink, raised, closed, dataVars, timeVars, queueVars>>

NextSource_Drains ==
    IF source = 2 /\ rosQueue # <<>>
    THEN pc' = "poll" /\ source' = source
    ELSE source' = source + 1 /\ pc' = IF source = Len(Sources) THEN "check" ELSE "poll"

NextSource ==
    /\ source' = source + 1
    /\ pc' = IF source = Len(Sources) THEN "check" ELSE "poll"

(* A poll that returned messages: process them, or go on without any.      *)
Polled(messages) ==
    /\ batch' = messages
    /\ IF messages = <<>> THEN NextSource
                          ELSE pc' = "process" /\ UNCHANGED source

(* The ZMQ source takes at most one frame; a malformed one is dropped.     *)
PollZmq ==
    /\ pc = "poll"
    /\ Sources[source] = "zmq"
    /\ \/ /\ zmqQueue = <<>>
          /\ Polled(<<>>)
          /\ UNCHANGED zmqQueue
       \/ /\ zmqQueue # <<>>
          /\ zmqQueue' = Tail(zmqQueue)
          /\ Polled(IF Head(zmqQueue) = Malformed THEN <<>> ELSE <<Head(zmqQueue)>>)
    /\ UNCHANGED <<running, sink, raised, closed, dataVars, timeVars, rosQueue>>

(* spin_once runs one callback: the subscription's, for one array, or some *)
(* other one of the node's, and then there is nothing to return.           *)
PollRos ==
    /\ pc = "poll"
    /\ Sources[source] = "ros"
    /\ \/ /\ Polled(<<>>)
          /\ UNCHANGED rosQueue
       \/ /\ rosQueue # <<>>
          /\ rosQueue' = Tail(rosQueue)
          /\ Polled(Head(rosQueue))
    /\ UNCHANGED <<running, sink, raised, closed, dataVars, timeVars, zmqQueue>>

HeardFrom_FirstOnly(n) == IF n \in Known THEN sinceSeen ELSE [sinceSeen EXCEPT ![n] = 0]
HeardFrom(n) == [sinceSeen EXCEPT ![n] = 0]

(* process_message, first half: the cache and the instant of reception.    *)
ProcessMessage ==
    /\ pc = "process"
    /\ LET m == Head(batch)
       IN  /\ cache' = [cache EXCEPT ![m.node] = [level |-> m.level, msg |-> "reported"]]
           /\ sinceSeen' = HeardFrom(m.node)
    /\ batch' = Tail(batch)
    /\ pc' = "handle"
    /\ sink' = 1
    /\ UNCHANGED <<running, source, raised, closed, snapshot, sinceCheck, sincePass, queueVars>>

(* process_message, second half: every sink handles the message.           *)
HandleMessage ==
    /\ pc = "handle"
    /\ IF sink < NumSinks THEN sink' = sink + 1 /\ pc' = pc
                          ELSE sink' = 1 /\ pc' = "publish"
    /\ UNCHANGED <<running, source, batch, raised, closed, dataVars, timeVars, queueVars>>

(* _publish_state: every sink gets the state; then back to where the loop  *)
(* was, which is the rest of the batch, the next source or the check.      *)
PublishState ==
    /\ pc = "publish"
    /\ snapshot' = [snapshot EXCEPT ![sink] = cache]
    /\ IF sink < NumSinks
       THEN sink' = sink + 1 /\ UNCHANGED <<pc, source>>
       ELSE /\ sink' = 1
            /\ IF batch # <<>> THEN pc' = "process" /\ UNCHANGED source
               ELSE IF source > Len(Sources) THEN pc' = "top" /\ UNCHANGED source
               ELSE NextSource
    /\ UNCHANGED <<running, batch, raised, closed, cache, timeVars, queueVars>>

CheckDue_Late == sinceCheck > CheckInterval
CheckDue == sinceCheck >= CheckInterval

(* The nodes _mark_stale_nodes changes.                                    *)
Expired_Early == {n \in Known : sinceSeen[n] >= Timeout /\ cache[n].level # STALE}
Expired == {n \in Known : sinceSeen[n] > Timeout /\ cache[n].level # STALE}

AfterMarking_Silent == "top"
AfterMarking == IF Expired = {} THEN "top" ELSE "publish"

(* The tail of poll_once: when the interval has passed, mark the silent    *)
(* nodes and publish if that changed anything.                             *)
StaleCheck ==
    /\ pc = "check"
    /\ sincePass' = 0
    /\ IF CheckDue
       THEN /\ sinceCheck' = 0
            /\ cache' = [n \in Nodes |-> IF n \in Expired
                                         THEN [level |-> STALE, msg |-> "STALE"]
                                         ELSE cache[n]]
            /\ pc' = AfterMarking
       ELSE pc' = "top" /\ UNCHANGED <<sinceCheck, cache>>
    /\ UNCHANGED <<running, source, batch, sink, raised, closed, snapshot, sinceSeen, queueVars>>

(* A sink raises (a full disk, a broken pipe): nothing in poll_once or run *)
(* catches it, so run() goes to its finally block and ends.                *)
SinkRaises ==
    /\ pc \in {"handle", "publish"}
    /\ raised' = TRUE
    /\ pc' = "close"
    /\ UNCHANGED <<running, source, batch, sink, closed, dataVars, timeVars, queueVars>>

(* A source raises: the ROS context is shut down under spin_once, or a     *)
(* frame fails in a way poll() does not catch.                             *)
SourceRaises ==
    /\ pc = "poll"
    /\ raised' = TRUE
    /\ pc' = "close"
    /\ UNCHANGED <<running, source, batch, sink, closed, dataVars, timeVars, queueVars>>

LastClosed_OneMore == closed = Components
LastClosed_Sinks == closed + 1 = NumSinks
LastClosed == closed + 1 = Components

(* close(): the sinks in order, then the sources in order.                 *)
Close ==
    /\ pc = "close"
    /\ closed' = closed + 1
    /\ pc' = IF LastClosed THEN "done" ELSE "close"
    /\ UNCHANGED <<running, source, batch, sink, raised, dataVars, timeVars, queueVars>>

(* A component's close raises, or a second signal, whose handler is the    *)
(* default again, interrupts it: the rest are not closed.                  *)
CloseRaises ==
    /\ pc = "close"
    /\ raised' = TRUE
    /\ pc' = "done"
    /\ UNCHANGED <<running, source, batch, sink, closed, dataVars, timeVars, queueVars>>

-----------------------------------------------------------------------------
(* The environment.                                                        *)

(* SIGINT or SIGTERM while run()'s handlers are installed.                 *)
Stop ==
    /\ pc \in InLoop
    /\ running' = FALSE
    /\ UNCHANGED <<pc, source, batch, sink, raised, closed, dataVars, timeVars, queueVars>>

(* One tick.  The thread never lets MaxPass of them go by in one pass.     *)
Tick ==
    /\ pc \in InLoop \union {"start"}
    /\ pc \in InLoop => sincePass < MaxPass
    /\ sincePass' = IF pc \in InLoop THEN sincePass + 1 ELSE sincePass
    /\ sinceCheck' = Aged(sinceCheck)
    /\ sinceSeen' = [n \in Nodes |-> IF n \in Known THEN Aged(sinceSeen[n]) ELSE sinceSeen[n]]
    /\ UNCHANGED <<loopVars, dataVars, queueVars>>

(* A frame reaches the PULL socket, which is bound from the constructor on; *)
(* what arrives once the loop has ended is never read.                     *)
ArriveZmq(frame) ==
    /\ pc \in InLoop \union {"start"}
    /\ Len(zmqQueue) < ZmqHwm
    /\ zmqQueue' = Append(zmqQueue, frame)
    /\ UNCHANGED <<loopVars, dataVars, timeVars, rosQueue>>

(* An array reaches the subscription; a full history loses its oldest one. *)
ArriveRos(array) ==
    /\ pc \in InLoop \union {"start"}
    /\ Len(Sources) = 2
    /\ rosQueue' = Append(IF Len(rosQueue) < RosDepth THEN rosQueue ELSE Tail(rosQueue), array)
    /\ UNCHANGED <<loopVars, dataVars, timeVars, zmqQueue>>

(* The process has ended.                                                  *)
Ended == pc = "done" /\ UNCHANGED vars

Step ==
    \/ Run \/ BeginPass \/ LeaveLoop
    \/ PollZmq \/ PollRos
    \/ ProcessMessage \/ HandleMessage \/ PublishState \/ StaleCheck
    \/ SinkRaises \/ SourceRaises
    \/ Close \/ CloseRaises

Arrival ==
    \/ \E frame \in ZmqMessage \union {Malformed} : ArriveZmq(frame)
    \/ \E array \in Arrays : ArriveRos(array)

Next == Step \/ Stop \/ Tick \/ Arrival \/ Ended

(* The thread is never suspended for good and time never stops; nothing is *)
(* assumed of publishers, signals or failures.                             *)
Fairness == WF_vars(Step) /\ WF_vars(Tick)

Spec == Init /\ [][Next]_vars
FairSpec == Spec /\ Fairness

-----------------------------------------------------------------------------
(* Properties.                                                             *)

(* _mark_stale_nodes never marks a node it heard from within the timeout,  *)
(* and no entry keeps the mark once its node is heard again.               *)
StaleSound ==
    \A n \in Known : cache[n].msg = "STALE" => cache[n].level = STALE /\ sinceSeen[n] > Timeout

(* The interval check of poll_once is enough: no node that stopped talking *)
(* keeps a live level for timeout + interval + the length of one pass.     *)
StaleTimely ==
    \A n \in Known : cache[n].level # STALE => sinceSeen[n] < Deadline

(* Unless an exception is ending run(), every sink has been given the      *)
(* current state whenever the thread is outside a publication: no change   *)
(* of the cache, by message or by silence, is kept from any sink.          *)
SinksCurrent ==
    ~raised /\ pc \notin {"handle", "publish"} => \A k \in 1..NumSinks : snapshot[k] = cache

(* The cache implements the board: see DiagnosticsBoard.                   *)
Board == INSTANCE DiagnosticsBoard
         WITH board <- [n \in Nodes |-> IF cache[n] = None THEN None ELSE cache[n].level],
              silent <- sinceSeen
BoardSpec == Board!Spec

(* A node that stays silent is shown as STALE in the end, at every sink,   *)
(* as long as the loop is not being ended.                                 *)
SilenceIsPublished ==
    \A n \in Nodes : \A k \in 1..NumSinks :
        n \in Known ~> \/ sinceSeen[n] = 0
                       \/ snapshot[k][n] # None /\ snapshot[k][n].level = STALE
                       \/ pc \in {"close", "done"}

(* A valid frame waiting on the ZMQ socket is processed, whatever the rate *)
(* of other frames and of ROS arrays, unless the loop is being ended.      *)
Waiting(n) == \E i \in 1..Len(zmqQueue) : zmqQueue[i] # Malformed /\ zmqQueue[i].node = n
QueuedIsProcessed ==
    \A n \in Nodes : Waiting(n) ~> (sinceSeen[n] = 0 /\ n \in Known) \/ pc \in {"close", "done"}

(* stop() ends the process, and every sink and source has been closed      *)
(* unless something raised on the way.                                     *)
StopCloses ==
    (pc # "start" /\ ~running) ~> (pc = "done" /\ (raised \/ closed = Components))
=============================================================================
