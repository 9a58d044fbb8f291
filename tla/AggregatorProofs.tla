-------------------------- MODULE AggregatorProofs --------------------------
(***************************************************************************)
(* Proofs about Aggregator for every number of nodes, sinks and ticks.     *)
(***************************************************************************)
EXTENDS Aggregator, AggregatorConfig, SequenceTheorems, TLAPS

(* Where the thread is determines what it holds: a message to process, a   *)
(* source to poll, a component left to close, an exception or not.         *)
Control ==
    /\ pc = "process" => batch # <<>>
    /\ pc = "poll" => source <= Len(Sources)
    /\ pc \in InLoop \union {"start"} => closed = 0 /\ ~raised
    /\ pc = "close" => closed < Components
    /\ pc = "start" => Known = {}
    /\ pc \in {"start", "top", "poll", "process", "check"} => sink = 1

(* What the assumptions on the constants say of the bounds of the ages.    *)
LEMMA SourcesFacts ==
    /\ Len(Sources) \in {1, 2}
    /\ Components \in Nat \ {0, 1}
    /\ Deadline \in Nat /\ Deadline > MaxPass
  BY SourcesAssumption, SinksAssumption, TimeAssumption DEF Components, Deadline

(* Saturation: one tick makes an age larger by one, up to the deadline.    *)
LEMMA AgedFacts ==
    ASSUME NEW a \in 0..Deadline
    PROVE  /\ Aged(a) \in 0..Deadline
           /\ Aged(a) <= a + 1
           /\ a <= Aged(a)
           /\ Aged(a) = a \/ Aged(a) = a + 1
           /\ Aged(a) = a => a = Deadline
  BY SourcesFacts DEF Aged

(* Every array a ROS callback can bring is a sequence of messages.         *)
LEMMA ArraysAreSequences ==
    ASSUME NEW array \in Arrays
    PROVE  array \in Seq(RosMessage)
  BY ArraysAssumption

(* Every variable of the aggregator keeps to its type, and the thread's    *)
(* position to what it holds: the queues, the batch, the indexes that      *)
(* poll_once and close() step through never run past their ends.           *)
LEMMA TypeInit == Init => TypeOK /\ Control
<1> SUFFICES ASSUME Init PROVE TypeOK /\ Control
  OBVIOUS
<1>1. batch \in Seq(ZmqMessage \union RosMessage) /\ zmqQueue \in Seq(ZmqMessage \union {Malformed})
  BY DEF Init
<1>2. rosQueue \in Seq(Seq(RosMessage))
  BY DEF Init
<1>3. TypeOK
  <2>1. [n \in Nodes |-> None] \in [Nodes -> Entry \union {None}]
    OBVIOUS
  <2>2. cache \in [Nodes -> Entry \union {None}]
    BY <2>1 DEF Init
  <2>3. snapshot \in [1..NumSinks -> [Nodes -> Entry \union {None}]]
    <3> DEFINE empty == [n \in Nodes |-> None]
    <3>1. snapshot = [k \in 1..NumSinks |-> empty]
      BY DEF Init
    <3>2. empty \in [Nodes -> Entry \union {None}]
      BY <2>1
    <3> HIDE DEF empty
    <3>3. QED
      BY <3>1, <3>2
  <2>4. sinceSeen \in [Nodes -> 0..Deadline]
    BY SourcesFacts DEF Init
  <2>5. closed \in 0..Components /\ source \in 1..(Len(Sources) + 1) /\ sink \in 1..NumSinks
    BY SourcesFacts, SinksAssumption DEF Init
  <2>6. sinceCheck \in 0..Deadline /\ sincePass \in 0..MaxPass
    BY SourcesFacts, TimeAssumption DEF Init
  <2>7. pc \in InLoop \union {"start", "close", "done"} /\ running \in BOOLEAN /\ raised \in BOOLEAN
    BY DEF Init
  <2>8. QED
    BY <1>1, <1>2, <2>2, <2>3, <2>4, <2>5, <2>6, <2>7, Zenon DEF TypeOK
<1>4. Control
  BY SourcesFacts DEF Init, Control, Known, InLoop
<1>5. QED
  BY <1>3, <1>4

(* Every line of the loop keeps the types and the place it is called from. *)
LEMMA TypeStep == TypeOK /\ Control /\ [Next]_vars => TypeOK' /\ Control'
<1> SUFFICES ASSUME TypeOK, Control, [Next]_vars
             PROVE  TypeOK' /\ Control'
  OBVIOUS
<1> USE SourcesFacts, SinksAssumption, TimeAssumption
<1>1. CASE Run
  BY <1>1 DEF Run, TypeOK, Control, Known, InLoop, dataVars, queueVars
<1>2. CASE BeginPass
  <2>1. TypeOK'
    BY <1>2 DEF BeginPass, TypeOK, InLoop, dataVars, timeVars, queueVars
  <2>2. Control'
    BY <1>2 DEF BeginPass, Control, Known, InLoop, dataVars
  <2>3. QED
    BY <2>1, <2>2
<1>3. CASE LeaveLoop
  BY <1>3 DEF LeaveLoop, TypeOK, Control, Known, InLoop, dataVars, timeVars, queueVars
<1>4. CASE PollZmq
  <2>1. zmqQueue' \in Seq(ZmqMessage \union {Malformed})
    <3>1. zmqQueue \in Seq(ZmqMessage \union {Malformed})
      BY DEF TypeOK
    <3>2. zmqQueue # <<>> => Tail(zmqQueue) \in Seq(ZmqMessage \union {Malformed})
      BY <3>1, HeadTailProperties, Zenon
    <3>3. QED
      BY <1>4, <3>1, <3>2 DEF PollZmq
  <2>2. zmqQueue # <<>> => Head(zmqQueue) \in ZmqMessage \union {Malformed}
    BY HeadTailProperties DEF TypeOK
  <2>3. batch' = <<>> \/ (\E frame \in ZmqMessage : batch' = <<frame>>)
    BY <1>4, <2>2 DEF PollZmq, Polled
  <2>4. batch' \in Seq(ZmqMessage \union RosMessage)
    <3>1. \A frame \in ZmqMessage : <<frame>> \in Seq(ZmqMessage)
      OBVIOUS
    <3>2. <<>> \in Seq(ZmqMessage)
      OBVIOUS
    <3>3. batch' \in Seq(ZmqMessage)
      BY <2>3, <3>1, <3>2
    <3>4. QED
      BY <3>3, SeqMonotonic
  <2>5. IF batch' = <<>> THEN NextSource ELSE pc' = "process" /\ UNCHANGED source
    BY <1>4 DEF PollZmq, Polled
  <2>6. TypeOK'
    <3>1. pc' \in InLoop /\ source' \in 1..(Len(Sources) + 1)
      BY <1>4, <2>5 DEF PollZmq, NextSource, TypeOK, Control, InLoop
    <3>2. UNCHANGED <<running, sink, raised, closed, dataVars, timeVars, rosQueue>>
      BY <1>4 DEF PollZmq
    <3>3. QED
      BY <2>1, <2>4, <3>1, <3>2 DEF TypeOK, dataVars, timeVars
  <2>7. Control'
    BY <1>4, <2>5 DEF PollZmq, NextSource, TypeOK, Control, Known, InLoop, dataVars
  <2>8. QED
    BY <2>6, <2>7
<1>5. CASE PollRos
  <2>1. rosQueue' \in Seq(Seq(RosMessage))
    <3>1. rosQueue # <<>> => Tail(rosQueue) \in Seq(Seq(RosMessage))
      BY HeadTailProperties, Zenon DEF TypeOK
    <3>2. QED
      BY <1>5, <3>1 DEF PollRos, TypeOK
  <2>2. batch' \in Seq(RosMessage)
    <3>1. rosQueue # <<>> => Head(rosQueue) \in Seq(RosMessage)
      BY HeadTailProperties, Zenon DEF TypeOK
    <3>2. <<>> \in Seq(RosMessage)
      OBVIOUS
    <3>3. batch' = <<>> \/ (rosQueue # <<>> /\ batch' = Head(rosQueue))
      BY <1>5 DEF PollRos, Polled
    <3>4. QED
      BY <3>1, <3>2, <3>3
  <2>3. batch' \in Seq(ZmqMessage \union RosMessage)
    BY <2>2, SeqMonotonic
  <2>4. IF batch' = <<>> THEN NextSource ELSE pc' = "process" /\ UNCHANGED source
    BY <1>5 DEF PollRos, Polled
  <2>5. TypeOK'
    <3>1. pc' \in InLoop /\ source' \in 1..(Len(Sources) + 1)
      BY <1>5, <2>4 DEF PollRos, NextSource, TypeOK, Control, InLoop
    <3>2. UNCHANGED <<running, sink, raised, closed, dataVars, timeVars, zmqQueue>>
      BY <1>5 DEF PollRos
    <3>3. QED
      BY <2>1, <2>3, <3>1, <3>2 DEF TypeOK, dataVars, timeVars
  <2>6. Control'
    BY <1>5, <2>4 DEF PollRos, NextSource, TypeOK, Control, Known, InLoop, dataVars
  <2>7. QED
    BY <2>5, <2>6
<1>6. CASE ProcessMessage
  BY <1>6 DEF ProcessMessage, HeardFrom, TypeOK, Control, Known, InLoop, Entry, Levels, ZmqMessage, RosMessage, dataVars, queueVars
<1>7. CASE HandleMessage
  BY <1>7 DEF HandleMessage, TypeOK, Control, Known, InLoop, dataVars, timeVars, queueVars
<1>8. CASE PublishState
  <2>1. TypeOK'
    BY <1>8 DEF PublishState, NextSource, TypeOK, Control, InLoop, timeVars, queueVars
  <2>2. Control'
    BY <1>8 DEF PublishState, NextSource, TypeOK, Control, Known, InLoop, timeVars, queueVars
  <2>3. QED
    BY <2>1, <2>2
<1>9. CASE StaleCheck
  BY <1>9 DEF StaleCheck, CheckDue, AfterMarking, TypeOK, Control, Known, InLoop, Entry, queueVars
<1>10. CASE SinkRaises
  BY <1>10 DEF SinkRaises, TypeOK, Control, Known, InLoop, dataVars, timeVars, queueVars
<1>11. CASE SourceRaises
  BY <1>11 DEF SourceRaises, TypeOK, Control, Known, InLoop, dataVars, timeVars, queueVars
<1>12. CASE Close
  BY <1>12 DEF Close, LastClosed, TypeOK, Control, Known, InLoop, dataVars, timeVars, queueVars
<1>13. CASE CloseRaises
  BY <1>13 DEF CloseRaises, TypeOK, Control, Known, InLoop, dataVars, timeVars, queueVars
<1>14. CASE Stop
  BY <1>14 DEF Stop, TypeOK, Control, Known, InLoop, dataVars, timeVars, queueVars
<1>15. CASE Tick
  <2>1. sinceSeen' \in [Nodes -> 0..Deadline]
    BY <1>15, AgedFacts DEF Tick, TypeOK
  <2>2. sinceCheck' \in 0..Deadline
    BY <1>15, AgedFacts DEF Tick, TypeOK
  <2>3. sincePass' \in 0..MaxPass
    BY <1>15 DEF Tick, TypeOK
  <2>4. QED
    BY <1>15, <2>1, <2>2, <2>3
    DEF Tick, TypeOK, Control, Known, InLoop, loopVars, dataVars, queueVars
<1>16. ASSUME NEW frame \in ZmqMessage \union {Malformed}, ArriveZmq(frame)
       PROVE  TypeOK' /\ Control'
  BY <1>16 DEF ArriveZmq, TypeOK, Control, Known, InLoop, loopVars, dataVars, timeVars
<1>17. ASSUME NEW array \in Arrays, ArriveRos(array)
       PROVE  TypeOK' /\ Control'
  <2>1. array \in Seq(RosMessage)
    BY ArraysAreSequences
  <2>2. rosQueue' \in Seq(Seq(RosMessage))
    BY <1>17, <2>1, QueueAssumption DEF ArriveRos, TypeOK
  <2>3. QED
    BY <1>17, <2>2 DEF ArriveRos, TypeOK, Control, Known, InLoop, loopVars, dataVars, timeVars
<1>18. CASE UNCHANGED vars
  BY <1>18 DEF vars, TypeOK, Control, Known, InLoop, loopVars, dataVars, timeVars, queueVars
<1>19. QED
  BY <1>1, <1>2, <1>3, <1>4, <1>5, <1>6, <1>7, <1>8, <1>9, <1>10, <1>11, <1>12,
     <1>13, <1>14, <1>15, <1>16, <1>17, <1>18
  DEF Next, Step, Arrival, Ended

(* The fields of AggregatorService keep to their types in every step, the  *)
(* source index, the batch and the sink index of poll_once and close()     *)
(* included.                                                               *)
THEOREM TypeCorrect == Spec => []TypeOK
<1>1. Spec => [](TypeOK /\ Control)
  BY TypeInit, TypeStep, PTL DEF Spec
<1>2. QED
  BY <1>1, PTL

-----------------------------------------------------------------------------
(***************************************************************************)
(* Staleness.  A live level may be as old as the timeout plus the age of   *)
(* the last check; and that check is young, because every pass evaluates   *)
(* its condition, except in the first pass of a loop that starts long      *)
(* after the constructor, when every node known is itself young.           *)
(***************************************************************************)
Punctual ==
    /\ \A n \in Known : cache[n].level # STALE => sinceSeen[n] <= Timeout + sinceCheck
    /\ \/ sinceCheck < CheckInterval + sincePass
       \/ \A n \in Known : sinceSeen[n] <= sincePass

StaleInv == TypeOK /\ Control /\ StaleSound /\ Punctual

(* The ages of the checks bound the silence of a node that is not marked.  *)
LEMMA PunctualImpliesTimely == TypeOK /\ Punctual => StaleTimely
  BY TimeAssumption DEF TypeOK, Punctual, StaleTimely, Known, Deadline

(* Before the loop nothing has been heard, and no check is due.            *)
LEMMA StaleInvInit == Init => StaleInv
<1> SUFFICES ASSUME Init PROVE StaleInv
  OBVIOUS
<1>1. TypeOK /\ Control
  BY TypeInit
<1>2. Known = {}
  BY DEF Init, Known
<1>3. StaleSound /\ Punctual
  BY <1>2 DEF StaleSound, Punctual
<1>4. QED
  BY <1>1, <1>3 DEF StaleInv

(* The steps that touch neither the cache nor an age.                      *)
LEMMA StaleUntouched ==
    ASSUME StaleSound, Punctual, UNCHANGED <<cache, timeVars>>
    PROVE  StaleSound' /\ Punctual'
  BY DEF StaleSound, Punctual, Known, timeVars

(* Only ProcessMessage, StaleCheck, Tick and the start of the loop touch a *)
(* level or an age.                                                        *)
LEMMA StaleStep == StaleInv /\ [Next]_vars => StaleInv'
<1> SUFFICES ASSUME StaleInv, [Next]_vars
             PROVE  StaleInv'
  OBVIOUS
<1> USE DEF StaleInv
<1>1. TypeOK' /\ Control'
  BY TypeStep
<1>2. CASE Run
  <2>1. Known = {} /\ Known' = {}
    BY <1>2 DEF Run, Control, Known, dataVars
  <2>2. QED
    BY <1>1, <2>1 DEF StaleSound, Punctual
<1>3. CASE ProcessMessage
  <2> DEFINE m == Head(batch)
  <2>1. m.node \in Nodes
    BY <1>3, HeadTailProperties DEF ProcessMessage, HeardFrom, TypeOK, Control, ZmqMessage, RosMessage
  <2>2. /\ cache' = [cache EXCEPT ![m.node] = [level |-> m.level, msg |-> "reported"]]
        /\ sinceSeen' = [sinceSeen EXCEPT ![m.node] = 0]
        /\ UNCHANGED <<sinceCheck, sincePass>>
    BY <1>3 DEF ProcessMessage, HeardFrom
  <2> HIDE DEF m
  <2>3. Known' \subseteq Known \union {m.node}
    BY <2>1, <2>2 DEF Known, TypeOK
  <2>4. /\ cache'[m.node].msg = "reported"
        /\ sinceSeen'[m.node] = 0
        /\ \A n \in Nodes \ {m.node} : cache'[n] = cache[n] /\ sinceSeen'[n] = sinceSeen[n]
    BY <2>1, <2>2 DEF TypeOK
  <2>5. StaleSound'
    BY <2>3, <2>4 DEF StaleSound, Known
  <2>6. \A n \in Known' : cache'[n].level # STALE => sinceSeen'[n] <= Timeout + sinceCheck'
    BY <2>2, <2>3, <2>4, TimeAssumption DEF Punctual, TypeOK, Known
  <2>7. ASSUME \A n \in Known : sinceSeen[n] <= sincePass
        PROVE  \A n \in Known' : sinceSeen'[n] <= sincePass'
    BY <2>2, <2>3, <2>4, <2>7, TimeAssumption DEF TypeOK, Known
  <2>8. Punctual'
    BY <2>2, <2>6, <2>7 DEF Punctual
  <2>9. QED
    BY <1>1, <2>5, <2>8
<1>4. CASE StaleCheck
  <2>1. CASE sinceCheck >= CheckInterval
    <3>1. /\ sinceCheck' = 0
          /\ sinceSeen' = sinceSeen
          /\ cache' = [n \in Nodes |-> IF n \in Expired
                                        THEN [level |-> STALE, msg |-> "STALE"]
                                        ELSE cache[n]]
          /\ sincePass' = 0
      BY <1>4, <2>1 DEF StaleCheck, CheckDue, AfterMarking
    <3>2. \A n \in Nodes : n \in Expired => cache'[n].level = STALE /\ sinceSeen[n] > Timeout
      BY <3>1 DEF Expired
    <3>3. \A n \in Nodes : n \notin Expired => cache'[n] = cache[n]
      BY <3>1
    <3>4. Known' \subseteq Known
      BY <3>2, <3>3 DEF Known, Expired
    <3>5. StaleSound'
      BY <3>1, <3>2, <3>3, <3>4 DEF StaleSound, Known
    <3>6. \A n \in Known' : cache'[n].level # STALE => sinceSeen'[n] <= Timeout + sinceCheck'
      BY <3>1, <3>2, <3>3, <3>4, TimeAssumption DEF Expired, Known, TypeOK
    <3>7. sinceCheck' < CheckInterval + sincePass'
      BY <3>1, TimeAssumption
    <3>8. QED
      BY <1>1, <3>5, <3>6, <3>7 DEF Punctual
  <2>2. CASE ~(sinceCheck >= CheckInterval)
    <3>1. /\ UNCHANGED <<sinceCheck, cache, sinceSeen>>
          /\ sincePass' = 0
      BY <1>4, <2>2 DEF StaleCheck, CheckDue, AfterMarking
    <3>2. sinceCheck' < CheckInterval + sincePass'
      BY <2>2, <3>1, TimeAssumption DEF TypeOK
    <3>3. QED
      BY <1>1, <3>1, <3>2 DEF StaleSound, Punctual, Known
  <2>3. QED
    BY <2>1, <2>2
<1>5. CASE Tick
  <2>1. /\ UNCHANGED cache
        /\ Known' = Known
        /\ sinceCheck' = Aged(sinceCheck)
        /\ \A n \in Known : sinceSeen'[n] = Aged(sinceSeen[n])
    BY <1>5 DEF Tick, dataVars, Known
  <2>2. \A n \in Known : sinceSeen[n] \in 0..Deadline
    BY DEF Known, TypeOK
  <2>3. StaleSound'
    <3>1. \A n \in Known : sinceSeen[n] > Timeout => sinceSeen'[n] > Timeout
      BY <2>1, <2>2, AgedFacts, TimeAssumption
    <3>2. QED
      BY <2>1, <3>1 DEF StaleSound
  <2>4. \A n \in Known : sinceSeen[n] <= Timeout + sinceCheck => sinceSeen'[n] <= Timeout + sinceCheck'
    <3>1. SUFFICES ASSUME NEW n \in Known, sinceSeen[n] <= Timeout + sinceCheck
                   PROVE  Aged(sinceSeen[n]) <= Timeout + Aged(sinceCheck)
      BY <2>1
    <3>2. sinceSeen[n] \in 0..Deadline /\ sinceCheck \in 0..Deadline
      BY <2>2 DEF TypeOK
    <3>3. QED
      BY <3>1, <3>2, SourcesFacts, TimeAssumption DEF Aged
  <2>5. CASE pc = "start"
    <3>1. Known = {}
      BY <2>5 DEF Control
    <3>2. QED
      BY <1>1, <2>1, <2>3, <3>1 DEF Punctual
  <2>6. CASE pc # "start"
    <3>1. sincePass' = sincePass + 1
      BY <1>5, <2>6 DEF Tick
    <3>2. sinceCheck < CheckInterval + sincePass => sinceCheck' < CheckInterval + sincePass'
      BY <2>1, <3>1, AgedFacts, TimeAssumption DEF TypeOK
    <3>3. \A n \in Known : sinceSeen[n] <= sincePass => sinceSeen'[n] <= sincePass'
      <4>1. SUFFICES ASSUME NEW n \in Known, sinceSeen[n] <= sincePass
                     PROVE  Aged(sinceSeen[n]) <= sincePass + 1
        BY <2>1, <3>1
      <4>2. sinceSeen[n] \in 0..Deadline /\ sincePass \in 0..MaxPass
        BY <2>2 DEF TypeOK
      <4>3. QED
        BY <4>1, <4>2, SourcesFacts, TimeAssumption DEF Aged
    <3>4. QED
      BY <1>1, <2>1, <2>3, <2>4, <3>2, <3>3 DEF Punctual
  <2>7. QED
    BY <2>5, <2>6
<1>6. ASSUME UNCHANGED <<cache, timeVars>>
      PROVE  StaleInv'
  BY <1>1, <1>6, StaleUntouched
<1>7. CASE \/ BeginPass \/ LeaveLoop \/ PollZmq \/ PollRos
           \/ SinkRaises \/ SourceRaises \/ Close \/ CloseRaises \/ Stop
  BY <1>6, <1>7 DEF BeginPass, LeaveLoop, PollZmq, PollRos, SinkRaises, SourceRaises,
     Close, LastClosed, CloseRaises, Stop, dataVars
<1>8. CASE HandleMessage \/ PublishState
  BY <1>6, <1>8 DEF HandleMessage, PublishState, dataVars
<1>9. CASE Arrival \/ UNCHANGED vars
  BY <1>6, <1>9 DEF Arrival, ArriveZmq, ArriveRos, vars, dataVars
<1>10. QED
  BY <1>2, <1>3, <1>4, <1>5, <1>7, <1>8, <1>9 DEF Next, Step, Ended

(* The invariant behind both properties of the stale marks.                *)
LEMMA StaleInvariant == Spec => []StaleInv
  BY StaleInvInit, StaleStep, PTL DEF Spec

(* The aggregator never calls a node STALE that it heard from within the   *)
(* timeout: process_message against _mark_stale_nodes.                     *)
THEOREM StaleIsSound == Spec => []StaleSound
<1>1. StaleInv => StaleSound
  BY DEF StaleInv
<1>2. QED
  BY <1>1, StaleInvariant, PTL

(* The aggregator never keeps a live level for timeout + interval + one    *)
(* pass of the loop: the interval check of poll_once never slips.          *)
THEOREM StaleIsTimely == Spec => []StaleTimely
<1>1. StaleInv => StaleTimely
  BY PunctualImpliesTimely DEF StaleInv
<1>2. QED
  BY <1>1, StaleInvariant, PTL

-----------------------------------------------------------------------------
(***************************************************************************)
(* Publication.  While a publication is running, the sinks before the one  *)
(* being called have the current state already.                            *)
(***************************************************************************)
Publishing ==
    ~raised /\ pc = "publish" => \A k \in 1..NumSinks : k < sink => snapshot[k] = cache

SinksInv == TypeOK /\ Control /\ SinksCurrent /\ Publishing

(* Nothing is published before the loop, and the sinks show nothing.       *)
LEMMA SinksInvInit == Init => SinksInv
<1>1. Init => SinksCurrent /\ Publishing
  BY DEF Init, SinksCurrent, Publishing
<1>2. QED
  BY <1>1, TypeInit DEF SinksInv

(* Between two publications the sinks agree; inside one, up to the current *)
(* sink.                                                                   *)
LEMMA SinksStep == SinksInv /\ [Next]_vars => SinksInv'
<1> SUFFICES ASSUME SinksInv, [Next]_vars
             PROVE  SinksInv'
  OBVIOUS
<1> USE DEF SinksInv
<1>1. TypeOK' /\ Control'
  BY TypeStep
<1>2. CASE ProcessMessage
  BY <1>1, <1>2 DEF ProcessMessage, HeardFrom, SinksCurrent, Publishing
<1>3. CASE HandleMessage
  <2>1. CASE sink < NumSinks
    BY <1>1, <1>3, <2>1 DEF HandleMessage, dataVars, SinksCurrent, Publishing
  <2>2. CASE ~(sink < NumSinks)
    BY <1>1, <1>3, <2>2 DEF HandleMessage, dataVars, SinksCurrent, Publishing
  <2>3. QED
    BY <2>1, <2>2
<1>4. CASE PublishState
  <2>1. /\ cache' = cache
        /\ raised' = raised
        /\ snapshot'[sink] = cache
        /\ \A k \in 1..NumSinks : k # sink => snapshot'[k] = snapshot[k]
    BY <1>4 DEF PublishState, TypeOK
  <2>2. raised \/ (\A k \in 1..NumSinks : k <= sink => snapshot'[k] = cache')
    BY <1>4, <2>1 DEF PublishState, Publishing, TypeOK
  <2>3. CASE sink < NumSinks
    <3>1. pc' = "publish" /\ sink' = sink + 1
      BY <1>4, <2>3 DEF PublishState
    <3>2. QED
      BY <1>1, <2>1, <2>2, <3>1 DEF SinksCurrent, Publishing, TypeOK
  <2>4. CASE ~(sink < NumSinks)
    <3>1. pc' # "publish"
      BY <1>4, <2>4 DEF PublishState, NextSource
    <3>2. raised \/ (\A k \in 1..NumSinks : snapshot'[k] = cache')
      BY <2>2, <2>4, SinksAssumption DEF TypeOK
    <3>3. QED
      BY <1>1, <2>1, <3>1, <3>2 DEF SinksCurrent, Publishing
  <2>5. QED
    BY <2>3, <2>4
<1>5. CASE StaleCheck
  <2>1. CASE sinceCheck >= CheckInterval /\ Expired # {}
    <3>1. pc' = "publish" /\ sink' = sink /\ raised' = raised
      BY <1>5, <2>1 DEF StaleCheck, CheckDue, AfterMarking
    <3>2. sink = 1
      BY <1>5 DEF StaleCheck, CheckDue, AfterMarking, Control
    <3>3. QED
      BY <1>1, <3>1, <3>2 DEF SinksCurrent, Publishing
  <2>2. CASE ~(sinceCheck >= CheckInterval /\ Expired # {})
    <3>1. cache' = cache
      BY <1>5, <2>2 DEF StaleCheck, CheckDue, AfterMarking, TypeOK
    <3>2. pc' = "top" /\ UNCHANGED <<snapshot, raised>>
      BY <1>5, <2>2 DEF StaleCheck, CheckDue, AfterMarking
    <3>3. QED
      BY <1>1, <1>5, <3>1, <3>2 DEF StaleCheck, CheckDue, AfterMarking, SinksCurrent, Publishing
  <2>3. QED
    BY <2>1, <2>2
<1>6. CASE SinkRaises \/ SourceRaises \/ CloseRaises
  BY <1>1, <1>6 DEF SinkRaises, SourceRaises, CloseRaises, SinksCurrent, Publishing
<1>7. CASE \/ Run \/ BeginPass \/ LeaveLoop \/ Close
  BY <1>1, <1>7 DEF Run, BeginPass, LeaveLoop, Close, LastClosed, dataVars, SinksCurrent, Publishing
<1>8. CASE PollZmq \/ PollRos
  <2>1. /\ pc = "poll" /\ pc' \in {"poll", "process", "check"}
        /\ UNCHANGED <<raised, cache, snapshot>>
    BY <1>8 DEF PollZmq, PollRos, Polled, NextSource, dataVars
  <2>2. QED
    BY <1>1, <2>1 DEF SinksCurrent, Publishing
<1>9. CASE Stop \/ Tick \/ Arrival \/ UNCHANGED vars
  <2>1. UNCHANGED <<pc, sink, raised, cache, snapshot>>
    BY <1>9 DEF Stop, Tick, Arrival, ArriveZmq, ArriveRos, vars, loopVars, dataVars
  <2>2. QED
    BY <1>1, <2>1 DEF SinksCurrent, Publishing
<1>10. QED
  BY <1>2, <1>3, <1>4, <1>5, <1>6, <1>7, <1>8, <1>9 DEF Next, Step, Ended

(* No change of the cache is kept from any sink, unless an exception is    *)
(* ending the loop: every path through poll_once that changes the cache    *)
(* goes through the whole of _publish_state.                               *)
THEOREM EverySinkIsCurrent == Spec => []SinksCurrent
<1>1. Spec => []SinksInv
  BY SinksInvInit, SinksStep, PTL DEF Spec
<1>2. SinksInv => SinksCurrent
  BY DEF SinksInv
<1>3. QED
  BY <1>1, <1>2, PTL

-----------------------------------------------------------------------------
(* The aggregator implements the board.                                    *)

shown == [n \in Nodes |-> IF cache[n] = None THEN None ELSE cache[n].level]

(* The level shown for a node is None exactly when the node is unknown.    *)
LEMMA ShownFacts ==
    ASSUME TypeOK
    PROVE  /\ Board!Known = Known
           /\ \A n \in Known : shown[n] = cache[n].level
  BY NoneAssumption DEF TypeOK, Board!Known, Known, shown, Entry

(* The empty cache is the empty board.                                     *)
LEMMA BoardInit == Init => Board!Init
  BY DEF Init, Board!Init

(* Each line of the loop is a report, an expiry, a tick or a stutter of the*)
(* board.                                                                  *)
LEMMA BoardStep ==
    StaleInv /\ StaleInv' /\ [Next]_vars => [Board!Next]_Board!bvars
<1> SUFFICES ASSUME StaleInv, StaleInv', [Next]_vars
             PROVE  Board!Next \/ UNCHANGED <<shown, sinceSeen>>
  BY DEF Board!bvars, shown
<1> USE DEF StaleInv
<1>1. CASE ProcessMessage
  <2> DEFINE m == Head(batch)
  <2>1. m \in ZmqMessage \union RosMessage
    BY <1>1, HeadTailProperties DEF ProcessMessage, HeardFrom, TypeOK, Control
  <2>2. /\ cache' = [cache EXCEPT ![m.node] = [level |-> m.level, msg |-> "reported"]]
        /\ sinceSeen' = [sinceSeen EXCEPT ![m.node] = 0]
    BY <1>1 DEF ProcessMessage, HeardFrom
  <2>3. m.node \in Nodes /\ m.level \in Levels
    BY <2>1 DEF ZmqMessage, RosMessage, Levels
  <2> HIDE DEF m
  <2>4. [level |-> m.level, msg |-> "reported"] # None
    BY <2>3, NoneAssumption DEF Entry
  <2>5. PICK n \in Nodes, level \in Levels : n = m.node /\ level = m.level
    BY <2>3
  <2>6. shown' = [shown EXCEPT ![n] = level]
    BY <2>2, <2>4, <2>5 DEF shown, TypeOK
  <2>7. Board!Report(n, level)
    BY <2>2, <2>5, <2>6 DEF Board!Report, shown
  <2>8. QED
    BY <2>7 DEF Board!Next
<1>2. CASE StaleCheck
  <2>1. CASE sinceCheck >= CheckInterval /\ Expired # {}
    <3>1. cache' = [n \in Nodes |-> IF n \in Expired
                                    THEN [level |-> STALE, msg |-> "STALE"]
                                    ELSE cache[n]]
      BY <1>2, <2>1 DEF StaleCheck, CheckDue, AfterMarking
    <3>2. [level |-> STALE, msg |-> "STALE"] # None
      BY NoneAssumption DEF Entry
    <3>3. shown' = [n \in Nodes |-> IF n \in Expired THEN STALE ELSE shown[n]]
      BY <3>1, <3>2 DEF shown
    <3>4. \A n \in Expired : shown[n] # STALE /\ sinceSeen[n] > Timeout
      BY ShownFacts DEF Expired
    <3>5. Expired \in SUBSET Board!Known
      BY ShownFacts DEF Expired
    <3>6. sinceSeen' = sinceSeen
      BY <1>2 DEF StaleCheck, CheckDue, AfterMarking
    <3>7. PICK S \in SUBSET Board!Known : S = Expired
      BY <3>5
    <3>8. Board!Expire(S)
      BY <2>1, <3>3, <3>4, <3>6, <3>7 DEF Board!Expire, Board!Stale, STALE, shown
    <3>9. QED
      BY <3>8 DEF Board!Next
  <2>2. CASE ~(sinceCheck >= CheckInterval /\ Expired # {})
    <3>1. cache' = cache
      BY <1>2, <2>2 DEF StaleCheck, CheckDue, AfterMarking, TypeOK
    <3>2. sinceSeen' = sinceSeen
      BY <1>2 DEF StaleCheck, CheckDue, AfterMarking
    <3>3. QED
      BY <3>1, <3>2 DEF shown
  <2>3. QED
    BY <2>1, <2>2
<1>3. CASE Tick
  <2>1. shown' = shown
    BY <1>3 DEF Tick, dataVars, shown
  <2>2. Known' = Known
    BY <1>3 DEF Tick, dataVars, Known
  <2>3. sinceSeen' = [n \in Nodes |-> IF n \in Board!Known THEN Board!Aged(sinceSeen[n]) ELSE sinceSeen[n]]
    BY <1>3, ShownFacts DEF Tick, Aged, Board!Aged
  <2>4. \A n \in Board!Known : shown[n] # STALE => sinceSeen'[n] < Deadline
    <3>1. StaleTimely'
      BY PunctualImpliesTimely, PTL
    <3>2. cache' = cache
      BY <1>3 DEF Tick, dataVars
    <3>3. QED
      BY <2>2, <3>1, <3>2, ShownFacts DEF StaleTimely
  <2>5. Board!Pass
    BY <2>1, <2>3, <2>4 DEF Board!Pass, Board!Stale, STALE, shown
  <2>6. QED
    BY <2>5 DEF Board!Next
<1>4. ASSUME UNCHANGED <<cache, sinceSeen>>
      PROVE  UNCHANGED <<shown, sinceSeen>>
  BY <1>4 DEF shown
<1>5. CASE \/ BeginPass \/ LeaveLoop \/ PollZmq \/ PollRos \/ Run
           \/ SinkRaises \/ SourceRaises \/ Close \/ CloseRaises \/ Stop
  BY <1>4, <1>5 DEF BeginPass, LeaveLoop, PollZmq, PollRos, SinkRaises, SourceRaises,
     Run, Close, LastClosed, CloseRaises, Stop, dataVars, timeVars
<1>6. CASE HandleMessage \/ PublishState
  BY <1>4, <1>6 DEF HandleMessage, PublishState, dataVars, timeVars
<1>7. CASE Arrival \/ UNCHANGED vars
  BY <1>4, <1>7 DEF Arrival, ArriveZmq, ArriveRos, vars, dataVars, timeVars
<1>8. QED
  BY <1>1, <1>2, <1>3, <1>5, <1>6, <1>7 DEF Next, Step, Ended

(* Every behaviour of the aggregator is one of the board's: levels change  *)
(* by a report or by a silence longer than the timeout and in no other     *)
(* way, and no silence as long as the deadline goes unmarked.              *)
THEOREM ImplementsBoard == Spec => BoardSpec
<1>1. Init => Board!Init
  BY BoardInit
<1>2. StaleInv /\ StaleInv' /\ [Next]_vars => [Board!Next]_Board!bvars
  BY BoardStep
<1>3. QED
  BY <1>1, <1>2, StaleInvariant, PTL DEF Spec, BoardSpec, Board!Spec

-----------------------------------------------------------------------------
(* The configuration.                                                      *)

USE SettingsAssumption

(* A setting that can be read is a number, given or default.               *)
LEMMA TakenIsNumber ==
    ASSUME NEW setting \in Setting, NEW default \in Int,
           Taken(setting, default) # Unreadable, setting # NaN
    PROVE  Taken(setting, default) \in Int
  BY DEF Taken, Setting, Number

(* A list with one element or none.                                        *)
LEMMA ShortLists ==
    ASSUME NEW S, NEW x \in S
    PROVE  <<>> \in Seq(S) /\ <<x>> \in Seq(S) /\ Len(<<x>>) = 1
  OBVIOUS

(* An aggregator that starts has positive times, a size limit and a list   *)
(* of sources and one of sinks, never empty, as Aggregator assumes.  The   *)
(* rate of the ROS sink is validated wherever that sink exists.            *)
THEOREM AggregatorSettingsFit ==
    ASSUME NEW file \in AggregatorFiles, AggregatorLoads(file), NEW rclpy \in BOOLEAN,
           \A t \in Times : file.time[t] # NaN,
           file.rate # NaN, file.size # NaN
    PROVE  LET c == AggregatorMerged(file) IN
           /\ \A t \in Times : c.time[t] \in Nat \ {0}
           /\ c.size \in Nat \ {0}
           /\ HasRos(c, rclpy) => c.rate \in Nat \ {0}
           /\ SourcesOf(c, rclpy) \in {<<"zmq">>, <<"zmq", "ros">>}
           /\ Len(SinksOf(c, rclpy)) \in Nat \ {0}
<1> DEFINE c == AggregatorMerged(file)
<1>1. AggregatorReadable(c) /\ AggregatorValid(c)
  BY DEF AggregatorLoads
<1>2. /\ \A t \in Times : c.time[t] = Taken(file.time[t], DefaultTime[t])
      /\ c.rate = Taken(file.rate, Scale)
      /\ c.size = Taken(file.size, 100 * Scale)
  BY DEF AggregatorMerged
<1>3. (\A t \in Times : file.time[t] \in Setting) /\ file.rate \in Setting /\ file.size \in Setting
  BY DEF AggregatorFiles
<1>4. (\A t \in Times : DefaultTime[t] \in Int) /\ Scale \in Int /\ 100 * Scale \in Int
  BY DEF DefaultTime, Times
<1> HIDE DEF c
<1>5. ASSUME NEW t \in Times PROVE c.time[t] \in Nat \ {0}
  <2>1. c.time[t] # Unreadable /\ ~AtMost(c.time[t], 0)
    BY <1>1 DEF AggregatorReadable, AggregatorValid
  <2>2. c.time[t] \in Int
    BY <1>2, <1>3, <1>4, <2>1, TakenIsNumber
  <2>3. QED
    BY <2>1, <2>2 DEF AtMost
<1>6. c.size \in Nat \ {0}
  <2>1. c.size # Unreadable /\ ~AtMost(c.size, 0)
    BY <1>1 DEF AggregatorReadable, AggregatorValid
  <2>2. c.size \in Int
    BY <1>2, <1>3, <1>4, <2>1, TakenIsNumber
  <2>3. QED
    BY <2>1, <2>2 DEF AtMost
<1>7. ASSUME HasRos(c, rclpy) PROVE c.rate \in Nat \ {0}
  <2>1. c.rate # Unreadable /\ ~AtMost(c.rate, 0)
    BY <1>1, <1>7 DEF AggregatorReadable, AggregatorValid, HasRos
  <2>2. c.rate \in Int
    BY <1>2, <1>3, <1>4, <2>1, TakenIsNumber
  <2>3. QED
    BY <2>1, <2>2 DEF AtMost
<1>8. SourcesOf(c, rclpy) \in {<<"zmq">>, <<"zmq", "ros">>}
  BY DEF SourcesOf
<1>9. Len(SinksOf(c, rclpy)) \in Nat \ {0}
  <2> DEFINE kinds == {"influxdb", "json_file", "stdout", "ros"}
             json == IF c.switch["json_file"] THEN <<"json_file">> ELSE <<>>
             stdout == IF c.switch["stdout"] THEN <<"stdout">> ELSE <<>>
             ros == IF HasRos(c, rclpy) /\ c.switch["publish_aggregated"] THEN <<"ros">> ELSE <<>>
  <2>1. <<"influxdb">> \in Seq(kinds) /\ Len(<<"influxdb">>) = 1
    BY ShortLists
  <2>2. json \in Seq(kinds)
    BY ShortLists
  <2>3. stdout \in Seq(kinds)
    BY ShortLists
  <2>4. ros \in Seq(kinds)
    BY ShortLists
  <2>5. SinksOf(c, rclpy) = <<"influxdb">> \o json \o stdout \o ros
    BY DEF SinksOf
  <2> HIDE DEF kinds, json, stdout, ros
  <2>6. <<"influxdb">> \o json \in Seq(kinds) /\ Len(<<"influxdb">> \o json) = 1 + Len(json)
    BY <2>1, <2>2
  <2>7. Len(<<"influxdb">> \o json \o stdout \o ros) = 1 + Len(json) + Len(stdout) + Len(ros)
    BY <2>2, <2>3, <2>4, <2>6
  <2>8. QED
    BY <2>2, <2>3, <2>4, <2>5, <2>7
<1>10. QED
  BY <1>5, <1>6, <1>7, <1>8, <1>9 DEF c
=============================================================================
