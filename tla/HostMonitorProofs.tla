------------------------- MODULE HostMonitorProofs --------------------------
(***************************************************************************)
(* Proofs about HostMonitor, for any collectors, paths, interval and       *)
(* number of sockets.                                                      *)
(***************************************************************************)
EXTENDS HostMonitor, HostMonitorConfig, FiniteSetTheorems, TLAPS

USE CollectorsAssumption, MonitorTimeAssumption, SocketsAssumption

InPass == {"collect", "publish", "fail"}

(* Where the deadline and the start of the pass are seen from now.  A pass *)
(* is entered within one overshoot after its deadline, and from its start  *)
(* to the end of its sleep it is an interval, less that delay.             *)
Timing ==
    /\ pc = "begin" => /\ ahead \in (-MaxOvershoot)..0
                       /\ sinceStart \in (Interval - MaxOvershoot)..MaxGap
    /\ pc \in InPass => /\ sinceStart = work
                        /\ ahead + work \in (-MaxOvershoot)..0
    /\ pc = "sleep" => /\ ahead >= -MaxOvershoot
                       /\ sinceStart + ahead \in (Interval - MaxOvershoot)..Interval

(* What a collector's last call left at its paths.                         *)
Shows(c) ==
    \A p \in latest[c] : /\ outcome[c] = "raised" => shown[p] = "unavailable"
                         /\ outcome[c] = "samples" => shown[p] = "sample"

(* A call is under way for one collector only: every other one shows how   *)
(* its last call ended, and is remembered with the paths of its last       *)
(* sample.  Those of the present one appear one by one.                    *)
InCall(c) == pc \in {"publish", "fail"} /\ c = Collector

Showing ==
    /\ \A c \in Names : latest[c] \subseteq PathsOf[c]
    /\ \A c \in Names : ~InCall(c) => Shows(c) /\ collectorPaths[c] = latest[c]

Present ==
    /\ pc \in {"publish", "fail"} => current <= Len(Collectors)
    /\ pc = "publish" =>
        /\ pending \subseteq sampled /\ sampled \subseteq PathsOf[Collector]
        /\ \A p \in sampled \ pending : shown[p] = "sample"
        /\ IF sampled = {} THEN /\ outcome[Collector] = "empty"
                                /\ collectorPaths[Collector] = latest[Collector]
                           ELSE outcome[Collector] = "samples" /\ latest[Collector] = sampled
    /\ pc = "fail" => /\ outcome[Collector] = "raised"
                      /\ collectorPaths[Collector] = latest[Collector]

IInv == TypeOK /\ Timing /\ (pc \notin {"close", "done"} => Showing /\ Present)

-----------------------------------------------------------------------------
(* The collector that is due is one of the names, and owns its paths.      *)
LEMMA CollectorIsNamed ==
    ASSUME current \in 1..Len(Collectors)
    PROVE  Collector \in Names /\ PathsOf[Collector] \subseteq Paths
  BY DEF Names, Paths, Collector

LEMMA MaxGapBounds == MaxGap \in Nat /\ MaxWork <= MaxGap /\ Interval + MaxOvershoot <= MaxGap
  BY DEF MaxGap

LEMMA InvInit == Init => IInv
<1> SUFFICES ASSUME Init PROVE IInv
  OBVIOUS
<1> USE DEF Init
<1>1. TypeOK
  <2>1. Len(Collectors) \in Nat /\ Cardinality(publishers) = 0
    BY FS_EmptySet
  <2>2. ahead \in (-(MaxWork + MaxOvershoot))..Interval /\ work \in 0..MaxWork
    OBVIOUS
  <2>3. sinceStart \in 0..(MaxGap + 1)
    BY MaxGapBounds
  <2>4. current \in 1..(Len(Collectors) + 1)
    BY <2>1
  <2>5. /\ pending \subseteq Paths /\ sampled \subseteq Paths /\ publishers \subseteq Paths
        /\ collectorPaths \in [Names -> SUBSET Paths] /\ latest \in [Names -> SUBSET Paths]
    OBVIOUS
  <2>6. /\ shown \in [Paths -> {"nothing", "sample", "unavailable"}]
        /\ outcome \in [Names -> {"none", "samples", "empty", "raised"}]
    OBVIOUS
  <2>7. pc \in InRun \union {"start", "close", "done"} /\ running \in BOOLEAN
    OBVIOUS
  <2>8. Cardinality(publishers) <= MaxSockets
    BY <2>1
  <2>9. QED
    BY <2>2, <2>3, <2>4, <2>5, <2>6, <2>7, <2>8, Zenon DEF TypeOK
<1>2. Timing
  BY DEF Timing, InPass
<1>3. Showing /\ Present
  BY DEF Showing, Shows, Present, InCall
<1>4. QED
  BY <1>1, <1>2, <1>3 DEF IInv

(* Every step keeps the types: publishers are never more than the sockets, *)
(* no collector behind the last one is called, and the clocks keep to      *)
(* their ranges.                                                           *)
LEMMA TypeStep == IInv /\ [Next]_vars => TypeOK'
<1> SUFFICES ASSUME TypeOK, Timing, pc \notin {"close", "done"} => Present, [Next]_vars
             PROVE  TypeOK'
  BY DEF IInv
<1> USE MaxGapBounds DEF TypeOK, Timing, InPass, loopVars, tableVars, timeVars, historyVars
<1>1. CASE Run \/ BeginPass \/ LeaveLoop \/ Wake
  <2>1. ahead' \in (-(MaxWork + MaxOvershoot))..Interval /\ work' \in 0..MaxWork
    BY <1>1 DEF Run, BeginPass, LeaveLoop, Wake
  <2>2. sinceStart' \in 0..(MaxGap + 1)
    BY <1>1 DEF Run, BeginPass, LeaveLoop, Wake
  <2>3. /\ pc' \in InRun \union {"start", "close", "done"} /\ running' \in BOOLEAN
        /\ current' = 1 \/ UNCHANGED current
    BY <1>1 DEF Run, BeginPass, LeaveLoop, Wake, InRun
  <2>. Len(Collectors) \in Nat
    OBVIOUS
  <2>4. UNCHANGED <<pending, sampled, tableVars, historyVars>>
    BY <1>1 DEF Run, BeginPass, LeaveLoop, Wake
  <2>5. QED
    BY <2>1, <2>2, <2>3, <2>4, SMTT(20)
<1>2. CASE EndPass
  BY <1>2 DEF EndPass, NextAhead, InRun
<1>3. ASSUME NEW paths \in SUBSET Paths, Sample(paths)
      PROVE  TypeOK'
  <2>1. Collector \in Names
    BY <1>3, CollectorIsNamed DEF Sample
  <2>2. QED
    BY <1>3, <2>1 DEF Sample, InRun
<1>4. CASE SampleRaises
  <2>1. Collector \in Names
    BY <1>4, CollectorIsNamed DEF SampleRaises
  <2>2. QED
    BY <1>4, <2>1 DEF SampleRaises, InRun
<1>5. ASSUME NEW p \in Paths, Publish(p)
      PROVE  TypeOK'
  <2>1. IsFiniteSet(publishers)
    BY FS_Subset
  <2>2. Cardinality(publishers') <= MaxSockets
    <3>1. Cardinality(publishers) \in Nat
      BY <2>1, FS_CardinalityType
    <3>2. Cardinality(publishers \union {p}) =
              IF p \in publishers THEN Cardinality(publishers) ELSE Cardinality(publishers) + 1
      BY <2>1, FS_AddElement
    <3>3. QED
      BY <1>5, <3>1, <3>2 DEF Publish, HasSocket
  <2>3. QED
    BY <1>5, <2>2 DEF Publish
<1>6. CASE PublishRaises
  BY <1>6 DEF PublishRaises
<1>7. CASE NextCollector \/ HandleCollectorError
  <2>1. current' \in 1..(Len(Collectors) + 1)
    BY <1>7 DEF NextCollector, HandleCollectorError, AfterFailure, Present
  <2>2. CASE NextCollector
    BY <2>1, <2>2 DEF NextCollector, Remembered, InRun
  <2>3. CASE HandleCollectorError
    BY <2>1, <2>3 DEF HandleCollectorError, InRun
  <2>4. QED
    BY <1>7, <2>2, <2>3
<1>8. CASE Close
  BY <1>8, FS_EmptySet DEF Close
<1>9. CASE Stop \/ Ended \/ UNCHANGED vars
  BY <1>9 DEF Stop, Ended, vars
<1>10. CASE Tick
  <2>1. ahead' \in (-(MaxWork + MaxOvershoot))..Interval /\ work' \in 0..MaxWork
    BY <1>10 DEF Tick
  <2>2. sinceStart' \in 0..(MaxGap + 1)
    BY <1>10 DEF Tick
  <2>3. QED
    BY <1>10, <2>1, <2>2 DEF Tick
<1>11. QED
  BY <1>1, <1>2, <1>3, <1>4, <1>5, <1>6, <1>7, <1>8, <1>9, <1>10 DEF Next, Step

(* Every step keeps the clocks together.                                   *)
LEMMA TimingStep == TypeOK /\ Timing /\ [Next]_vars => Timing'
<1> SUFFICES ASSUME TypeOK, Timing, [Next]_vars PROVE Timing'
  OBVIOUS
<1> USE MaxGapBounds
    DEF TypeOK, Timing, InPass, InRun, loopVars, tableVars, timeVars, historyVars
<1>1. CASE Run
  BY <1>1 DEF Run
<1>2. CASE BeginPass
  BY <1>2 DEF BeginPass
<1>3. CASE EndPass
  BY <1>3 DEF EndPass, NextAhead
<1>4. CASE Wake
  BY <1>4 DEF Wake
<1>5. ASSUME pc \in InPass, pc' \in InPass, UNCHANGED timeVars
      PROVE  Timing'
  BY <1>5
<1>6. ASSUME NEW paths \in SUBSET Paths, Sample(paths)
      PROVE  Timing'
  BY <1>5, <1>6 DEF Sample
<1>7. ASSUME NEW p \in Paths, Publish(p)
      PROVE  Timing'
  BY <1>5, <1>7 DEF Publish
<1>8. CASE SampleRaises \/ NextCollector \/ HandleCollectorError
  BY <1>5, <1>8 DEF SampleRaises, NextCollector, HandleCollectorError
<1>9. CASE LeaveLoop \/ PublishRaises \/ Close
  BY <1>9 DEF LeaveLoop, PublishRaises, Close
<1>10. CASE Tick
  BY <1>10 DEF Tick
<1>11. CASE Stop \/ Ended \/ UNCHANGED vars
  BY <1>11 DEF Stop, Ended, vars
<1>12. QED
  BY <1>1, <1>2, <1>3, <1>4, <1>6, <1>7, <1>8, <1>9, <1>10, <1>11 DEF Next, Step

(* Every step keeps what the paths show and what is remembered of them.    *)
LEMMA ShowingStep ==
    TypeOK /\ Showing /\ Present /\ pc' \notin {"close", "done"} /\ [Next]_vars
        => Showing' /\ Present'
<1> SUFFICES ASSUME TypeOK, Showing, Present, pc' \notin {"close", "done"}, [Next]_vars
             PROVE  Showing' /\ Present'
  OBVIOUS
<1> USE DEF InCall, Collector, loopVars, tableVars, timeVars, historyVars
<1>1. ASSUME pc \notin InPass \/ pc = "collect", pc' \notin {"publish", "fail"},
             UNCHANGED <<tableVars, historyVars>>
      PROVE  Showing' /\ Present'
  BY <1>1 DEF Showing, Shows, Present, InPass
<1>2. CASE Run \/ BeginPass \/ EndPass \/ Wake \/ LeaveLoop
  BY <1>1, <1>2 DEF Run, BeginPass, EndPass, Wake, LeaveLoop, InPass
<1>3. ASSUME NEW paths \in SUBSET Paths, Sample(paths)
      PROVE  Showing' /\ Present'
  <2>1. Collector \in Names
    BY <1>3, CollectorIsNamed DEF Sample, TypeOK
  <2>2. Showing'
    BY <1>3, <2>1 DEF Sample, Showing, Shows, TypeOK
  <2>3. Present'
    BY <1>3, <2>1 DEF Sample, Showing, Present, TypeOK
  <2>4. QED
    BY <2>2, <2>3
<1>4. CASE SampleRaises
  <2>1. Collector \in Names
    BY <1>4, CollectorIsNamed DEF SampleRaises, TypeOK
  <2>2. Showing'
    BY <1>4, <2>1 DEF SampleRaises, Showing, Shows, TypeOK
  <2>3. Present'
    BY <1>4, <2>1 DEF SampleRaises, Showing, Present, TypeOK
  <2>4. QED
    BY <2>2, <2>3
<1>5. ASSUME NEW p \in Paths, Publish(p)
      PROVE  Showing' /\ Present'
  <2>1. Collector \in Names /\ p \in PathsOf[Collector]
    BY <1>5, CollectorIsNamed DEF Publish, Present, TypeOK
  <2>2. Showing'
    BY <1>5, <2>1 DEF Publish, Showing, Shows, TypeOK
  <2>3. Present'
    BY <1>5, <2>1 DEF Publish, Present, TypeOK
  <2>4. QED
    BY <2>2, <2>3
<1>6. CASE NextCollector
  <2>1. Collector \in Names
    BY <1>6, CollectorIsNamed DEF NextCollector, Present, TypeOK
  <2>2. Shows(Collector)
    BY <1>6 DEF NextCollector, Present, Shows
  <2>3. collectorPaths' = [collectorPaths EXCEPT ![Collector] = latest[Collector]]
    BY <1>6, <2>1 DEF NextCollector, Remembered, Present, TypeOK
  <2>4. QED
    BY <1>6, <2>1, <2>2, <2>3 DEF NextCollector, Showing, Shows, Present, TypeOK
<1>7. CASE HandleCollectorError
  <2>1. Collector \in Names
    BY <1>7, CollectorIsNamed DEF HandleCollectorError, Present, TypeOK
  <2>2. \A p \in latest[Collector] : p \in Paths /\ shown'[p] = "unavailable"
    BY <1>7, <2>1 DEF HandleCollectorError, Present, TypeOK
  <2>3. \A c \in Names \ {Collector} : \A p \in latest[c] : shown'[p] = shown[p]
    BY <1>7, <2>1 DEF HandleCollectorError, Showing, Present, TypeOK
  <2>4. QED
    BY <1>7, <2>1, <2>2, <2>3 DEF HandleCollectorError, Showing, Shows, Present, TypeOK
<1>8. CASE PublishRaises \/ Close
  BY <1>8 DEF PublishRaises, Close
<1>9. CASE Stop \/ Ended \/ Tick \/ UNCHANGED vars
  BY <1>9 DEF Stop, Ended, Tick, vars, Showing, Shows, Present
<1>10. QED
  BY <1>2, <1>3, <1>4, <1>5, <1>6, <1>7, <1>8, <1>9 DEF Next, Step

LEMMA Invariance == Spec => []IInv
<1>1. IInv /\ [Next]_vars => IInv'
  <2> SUFFICES ASSUME IInv, [Next]_vars PROVE IInv'
    OBVIOUS
  <2>1. TypeOK' /\ Timing'
    BY TypeStep, TimingStep DEF IInv
  <2>2. pc \in {"close", "done"} => pc' \in {"close", "done"}
    BY DEF Next, Step, Run, BeginPass, LeaveLoop, EndPass, Wake, Sample, SampleRaises, Publish,
           PublishRaises, NextCollector, HandleCollectorError, Close, Stop, Tick, Ended, vars,
           loopVars, InRun
  <2>3. pc' \notin {"close", "done"} => Showing' /\ Present'
    BY <2>2, ShowingStep DEF IInv
  <2>4. QED
    BY <2>1, <2>3 DEF IInv
<1>2. QED
  BY <1>1, InvInit, PTL DEF Spec

-----------------------------------------------------------------------------
(* Every variable of the monitor keeps to its type, and the publishers to  *)
(* the number of sockets there are.                                        *)
THEOREM TypeCorrect == Spec => []TypeOK
<1>1. IInv => TypeOK
  BY DEF IInv
<1>2. QED
  BY <1>1, Invariance, PTL

(* Between two calls, each path of a collector's last sample shows how its *)
(* last call ended.                                                        *)
THEOREM PathsAreCurrent == Spec => []ShownIsCurrent
<1>1. IInv => ShownIsCurrent
  BY DEF IInv, Showing, Shows, InCall, ShownIsCurrent, Between
<1>2. QED
  BY <1>1, Invariance, PTL

(* A pass begins an interval after the one before, up to one overshoot, or *)
(* at once when that one took longer.                                      *)
THEOREM PassesArePaced == Spec => Paced
<1>1. ASSUME IInv, BeginPass
      PROVE  Interval - MaxOvershoot <= sinceStart /\ sinceStart <= MaxGap
  BY <1>1, MaxGapBounds DEF IInv, Timing, BeginPass, TypeOK
<1>2. IInv => [BeginPass => Interval - MaxOvershoot <= sinceStart /\ sinceStart <= MaxGap]_vars
  BY <1>1
<1>3. QED
  BY <1>2, Invariance, PTL DEF Paced

-----------------------------------------------------------------------------
(* The configuration.                                                      *)

USE SettingsAssumption

(* A setting that can be read is a number, given or default.               *)
LEMMA TakenIsNumber ==
    ASSUME NEW setting \in Setting, NEW default \in Int,
           Taken(setting, default) # Unreadable, setting # NaN
    PROVE  Taken(setting, default) \in Int
  BY DEF Taken, Setting, Number

(* int() of a number is a whole number.                                    *)
LEMMA WholeIsInt == \A a \in Int : Whole(a) \in Int
  BY DEF Whole

(* A host monitor that starts has ordered thresholds, in the direction     *)
(* each quantity gets worse in, a count of samples of at least one, a      *)
(* margin that is not negative and positive times: HealthEvaluator's,      *)
(* HostMonitor's and CommandCollector's assumptions, also where the file   *)
(* gives one threshold of a pair and the default gives the other.          *)
THEOREM HostSettingsFit ==
    ASSUME NEW file \in HostFiles, HostLoads(file),
           \A d \in Durations : file.duration[d] # NaN,
           file.margin # NaN,
           \A q \in Quantities : file.warn[q] # NaN /\ file.error[q] # NaN
    PROVE  LET c == HostMerged(file) IN
           /\ \A q \in Quantities :
                /\ c.warn[q] \in Int /\ c.error[q] \in Int
                /\ IF WorseIs(q) = "high" THEN c.warn[q] < c.error[q]
                                          ELSE c.error[q] < c.warn[q]
           /\ Whole(c.consecutive) \in Nat \ {0}
           /\ c.margin \in Nat
           /\ \A d \in Durations : c.duration[d] \in Nat \ {0}
<1> DEFINE c == HostMerged(file)
<1>1. HostReadable(c) /\ HostValid(c)
  BY DEF HostLoads
<1>2. /\ \A d \in Durations : c.duration[d] = Taken(file.duration[d], DefaultDuration[d])
      /\ c.consecutive = Taken(file.consecutive, 3 * Scale)
      /\ c.margin = Taken(file.margin, 5 * Scale)
      /\ \A q \in Quantities : /\ c.warn[q] = Taken(file.warn[q], DefaultWarn[q])
                               /\ c.error[q] = Taken(file.error[q], DefaultError[q])
  BY DEF HostMerged
<1>3. /\ \A d \in Durations : file.duration[d] \in Setting
      /\ file.consecutive \in Setting /\ file.margin \in Setting
      /\ \A q \in Quantities : file.warn[q] \in Setting /\ file.error[q] \in Setting
  BY DEF HostFiles
<1>4. /\ \A d \in Durations : DefaultDuration[d] \in Int
      /\ 3 * Scale \in Int /\ 5 * Scale \in Int
      /\ \A q \in Quantities : DefaultWarn[q] \in Int /\ DefaultError[q] \in Int
  BY DEF DefaultDuration, DefaultWarn, DefaultError, InPercent, Quantities
<1> HIDE DEF c
<1>5. ASSUME NEW d \in Durations PROVE c.duration[d] \in Nat \ {0}
  <2>1. c.duration[d] # Unreadable
    BY <1>1 DEF HostReadable
  <2>2. c.duration[d] \in Int
    BY <1>2, <1>3, <1>4, <2>1, TakenIsNumber
  <2>3. ~AtMost(c.duration[d], 0)
    BY <1>1 DEF HostValid
  <2>4. QED
    BY <2>2, <2>3 DEF AtMost
<1>6. c.margin \in Nat
  <2>1. c.margin # Unreadable /\ ~Below(c.margin, 0)
    BY <1>1 DEF HostReadable, HostValid
  <2>2. c.margin \in Int
    <3>1. c.margin = Taken(file.margin, 5 * Scale) /\ file.margin \in Setting /\ 5 * Scale \in Int
      BY <1>2, <1>3, <1>4
    <3>2. QED
      BY <2>1, <3>1, TakenIsNumber
  <2>3. c.margin # NaN /\ 0 # NaN
    BY <2>2
  <2>4. ~(c.margin < 0)
    BY <2>1, <2>3 DEF Below
  <2>5. QED
    BY <2>2, <2>4
<1>7. Whole(c.consecutive) \in Nat \ {0}
  <2>1. c.consecutive \notin {Unreadable, NaN} /\ Whole(c.consecutive) > 0
    BY <1>1 DEF HostReadable, HostValid
  <2>2. c.consecutive \in Int
    BY <1>2, <1>3, <1>4, <2>1 DEF Taken, Setting, Number
  <2>3. Whole(c.consecutive) \in Int
    BY <2>2, WholeIsInt
  <2>4. QED
    BY <2>1, <2>3
<1>8. ASSUME NEW q \in Quantities
      PROVE  /\ c.warn[q] \in Int /\ c.error[q] \in Int
             /\ IF WorseIs(q) = "high" THEN c.warn[q] < c.error[q] ELSE c.error[q] < c.warn[q]
  <2>1. c.warn[q] # Unreadable /\ c.error[q] # Unreadable
    BY <1>1 DEF HostReadable
  <2>2. c.warn[q] \in Int /\ c.error[q] \in Int
    BY <1>2, <1>3, <1>4, <2>1, TakenIsNumber
  <2>3. CASE q = "battery"
    BY <1>1, <2>2, <2>3 DEF HostValid, AtMost, WorseIs
  <2>4. CASE q # "battery"
    <3>1. ~AtMost(c.error[q], c.warn[q])
      BY <1>1, <2>4 DEF HostValid
    <3>2. QED
      BY <2>2, <2>4, <3>1 DEF AtMost, WorseIs
  <2>5. QED
    BY <2>2, <2>3, <2>4
<1>9. QED
  BY <1>5, <1>6, <1>7, <1>8 DEF c
=============================================================================
