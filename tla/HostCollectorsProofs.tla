------------------------ MODULE HostCollectorsProofs ------------------------
(***************************************************************************)
(* Proofs about HostCollectors, for any timeouts, grace, delay and         *)
(* interfaces: where sample() stands, what its child is, and the time a    *)
(* pass has taken so far.                                                  *)
(***************************************************************************)
EXTENDS HostCollectors, TLAPS

USE PatienceAssumption, RatesAssumption, PeriodAssumption, HangAssumption DEF Tools

(* Where the thread is determines whose call it is in and whether a child  *)
(* may be alive: there is none before it is started and none left when     *)
(* sample() is left.  Only tegrastats is read and terminated.              *)
Position ==
    /\ called # "none" => turn = called
    /\ called = "none" => at = "start"
    /\ at \in {"start", "leave"} => ~child.alive
    /\ at \in {"read", "finally", "terminated"} => called = "tegrastats"
    /\ at = "select" => waited <= Patience[called]
    /\ at = "terminated" => waited <= Grace

(* The time a pass has had before the call it is in, and before the wait.  *)
BeforeCall == IF turn = "tegrastats" THEN MaxDelay + Patience["gpu"] ELSE MaxDelay

(* The limits that the waits so far have used up of MaxWork.               *)
Spent ==
    CASE at = "start" -> 0
      [] at = "select" -> waited
      [] at \in {"read", "finally"} -> Patience[turn]
      [] at = "terminated" -> Patience[turn] + waited
      [] at \in {"killed", "leave"} -> Patience[turn] + (IF turn = "gpu" THEN 0 ELSE Grace)

Budget ==
    /\ turn = "network" => sincePass <= MaxDelay
    /\ turn \in Tools /\ ~hung => sincePass <= BeforeCall + Spent

(* A collector has succeeded when it has reported.                         *)
Latched == reported = hasSucceeded

(* A collector that was given up is not called.                            *)
Calling == called # "none" => ~unsupported[called]

(* A reading was taken during the pass its instant is the start of.        *)
Dated ==
    \A i \in Interfaces : previous[i] # Absent =>
        sincePrevious # Absent /\ sincePrevious - previous[i] \in 0..MaxDelay

IInv == TypeOK /\ Position /\ Budget /\ Latched /\ Calling /\ Dated

-----------------------------------------------------------------------------
(* The steps of a call and of the rest of a pass, one by one.              *)
LEMMA StepCases ==
    ASSUME [Next]_vars
    PROVE  \/ BeginPass \/ NetworkUnread
           \/ \E present \in SUBSET Interfaces : SampleNetwork(present)
           \/ BeginCall \/ Skip \/ EndCall
           \/ Start /\ UNCHANGED <<turn, sincePass, rateVars>>
           \/ (GpuEnds \/ GpuIsLate) /\ UNCHANGED <<turn, sincePass, rateVars>>
           \/ (TegrastatsSelect \/ TegrastatsReadline) /\ UNCHANGED <<turn, sincePass, rateVars>>
           \/ (TegrastatsPoll \/ TegrastatsWait \/ Reap) /\ UNCHANGED <<turn, sincePass, rateVars>>
           \/ Child \/ Tick \/ UNCHANGED vars
  BY Zenon DEF Next, InCall, CommandStep

(* Types, position and time spent, before the first pass.                  *)
LEMMA InvInit == Init => IInv
<1> SUFFICES ASSUME Init PROVE IInv
  OBVIOUS
<1> USE DEF Init, CommandInit, RatesInit
<1>1. TypeOK
  BY DEF TypeOK, CommandTypeOK, RatesTypeOK, Gone
<1>2. Position
  BY DEF Position, Gone
<1>3. Budget
  BY DEF Budget
<1>4. Latched /\ Calling /\ Dated
  BY DEF Latched, Calling, Dated
<1>5. QED
  BY <1>1, <1>2, <1>3, <1>4 DEF IInv

(* Every step keeps the types and the position.                            *)
LEMMA PositionStep == TypeOK /\ Position /\ [Next]_vars => TypeOK' /\ Position'
<1> SUFFICES ASSUME TypeOK, Position, [Next]_vars PROVE TypeOK' /\ Position'
  OBVIOUS
<1> USE DEF TypeOK, CommandTypeOK, RatesTypeOK, Position,
            callVars, latchVars, historyVars, commandVars, rateVars
<1>1. CASE BeginPass
  BY <1>1 DEF BeginPass
<1>2. CASE NetworkUnread
  BY <1>2 DEF NetworkUnread, CountersUnread, After
<1>3. ASSUME NEW present \in SUBSET Interfaces, SampleNetwork(present)
      PROVE  TypeOK' /\ Position'
  BY <1>3 DEF SampleNetwork, SampleCounters, Kept, After
<1>4. CASE BeginCall
  BY <1>4 DEF BeginCall, Call
<1>5. CASE Skip
  BY <1>5 DEF Skip, SkipCall, Ends, After
<1>6. CASE EndCall
  <2>1. /\ called \in Tools /\ called' = "none" /\ at' = "start" /\ turn' \in {"tegrastats", "asleep"}
        /\ UNCHANGED <<waited, child, failure, values, hung, sincePass, rateVars>>
    BY <1>6 DEF EndCall, Leave, Ends, After
  <2>2. /\ outcome' \in {"none", "empty", "samples", "raised"}
        /\ reported' \in [Tools -> BOOLEAN]
    BY <1>6 DEF EndCall, Leave, Ends
  <2>3. unsupported' \in [Tools -> BOOLEAN]
    BY <1>6 DEF EndCall, Leave
  <2>4. hasSucceeded' \in [Tools -> BOOLEAN]
    BY <1>6 DEF EndCall, Leave, Succeeded
  <2>5. QED
    BY <1>6, <2>1, <2>2, <2>3, <2>4 DEF EndCall, Leave
<1>7. CASE Start /\ UNCHANGED <<turn, sincePass, rateVars>>
  <2>1. called \in Tools /\ waited' = 0 /\ at' \in {"select", "leave"}
    BY <1>7 DEF Start, GoTo
  <2>2. child' \in [alive : BOOLEAN, out : {"nothing", "part", "line"}]
    <3>1. Gone \in [alive : BOOLEAN, out : {"nothing", "part", "line"}]
      BY DEF Gone
    <3>2. child' = Gone \/ child' = [Gone EXCEPT !.alive = TRUE]
      BY <1>7 DEF Start
    <3>3. QED
      BY <3>1, <3>2
  <2>3. at' = "leave" => ~child'.alive
    BY <1>7 DEF Start, GoTo, Gone
  <2>4. failure' \in Failures \union {"none"}
    BY <1>7 DEF Start, FailsWith, Failures
  <2>5. QED
    BY <1>7, <2>1, <2>2, <2>3, <2>4 DEF Start
<1>8. CASE (GpuEnds \/ GpuIsLate) /\ UNCHANGED <<turn, sincePass, rateVars>>
  BY <1>8 DEF GpuEnds, GpuIsLate, GoTo, FailsWith, Failures
<1>9. CASE (TegrastatsSelect \/ TegrastatsReadline) /\ UNCHANGED <<turn, sincePass, rateVars>>
  <2>1. /\ called = "tegrastats" /\ waited' = 0 /\ at' \in {"read", "finally"}
        /\ UNCHANGED <<called, child, latchVars, historyVars>>
    BY <1>9 DEF TegrastatsSelect, TegrastatsReadline, GoTo
  <2>2. failure' \in Failures \union {"none"} /\ values' \in BOOLEAN
    BY <1>9 DEF TegrastatsSelect, TegrastatsReadline, FailsWith, Failures
  <2>3. QED
    BY <1>9, <2>1, <2>2
<1>10. CASE (TegrastatsPoll \/ TegrastatsWait \/ Reap) /\ UNCHANGED <<turn, sincePass, rateVars>>
  BY <1>10 DEF TegrastatsPoll, TegrastatsWait, Reap, GoTo, AfterPoll, AfterGrace
<1>11. CASE Child
  <2>1. /\ child.alive /\ UNCHANGED <<called, at, waited, failure, values, latchVars, historyVars>>
        /\ UNCHANGED <<turn, sincePass, rateVars>>
    BY <1>11, Zenon DEF Child, ChildWrites, ChildExits
  <2>2. child' \in [alive : BOOLEAN, out : {"nothing", "part", "line"}]
    BY <1>11 DEF Child, ChildWrites, ChildExits
  <2>3. at \notin {"start", "leave"}
    BY <2>1
  <2>4. QED
    BY <2>1, <2>2, <2>3
<1>12. CASE Tick
  BY <1>12 DEF Tick, CommandTick, Limited, Unlimited, Waiting, RatesTick, AgedReading
<1>13. CASE UNCHANGED vars
  BY <1>13 DEF vars
<1>14. QED
  BY <1>1, <1>2, <1>3, <1>4, <1>5, <1>6, <1>7, <1>8, <1>9, <1>10, <1>11, <1>12, <1>13,
     StepCases, Zenon

(* Every wait is within its limit, so a pass has spent no more than the    *)
(* limits of the waits behind it, unless it has waited without one.        *)
LEMMA BudgetStep == TypeOK /\ Position /\ Budget /\ [Next]_vars => Budget'
<1> SUFFICES ASSUME TypeOK, Position, Budget, [Next]_vars PROVE Budget'
  OBVIOUS
<1> USE DEF TypeOK, CommandTypeOK, RatesTypeOK, Position, Budget, BeforeCall, Spent,
            callVars, latchVars, historyVars, commandVars, rateVars
<1>1. CASE BeginPass
  BY <1>1 DEF BeginPass
<1>2. CASE NetworkUnread
  BY <1>2 DEF NetworkUnread, CountersUnread, After
<1>3. ASSUME NEW present \in SUBSET Interfaces, SampleNetwork(present)
      PROVE  Budget'
  BY <1>3 DEF SampleNetwork, SampleCounters, After
<1>4. CASE BeginCall
  BY <1>4 DEF BeginCall, Call
<1>5. CASE Skip
  BY <1>5 DEF Skip, SkipCall, Ends, After
<1>6. CASE EndCall
  BY <1>6 DEF EndCall, Leave, Ends, After
<1>7. CASE Start /\ UNCHANGED <<turn, sincePass, rateVars>>
  BY <1>7 DEF Start, GoTo
<1>8. CASE (GpuEnds \/ GpuIsLate) /\ UNCHANGED <<turn, sincePass, rateVars>>
  BY <1>8 DEF GpuEnds, GpuIsLate, GoTo
<1>9. CASE (TegrastatsSelect \/ TegrastatsReadline) /\ UNCHANGED <<turn, sincePass, rateVars>>
  <2>1. CASE TegrastatsSelect
    BY <1>9, <2>1 DEF TegrastatsSelect, GoTo
  <2>2. CASE TegrastatsReadline
    BY <1>9, <2>2 DEF TegrastatsReadline, GoTo
  <2>3. QED
    BY <1>9, <2>1, <2>2
<1>10. CASE (TegrastatsPoll \/ TegrastatsWait \/ Reap) /\ UNCHANGED <<turn, sincePass, rateVars>>
  BY <1>10 DEF TegrastatsPoll, TegrastatsWait, Reap, GoTo, AfterPoll, AfterGrace
<1>11. CASE Child
  BY <1>11 DEF Child, ChildWrites, ChildExits
<1>12. CASE Tick
  BY <1>12 DEF Tick, CommandTick, Limited, Unlimited, Waiting, RatesTick
<1>13. CASE UNCHANGED vars
  BY <1>13 DEF vars
<1>14. QED
  BY <1>1, <1>2, <1>3, <1>4, <1>5, <1>6, <1>7, <1>8, <1>9, <1>10, <1>11, <1>12, <1>13,
     StepCases, Zenon

(* The latch of a collector follows what it has reported.                  *)
LEMMA LatchedStep == TypeOK /\ Latched /\ [Next]_vars => Latched'
<1> SUFFICES ASSUME TypeOK, Latched, [Next]_vars, ~UNCHANGED <<reported, hasSucceeded>>
             PROVE  Latched'
  BY DEF Latched
<1>1. Skip \/ EndCall
  BY StepCases
     DEF BeginPass, NetworkUnread, SampleNetwork, BeginCall, Call, Start, GpuEnds, GpuIsLate,
         TegrastatsSelect, TegrastatsReadline, TegrastatsPoll, TegrastatsWait, Reap,
         Child, ChildWrites, ChildExits, Tick, CommandTick, vars, commandVars, latchVars, historyVars
<1>2. CASE Skip
  BY <1>2 DEF Skip, SkipCall, Ends, Latched, latchVars, TypeOK, CommandTypeOK
<1>3. CASE EndCall
  BY <1>3 DEF EndCall, Leave, Ends, Succeeded, Latched, latchVars, TypeOK, CommandTypeOK
<1>4. QED
  BY <1>1, <1>2, <1>3

(* It is not given up before it is left, and called only if it is not.     *)
LEMMA CallingStep == Calling /\ [Next]_vars => Calling'
<1> SUFFICES ASSUME Calling, [Next]_vars, ~UNCHANGED <<called, unsupported>>
             PROVE  Calling'
  BY DEF Calling
<1>1. BeginCall \/ Skip \/ EndCall
  BY StepCases
     DEF BeginPass, NetworkUnread, SampleNetwork, Start, GpuEnds, GpuIsLate,
         TegrastatsSelect, TegrastatsReadline, TegrastatsPoll, TegrastatsWait, Reap,
         Child, ChildWrites, ChildExits, Tick, CommandTick, vars, commandVars, callVars, latchVars
<1>2. CASE BeginCall
  BY <1>2 DEF BeginCall, Call, Calling, latchVars
<1>3. CASE Skip \/ EndCall
  BY <1>3 DEF Skip, SkipCall, EndCall, Leave, Ends, Calling
<1>4. QED
  BY <1>1, <1>2, <1>3

(* Time makes the readings and their instant older alike.                  *)
LEMMA DatedStep == TypeOK /\ Budget /\ Dated /\ [Next]_vars => Dated'
<1> SUFFICES ASSUME TypeOK, Budget, Dated, [Next]_vars, ~UNCHANGED rateVars
             PROVE  Dated'
  BY DEF Dated, rateVars
<1> USE DEF TypeOK, RatesTypeOK, Dated
<1>1. Tick \/ \E present \in SUBSET Interfaces : SampleNetwork(present)
  BY StepCases
     DEF BeginPass, NetworkUnread, CountersUnread, BeginCall, Skip, EndCall, Child, vars
<1>2. CASE Tick
  BY <1>2 DEF Tick, RatesTick, AgedReading
<1>3. ASSUME NEW present \in SUBSET Interfaces, SampleNetwork(present)
      PROVE  Dated'
  BY <1>3 DEF SampleNetwork, SampleCounters, Kept, Budget
<1>4. QED
  BY <1>1, <1>2, <1>3

LEMMA Invariance == Spec => []IInv
<1>1. IInv /\ [Next]_vars => IInv'
  BY PositionStep, BudgetStep, LatchedStep, CallingStep, DatedStep DEF IInv
<1>2. QED
  BY <1>1, InvInit, PTL DEF Spec

-----------------------------------------------------------------------------
(* Every variable of the collectors keeps to its type.                     *)
THEOREM TypeCorrect == Spec => []TypeOK
<1>1. IInv => TypeOK
  BY DEF IInv
<1>2. QED
  BY <1>1, Invariance, PTL

(* However a call of a command collector ends, its command has ended.      *)
THEOREM ChildrenEndWithTheirCall == Spec => []NoChildSurvives
<1>1. IInv => NoChildSurvives
  BY DEF IInv, Position, NoChildSurvives
<1>2. QED
  BY <1>1, Invariance, PTL

(* The delay before the counters are read, the two timeouts and one grace  *)
(* bound a pass that has not waited without a limit.                       *)
THEOREM PassesAreBounded == Spec => []PassIsBounded
<1>1. ASSUME IInv, turn # "asleep", ~hung
      PROVE  sincePass <= MaxWork
  <2> USE <1>1 DEF IInv, TypeOK, CommandTypeOK, RatesTypeOK, Budget, MaxWork
  <2>1. CASE turn = "network"
    BY <2>1
  <2>2. CASE turn = "gpu"
    <3>1. Spent \in Nat /\ Spent <= Patience["gpu"]
      BY <2>2 DEF Spent, Position
    <3>2. QED
      BY <2>2, <3>1 DEF BeforeCall
  <2>3. CASE turn = "tegrastats"
    <3>1. Spent \in Nat /\ Spent <= Patience["tegrastats"] + Grace
      BY <2>3 DEF Spent, Position
    <3>2. QED
      BY <2>3, <3>1 DEF BeforeCall
  <2>4. QED
    BY <2>1, <2>2, <2>3
<1>2. IInv => PassIsBounded
  BY <1>1 DEF PassIsBounded
<1>3. QED
  BY <1>2, Invariance, PTL

(* An exception is raised, unless it says that the command never was       *)
(* there; then, and only then, the collector is given up.                  *)
THEOREM FailuresAreRaisedOrGivenUp == Spec => RaisedOrGivenUp
<1>1. ASSUME IInv, Leave
      PROVE  /\ unsupported'[called] <=> NeverThere
             /\ failure # "none" => outcome' = IF NeverThere THEN "empty" ELSE "raised"
  <2>1. GivesUp(called) <=> NeverThere
    BY <1>1 DEF IInv, Latched, GivesUp, NeverThere
  <2>2. called \in Tools /\ unsupported \in [Tools -> BOOLEAN] /\ ~unsupported[called]
    <3>1. called # "none"
      BY <1>1 DEF Leave, IInv, Position
    <3>2. QED
      BY <1>1, <3>1 DEF IInv, TypeOK, CommandTypeOK, Calling
  <2>3. CASE GivesUp(called)
    <3>1. failure # "none" /\ unsupported' = [unsupported EXCEPT ![called] = TRUE] /\ outcome' = "empty"
      BY <1>1, <2>3 DEF Leave, Ends, GivesUp, Absences
    <3>2. QED
      BY <2>1, <2>2, <2>3, <3>1
  <2>4. CASE ~GivesUp(called)
    <3>1. unsupported' = unsupported /\ (failure # "none" => outcome' = "raised")
      BY <1>1, <2>4 DEF Leave, Ends, latchVars
    <3>2. QED
      BY <2>1, <2>2, <2>4, <3>1
  <2>5. QED
    BY <2>3, <2>4
<1>2. IInv => [Leave =>
                  /\ unsupported'[called] <=> NeverThere
                  /\ failure # "none" => outcome' = IF NeverThere THEN "empty" ELSE "raised"]_commandVars
  BY <1>1
<1>3. QED
  BY <1>2, Invariance, PTL DEF RaisedOrGivenUp

(* What a rate divides by differs from what its counters span by no more   *)
(* than the delay of a pass.                                               *)
THEOREM RatesAreTimed == Spec => RatesSpanTheirTime
<1>1. ASSUME IInv, NEW present \in SUBSET Interfaces, SampleNetwork(present),
             NEW i \in Rated(present)
      PROVE  previous[i] - Elapsed \in (-MaxDelay)..MaxDelay
  BY <1>1 DEF IInv, TypeOK, RatesTypeOK, Budget, Dated, SampleNetwork, Rated, Elapsed
<1>2. IInv => [\A present \in SUBSET Interfaces : SampleNetwork(present) =>
                  \A i \in Rated(present) : previous[i] - Elapsed \in (-MaxDelay)..MaxDelay]_vars
  BY <1>1
<1>3. QED
  BY <1>2, Invariance, PTL DEF RatesSpanTheirTime
=============================================================================
