------------------------- MODULE SampleAlertsProofs -------------------------
(***************************************************************************)
(* Proofs about HealthEvaluator, for any keys, thresholds and margins and  *)
(* any number of consecutive samples, and on top of them about             *)
(* SampleAlerts, for any samples, alerts and shared keys.                  *)
(***************************************************************************)
EXTENDS SampleAlerts, TLAPS

USE ValuesAssumption, ThresholdAssumption, DebounceAssumption

(* _target returns a level.                                                *)
LEMMA TargetType ==
    ASSUME NEW k \in Keys, NEW value \in Values, NEW current \in 0..2
    PROVE  Target(k, value, current) \in 0..2
  BY DEF Target

(* A value that calls for a level keeps calling for it once the level is   *)
(* reached: the margin widens a zone and never moves its far edge.         *)
LEMMA TargetIsStable ==
    ASSUME NEW k \in Keys, NEW value \in Values, NEW current \in 0..2
    PROVE  Target(k, value, Target(k, value, current)) = Target(k, value, current)
  BY DEF Target, Reaches

(* A value that calls for more than the current level is past the          *)
(* threshold of what it calls for.                                         *)
LEMMA TargetRises ==
    ASSUME NEW k \in Keys, NEW value \in Values, NEW current \in 0..2,
           Target(k, value, current) > current
    PROVE  Past(k, value, Target(k, value, current))
  BY DEF Target, Reaches, Past, Limit

(* A value that calls for less than the current level is clear of every    *)
(* threshold in between.                                                   *)
LEMMA TargetFalls ==
    ASSUME NEW k \in Keys, NEW value \in Values, NEW current \in 0..2,
           NEW l \in 1..2, Target(k, value, current) < l, l <= current
    PROVE  Clear(k, value, l)
  BY DEF Target, Reaches, Clear, Limit

-----------------------------------------------------------------------------
(***************************************************************************)
(* The count of a key is the length of the longest run of its newest       *)
(* observations that call for the candidate: no shorter (Counted) and no   *)
(* longer (Maximal).                                                       *)
(***************************************************************************)
Calls(k, i) == Target(k, recent[k][i], state[k].level)

Counted(k) ==
    \A i \in Window : i <= state[k].count =>
        recent[k][i] # None /\ Calls(k, i) = state[k].candidate

Maximal(k) ==
    \A i \in Window : i = state[k].count + 1 =>
        recent[k][i] = None \/ Calls(k, i) # state[k].candidate \/ state[k].count = 0

Settled(k) ==
    IF state[k].count = 0
    THEN /\ state[k].candidate = state[k].level
         /\ recent[k][1] = None \/ Calls(k, 1) = state[k].level
    ELSE state[k].candidate # state[k].level

IInv == TypeOK /\ \A k \in Keys : Counted(k) /\ Maximal(k) /\ Settled(k)

(* With no observation made there is no run to account for.                *)
LEMMA InvInit == Init => IInv
<1> SUFFICES ASSUME Init PROVE IInv
  OBVIOUS
<1>1. TypeOK
  BY DEF Init, TypeOK, Window
<1>2. ASSUME NEW k \in Keys PROVE Counted(k) /\ Maximal(k) /\ Settled(k)
  BY DEF Init, Counted, Maximal, Settled, Window
<1>3. QED
  BY <1>1, <1>2 DEF IInv

(* What one observation does to the observed key, in terms of its parts.   *)
LEMMA ObserveFacts ==
    ASSUME TypeOK, NEW k \in Keys, NEW value \in Values, Observe(k, value)
    PROVE  LET t == Target(k, value, state[k].level)
               s == state[k]
           IN  /\ t \in 0..2
               /\ state'[k] = Debounced(s, t)
               /\ state'[k] \in [level : 0..2, candidate : 0..2, count : 0..(Consecutive - 1)]
               /\ recent'[k] \in [Window -> Values \union {None}]
               /\ recent'[k][1] = value
               /\ \A i \in Window : i # 1 => recent'[k][i] = recent[k][i - 1]
               /\ \A o \in Keys : o # k => state'[o] = state[o] /\ recent'[o] = recent[o]
<1> DEFINE s == state[k]
           t == Target(k, value, s.level)
<1>1. s \in [level : 0..2, candidate : 0..2, count : 0..(Consecutive - 1)]
  BY DEF TypeOK
<1>2. t \in 0..2
  BY <1>1, TargetType
<1>3. state'[k] = Debounced(s, t)
  BY DEF Observe, TypeOK
<1>4. recent'[k] = [i \in Window |-> IF i = 1 THEN value ELSE recent[k][i - 1]]
  BY DEF Observe, TypeOK
<1>5. \A i \in Window : i # 1 => i - 1 \in Window
  BY DEF Window
<1>6. recent'[k] \in [Window -> Values \union {None}]
  BY <1>4, <1>5 DEF TypeOK
<1>7. recent'[k][1] = value /\ \A i \in Window : i # 1 => recent'[k][i] = recent[k][i - 1]
  BY <1>4 DEF Window
<1>8. \A o \in Keys : o # k => state'[o] = state[o] /\ recent'[o] = recent[o]
  BY DEF Observe, TypeOK
<1> HIDE DEF t, s
<1>9. Debounced(s, t) \in [level : 0..2, candidate : 0..2, count : 0..(Consecutive - 1)]
  <2>1. Count(s, t) \in Nat \ {0}
    <3>1. s.count \in Nat
      BY <1>1
    <3>2. QED
      BY <3>1 DEF Count
  <2>2. CASE t = s.level
    <3>1. Debounced(s, t) = [s EXCEPT !.candidate = t, !.count = 0]
      BY <2>2 DEF Debounced
    <3>2. 0 \in 0..(Consecutive - 1)
      OBVIOUS
    <3>3. QED
      BY <1>1, <1>2, <3>1, <3>2
  <2>3. CASE t # s.level /\ Count(s, t) >= Consecutive
    BY <1>1, <1>2, <2>3 DEF Debounced
  <2>4. CASE t # s.level /\ ~(Count(s, t) >= Consecutive)
    <3>1. Count(s, t) \in 0..(Consecutive - 1)
      BY <2>1, <2>4
    <3>2. Debounced(s, t) = [s EXCEPT !.candidate = t, !.count = Count(s, t)]
      BY <2>4 DEF Debounced
    <3>3. QED
      BY <1>1, <1>2, <3>1, <3>2
  <2>5. QED
    BY <2>2, <2>3, <2>4
<1>10. QED
  BY <1>2, <1>3, <1>6, <1>7, <1>8, <1>9 DEF s, t

(* An observation leaves the other keys as they are.                       *)
LEMMA OtherKeys ==
    ASSUME IInv, NEW k \in Keys, NEW value \in Values, Observe(k, value),
           NEW o \in Keys, o # k
    PROVE  Counted(o)' /\ Maximal(o)' /\ Settled(o)'
<1>1. state'[o] = state[o] /\ recent'[o] = recent[o]
  BY DEF IInv, TypeOK, Observe
<1>2. Counted(o) /\ Maximal(o) /\ Settled(o)
  BY DEF IInv
<1>3. QED
  BY <1>1, <1>2 DEF Counted, Maximal, Settled, Calls

(* The observed key: the level is confirmed, it changes, the run grows or  *)
(* a new run starts.                                                       *)
LEMMA ObservedKey ==
    ASSUME IInv, NEW k \in Keys, NEW value \in Values, Observe(k, value)
    PROVE  Counted(k)' /\ Maximal(k)' /\ Settled(k)'
<1> DEFINE s == state[k]
           t == Target(k, value, s.level)
           n == state'[k]
<1>1. /\ t \in 0..2
      /\ n = Debounced(s, t)
      /\ n \in [level : 0..2, candidate : 0..2, count : 0..(Consecutive - 1)]
      /\ recent'[k] \in [Window -> Values \union {None}]
      /\ recent'[k][1] = value
      /\ \A i \in Window : i # 1 => recent'[k][i] = recent[k][i - 1]
  BY ObserveFacts DEF IInv
<1>2. s \in [level : 0..2, candidate : 0..2, count : 0..(Consecutive - 1)]
  BY DEF IInv, TypeOK
<1>3. Counted(k) /\ Maximal(k) /\ Settled(k)
  BY DEF IInv
<1>4. 1 \in Window /\ value # None
  BY DEF Window
<1>5. CASE t = s.level
  <2>1. n.level = s.level /\ n.candidate = s.level /\ n.count = 0
    BY <1>1, <1>2, <1>5 DEF Debounced
  <2>2. Target(k, recent'[k][1], n.level) = n.level
    BY <1>1, <1>5, <2>1
  <2>3. QED
    BY <1>4, <2>1, <2>2 DEF Counted, Maximal, Settled, Calls, Window
<1>6. CASE t # s.level /\ Count(s, t) >= Consecutive
  <2>1. n.level = t /\ n.candidate = t /\ n.count = 0
    BY <1>1, <1>2, <1>6 DEF Debounced
  <2>2. Target(k, value, t) = t
    BY <1>2, TargetIsStable
  <2>3. Target(k, recent'[k][1], n.level) = n.level
    BY <1>1, <2>1, <2>2
  <2>4. QED
    BY <1>4, <2>1, <2>3 DEF Counted, Maximal, Settled, Calls, Window
<1>7. CASE t # s.level /\ ~(Count(s, t) >= Consecutive)
  <2>1. n.level = s.level /\ n.candidate = t /\ n.count = Count(s, t)
    BY <1>1, <1>2, <1>7 DEF Debounced
  <2>2. Settled(k)'
    BY <1>2, <1>7, <2>1 DEF Settled, Count
  <2>3. Target(k, recent'[k][1], n.level) = t
    BY <1>1, <2>1
  <2>4. \A i \in Window : i # 1 =>
          /\ i - 1 \in Window
          /\ Target(k, recent'[k][i], n.level) = Calls(k, i - 1)
          /\ recent'[k][i] = recent[k][i - 1]
    BY <1>1, <2>1 DEF Calls, Window
  <2>5. CASE s.candidate = t
    <3>1. n.count = s.count + 1
      BY <2>1, <2>5 DEF Count
    <3>2. s.count # 0
      BY <1>3, <1>7, <2>5 DEF Settled
    <3>3. Counted(k)'
      <4>1. SUFFICES ASSUME NEW i \in Window, i <= s.count + 1
                     PROVE  recent'[k][i] # None /\ Target(k, recent'[k][i], n.level) = t
        BY <2>1, <3>1 DEF Counted, Calls
      <4>2. CASE i = 1
        BY <1>1, <1>4, <2>3, <4>2
      <4>3. CASE i # 1
        <5>1. i - 1 \in Window /\ i - 1 <= s.count
          BY <1>2, <4>1, <4>3 DEF Window
        <5>2. recent[k][i - 1] # None /\ Calls(k, i - 1) = s.candidate
          BY <1>3, <5>1 DEF Counted
        <5>3. QED
          BY <2>4, <2>5, <4>3, <5>2
      <4>4. QED
        BY <4>2, <4>3
    <3>4. Maximal(k)'
      <4>1. SUFFICES ASSUME NEW i \in Window, i = s.count + 2
                     PROVE  recent'[k][i] = None \/ Target(k, recent'[k][i], n.level) # t
        BY <1>2, <2>1, <3>1 DEF Maximal, Calls
      <4>2. i # 1 /\ i - 1 = s.count + 1
        BY <1>2, <4>1
      <4>3. recent[k][i - 1] = None \/ Calls(k, i - 1) # s.candidate
        BY <1>3, <2>4, <3>2, <4>2 DEF Maximal
      <4>4. QED
        BY <2>4, <2>5, <4>2, <4>3
    <3>5. QED
      BY <2>2, <3>3, <3>4
  <2>6. CASE s.candidate # t
    <3>1. n.count = 1
      BY <2>1, <2>6 DEF Count
    <3>2. Counted(k)'
      BY <1>1, <1>4, <2>1, <2>3, <3>1 DEF Counted, Calls, Window
    <3>3. Maximal(k)'
      <4>1. SUFFICES ASSUME NEW i \in Window, i = 2
                     PROVE  recent'[k][i] = None \/ Target(k, recent'[k][i], n.level) # t
        BY <2>1, <3>1 DEF Maximal, Calls
      <4>2. recent[k][1] = None \/ Calls(k, 1) # t
        <5>1. CASE s.count = 0
          BY <1>3, <1>7, <5>1 DEF Settled
        <5>2. CASE s.count # 0
          BY <1>2, <1>3, <1>4, <2>6, <5>2 DEF Counted
        <5>3. QED
          BY <5>1, <5>2
      <4>3. QED
        BY <2>4, <4>1, <4>2
    <3>4. QED
      BY <2>2, <3>2, <3>3
  <2>7. QED
    BY <2>5, <2>6
<1>8. QED
  BY <1>5, <1>6, <1>7

(* An observation keeps the invariant for its key and for all others.      *)
LEMMA InvStep == IInv /\ [Next]_vars => IInv'
<1> SUFFICES ASSUME IInv, [Next]_vars
             PROVE  IInv'
  OBVIOUS
<1>1. ASSUME NEW k \in Keys, NEW value \in Values, Observe(k, value)
      PROVE  IInv'
  <2>1. TypeOK'
    <3>1. \A o \in Keys : /\ state'[o] \in [level : 0..2, candidate : 0..2, count : 0..(Consecutive - 1)]
                          /\ recent'[o] \in [Window -> Values \union {None}]
      BY <1>1, ObserveFacts DEF IInv, TypeOK
    <3>2. state' = [o \in Keys |-> state'[o]] /\ recent' = [o \in Keys |-> recent'[o]]
      BY <1>1 DEF Observe, IInv, TypeOK
    <3>3. QED
      BY <3>1, <3>2 DEF TypeOK
  <2>2. \A o \in Keys : Counted(o)' /\ Maximal(o)' /\ Settled(o)'
    BY <1>1, OtherKeys, ObservedKey
  <2>3. QED
    BY <2>1, <2>2 DEF IInv
<1>2. CASE UNCHANGED vars
  BY <1>2 DEF vars, IInv, TypeOK, Counted, Maximal, Settled, Calls
<1>3. QED
  BY <1>1, <1>2 DEF Next

(* The evaluator's records keep to their type; in particular the count     *)
(* never reaches the number of samples that makes it a change of level.    *)
THEOREM TypeCorrect == Spec => []TypeOK
<1>1. IInv => TypeOK
  BY DEF IInv
<1>2. QED
  BY <1>1, InvInit, InvStep, PTL DEF Spec

-----------------------------------------------------------------------------
(* When the level changes, the whole window called for the new level.      *)
LEMMA ChangeFacts ==
    ASSUME IInv, NEW k \in Keys, NEW value \in Values, Observe(k, value),
           state'[k].level # state[k].level
    PROVE  /\ state'[k].level \in 0..2
           /\ \A i \in Window :
                 /\ recent'[k][i] \in Values
                 /\ Target(k, recent'[k][i], state[k].level) = state'[k].level
<1> DEFINE s == state[k]
           t == Target(k, value, s.level)
<1>1. /\ t \in 0..2
      /\ state'[k] = Debounced(s, t)
      /\ recent'[k] \in [Window -> Values \union {None}]
      /\ recent'[k][1] = value
      /\ \A i \in Window : i # 1 => recent'[k][i] = recent[k][i - 1]
  BY ObserveFacts DEF IInv
<1>2. s \in [level : 0..2, candidate : 0..2, count : 0..(Consecutive - 1)]
  BY DEF IInv, TypeOK
<1>3. t # s.level /\ Count(s, t) >= Consecutive /\ state'[k].level = t
  BY <1>1, <1>2 DEF Debounced
<1>4. Counted(k)
  BY DEF IInv
<1>5. ASSUME NEW i \in Window, i # 1
      PROVE  recent'[k][i] # None /\ Target(k, recent'[k][i], s.level) = t
  <2>1. Consecutive # 1 /\ i - 1 \in Window /\ i - 1 <= Consecutive - 1
    BY <1>5 DEF Window
  <2>2. s.candidate = t /\ s.count = Consecutive - 1
    BY <1>2, <1>3, <2>1 DEF Count
  <2>3. recent[k][i - 1] # None /\ Calls(k, i - 1) = t
    BY <1>4, <2>1, <2>2 DEF Counted
  <2>4. QED
    BY <1>1, <1>5, <2>3 DEF Calls
<1>6. QED
  BY <1>1, <1>3, <1>5

(* A level changes only for Consecutive observations in a row on the far   *)
(* side of the threshold, margin included: debounce and hysteresis of      *)
(* evaluate, whatever the thresholds.                                      *)
THEOREM OnlyJustifiedChanges == Spec => ChangesAreJustified
<1>1. ASSUME IInv, [Next]_vars
      PROVE  [\A k \in Keys : Justified(k)]_vars
  <2>1. SUFFICES ASSUME NEW k \in Keys, NEW value \in Values, Observe(k, value), NEW o \in Keys
                 PROVE  Justified(o)
    BY <1>1 DEF Next
  <2>2. state[o].level \in 0..2
    BY <1>1 DEF IInv, TypeOK
  <2>3. CASE state'[o].level = state[o].level
    BY <2>2, <2>3 DEF Justified
  <2>4. CASE state'[o].level # state[o].level
    <3>1. o = k
      BY <1>1, <2>1, <2>4, ObserveFacts DEF IInv
    <3>2. state'[o].level \in 0..2
      BY <1>1, <2>1, <2>4, <3>1, ChangeFacts
    <3>3. \A i \in Window : /\ recent'[o][i] \in Values
                            /\ Target(o, recent'[o][i], state[o].level) = state'[o].level
      BY <1>1, <2>1, <2>4, <3>1, ChangeFacts
    <3>4. \A i \in Window : state'[o].level > state[o].level => Past(o, recent'[o][i], state'[o].level)
      <4>1. ASSUME NEW i \in Window, NEW x, x = recent'[o][i], NEW old, old = state[o].level,
                   NEW new, new = state'[o].level, new > old
            PROVE  Past(o, x, new)
        <5>1. x \in Values /\ old \in 0..2 /\ Target(o, x, old) = new
          BY <2>2, <3>3, <4>1
        <5>2. QED
          BY <5>1, <4>1, TargetRises
      <4>2. QED
        BY <4>1
    <3>5. \A i \in Window, l \in 1..2 :
            (state'[o].level < l /\ l <= state[o].level) => Clear(o, recent'[o][i], l)
      BY <2>2, <3>3, TargetFalls
    <3>6. \A i \in Window : recent'[o][i] # None
      BY <3>3
    <3>7. QED
      BY <3>4, <3>5, <3>6 DEF Justified
  <2>5. QED
    BY <2>3, <2>4
<1>2. QED
  BY <1>1, InvInit, InvStep, PTL DEF Spec, ChangesAreJustified

(* No run of Consecutive observations that all call for the same other     *)
(* level is ever left without effect.                                      *)
LEMMA NoUniformWindow ==
    ASSUME IInv, NEW k \in Keys, \A i \in Window : recent[k][i] # None,
           NEW t \in 0..2, \A i \in Window : Calls(k, i) = t
    PROVE  t = state[k].level
<1>1. Maximal(k) /\ Counted(k) /\ Settled(k)
  BY DEF IInv
<1>2. state[k].count \in 0..(Consecutive - 1)
  BY DEF IInv, TypeOK
<1>3. 1 \in Window /\ state[k].count + 1 \in Window
  BY <1>2 DEF Window
<1>4. CASE state[k].count = 0
  BY <1>1, <1>3, <1>4 DEF Settled
<1>5. CASE state[k].count # 0
  <2>1. state[k].candidate = t
    BY <1>1, <1>2, <1>3, <1>5 DEF Counted
  <2>2. Calls(k, state[k].count + 1) # state[k].candidate
    BY <1>1, <1>3, <1>5 DEF Maximal
  <2>3. QED
    BY <1>3, <2>1, <2>2
<1>6. QED
  BY <1>4, <1>5

(* No alert and no recovery is withheld: values that stay in one zone for  *)
(* Consecutive observations set the level.                                 *)
THEOREM NothingIsWithheld == Spec => []NothingWithheld
<1>1. ASSUME IInv PROVE NothingWithheld
  <2>1. SUFFICES ASSUME NEW k \in Keys, \A i \in Window : recent[k][i] # None
                 PROVE  /\ (\A i \in Window : Past(k, recent[k][i], 2)) => state[k].level = 2
                        /\ (\A i \in Window : InWarnZone(k, recent[k][i])) => state[k].level >= 1
                        /\ (\A i \in Window : Clear(k, recent[k][i], 1)) => state[k].level = 0
    BY DEF NothingWithheld
  <2>2. state[k].level \in 0..2 /\ \A i \in Window : recent[k][i] \in Values
    BY <1>1, <2>1 DEF IInv, TypeOK
  <2>3. ASSUME \A i \in Window : Past(k, recent[k][i], 2) PROVE state[k].level = 2
    <3>1. \A i \in Window : Calls(k, i) = 2
      BY <2>2, <2>3 DEF Calls, Target, Past, Limit
    <3>2. QED
      BY <1>1, <2>1, <3>1, NoUniformWindow
  <2>4. ASSUME \A i \in Window : InWarnZone(k, recent[k][i]) PROVE state[k].level >= 1
    <3>1. SUFFICES ASSUME state[k].level = 0 PROVE FALSE
      BY <2>2
    <3>2. \A i \in Window : Calls(k, i) = 1
      BY <2>2, <2>4, <3>1 DEF Calls, Target, InWarnZone, Past, Limit
    <3>3. QED
      BY <1>1, <2>1, <3>1, <3>2, NoUniformWindow
  <2>5. ASSUME \A i \in Window : Clear(k, recent[k][i], 1) PROVE state[k].level = 0
    <3>1. SUFFICES ASSUME NEW i \in Window PROVE Calls(k, i) = 0
      BY <1>1, <2>1, NoUniformWindow
    <3> DEFINE value == recent[k][i]
    <3>2. value \in Int
      BY <2>2
    <3>3. ~Reaches(k, value, Warn[k], Margin)
      BY <2>5 DEF Clear, Limit
    <3> HIDE DEF value
    <3>4. ~Reaches(k, value, Warn[k], 0)
      BY <3>2, <3>3 DEF Reaches
    <3>5. Error[k] # None => ~Reaches(k, value, Error[k], 0) /\ ~Reaches(k, value, Error[k], Margin)
      BY <3>2, <3>3 DEF Reaches
    <3>6. Target(k, value, state[k].level) = 0
      BY <3>3, <3>4, <3>5 DEF Target
    <3>7. QED
      BY <3>6 DEF Calls, value
  <2>6. QED
    BY <2>3, <2>4, <2>5
<1>2. QED
  BY <1>1, InvInit, InvStep, PTL DEF Spec

-----------------------------------------------------------------------------
(***************************************************************************)
(* The calls of a sample.                                                  *)
(***************************************************************************)

(* A sensor's own limits, or the defaults in their place, always leave the *)
(* warning threshold below the error threshold, whatever the sensor says:  *)
(* what ThresholdAssumption asks of the keys of temperature alerts.        *)
THEOREM SensorLimitsAreOrdered ==
    ASSUME NEW high \in Int \union {None}, NEW critical \in Int \union {None},
           NEW defaultWarn \in Int, NEW defaultError \in Int
    PROVE  LET warn == SensorWarn(high, critical, defaultWarn)
           IN  warn < SensorError(critical, warn, defaultError)
<1>1. SensorWarn(high, critical, defaultWarn) \in Int
  BY DEF SensorWarn, Given
<1>2. QED
  BY <1>1 DEF SensorError

-----------------------------------------------------------------------------
(***************************************************************************)
(* The invariant of a call: its position and its levels have their types   *)
(* (Placed), what was observed in it lies before the turn (Earlier),       *)
(* active bounds the levels of what was observed (Bounded) and is the      *)
(* level of one of them (Attained), the last message shows it (Told), and  *)
(* a key that is not OK has been observed Consecutive times (Full).        *)
(***************************************************************************)
Placed ==
    /\ sample \in Samples
    /\ turn \in 0..(Len(AlertsOf[sample]) + 1)
    /\ active \in 0..2
    /\ seen \subseteq Alerts
    /\ shown \in 0..2 \union {None}

Earlier ==
    turn > 0 => \A a \in seen : \E i \in DOMAIN AlertsOf[sample] :
                    i < turn /\ a = AlertsOf[sample][i]

Bounded == \A a \in seen : OwnKey(a) => state[KeyOf[a]].level <= active

Attained ==
    (\A a \in seen : OwnKey(a)) =>
        active = 0 \/ \E a \in seen : state[KeyOf[a]].level = active

Told ==
    turn = 0 /\ (seen # {} \/ sample \in Bare) =>
        shown = active \/ (shown = None /\ seen = {})

Full == \A k \in Keys : state[k].level # 0 => \A i \in Window : recent[k][i] \in Values

CallInv == IInv /\ Placed /\ Earlier /\ Bounded /\ Attained /\ Told /\ Full

(* Before the first call nothing has been observed.                        *)
LEMMA CallInvInit == CallInit => CallInv
<1> SUFFICES ASSUME CallInit PROVE CallInv
  OBVIOUS
<1>1. IInv
  BY InvInit DEF CallInit
<1>2. Placed
  <2>1. Len(AlertsOf[sample]) \in Nat
    BY AlertsAssumption DEF CallInit
  <2>2. QED
    BY <2>1 DEF CallInit, Placed
<1>3. Earlier /\ Bounded /\ Attained /\ Told
  BY DEF CallInit, Earlier, Bounded, Attained, Told
<1>4. Full
  BY DEF CallInit, Init, Full
<1>5. QED
  BY <1>1, <1>2, <1>3, <1>4 DEF CallInv

(* The observation whose turn it is belongs to the sample and has a key.   *)
LEMMA AlertFacts ==
    ASSUME Placed, InCall
    PROVE  /\ turn \in DOMAIN AlertsOf[sample]
           /\ Len(AlertsOf[sample]) \in Nat
           /\ Alert \in Alerts
           /\ KeyOf[Alert] \in Keys
<1>1. sample \in Samples /\ turn \in Int
  BY DEF Placed
<1>2. AlertsOf[sample] \in Seq(Alerts)
  BY <1>1, AlertsAssumption
<1>3. Len(AlertsOf[sample]) \in Nat /\ DOMAIN AlertsOf[sample] = 1..Len(AlertsOf[sample])
  BY <1>2
<1>4. turn \in DOMAIN AlertsOf[sample]
  BY <1>1, <1>3 DEF InCall
<1>5. Alert \in Alerts
  BY <1>2, <1>4 DEF Alert
<1>6. QED
  BY <1>3, <1>4, <1>5, AlertsAssumption

(* What one step of a call means to the evaluator: an observation or       *)
(* nothing.                                                                *)
LEMMA CallStepMaps ==
    ASSUME Placed, [CallNext]_alertVars
    PROVE  [Next]_vars
<1>1. ASSUME NEW value \in Values, EvaluateAlert(value) PROVE Next
  <2>1. KeyOf[Alert] \in Keys /\ Observe(KeyOf[Alert], value)
    BY <1>1, AlertFacts DEF EvaluateAlert
  <2>2. QED
    BY <2>1 DEF Next
<1>2. CASE BeginCall \/ Missing \/ Publish
  BY <1>2 DEF BeginCall, Missing, Publish
<1>3. CASE UNCHANGED alertVars
  BY <1>3 DEF alertVars
<1>4. QED
  BY <1>1, <1>2, <1>3 DEF CallNext

(* A step that leaves the evaluator alone keeps what is said of its keys.  *)
LEMMA EvaluatorAlone ==
    ASSUME CallInv, UNCHANGED vars
    PROVE  IInv' /\ Full'
<1>1. IInv'
  BY InvStep DEF CallInv
<1>2. Full'
  BY DEF CallInv, Full, vars
<1>3. QED
  BY <1>1, <1>2

(* An observation keeps the invariant.                                     *)
LEMMA EvaluateAlertKeeps ==
    ASSUME CallInv, NEW value \in Values, EvaluateAlert(value)
    PROVE  CallInv'
<1> DEFINE k == KeyOf[Alert]
           new == state'[k].level
<1>1. /\ InCall /\ Observe(k, value)
      /\ active' = Worse(active, new)
      /\ seen' = seen \union {Alert}
      /\ turn' = turn + 1
      /\ sample' = sample /\ shown' = shown
  BY DEF EvaluateAlert
<1>2. /\ turn \in DOMAIN AlertsOf[sample]
      /\ Len(AlertsOf[sample]) \in Nat
      /\ Alert \in Alerts /\ k \in Keys
  BY <1>1, AlertFacts DEF CallInv
<1>3. IInv'
  BY <1>1, <1>2, InvStep DEF CallInv, Next
<1>4. /\ state[k].level \in 0..2
      /\ new \in 0..2
      /\ recent'[k][1] = value
      /\ \A i \in Window : i # 1 => recent'[k][i] = recent[k][i - 1]
      /\ \A o \in Keys : o # k => state'[o] = state[o] /\ recent'[o] = recent[o]
  BY <1>1, <1>2, ObserveFacts DEF CallInv, IInv, TypeOK
<1>5. active \in 0..2 /\ active' \in 0..2 /\ active' >= active /\ active' >= new
  BY <1>1, <1>4 DEF CallInv, Placed, Worse
<1>6. Placed'
  BY <1>1, <1>2, <1>5 DEF CallInv, Placed, InCall
<1>7. Earlier'
  <2>1. turn \in Nat /\ turn > 0
    BY <1>1, <1>2 DEF InCall, CallInv, Placed
  <2>2. ASSUME NEW a \in seen' PROVE \E i \in DOMAIN AlertsOf[sample] : i < turn + 1 /\ a = AlertsOf[sample][i]
    <3>1. CASE a = Alert
      BY <1>2, <2>1, <3>1 DEF Alert
    <3>2. CASE a \in seen
      <4>1. PICK i \in DOMAIN AlertsOf[sample] : i < turn /\ a = AlertsOf[sample][i]
        BY <2>1, <3>2 DEF CallInv, Earlier
      <4>2. i \in Int
        BY AlertsAssumption DEF CallInv, Placed
      <4>3. QED
        BY <2>1, <4>1, <4>2
    <3>3. QED
      BY <1>1, <2>2, <3>1, <3>2
  <2>3. QED
    BY <1>1, <2>2 DEF Earlier
<1>8. Alert \notin seen
  <2>1. SUFFICES ASSUME Alert \in seen PROVE FALSE
    OBVIOUS
  <2>2. turn > 0
    BY <1>1 DEF InCall
  <2>3. PICK i \in DOMAIN AlertsOf[sample] : i < turn /\ Alert = AlertsOf[sample][i]
    BY <2>1, <2>2 DEF CallInv, Earlier
  <2>4. i = turn
    BY <1>2, <2>3, AlertsAssumption DEF Alert, CallInv, Placed
  <2>5. turn \in Int
    BY DEF CallInv, Placed
  <2>6. QED
    BY <2>3, <2>4, <2>5
<1>9. \A a \in seen : KeyOf[a] \in Keys /\ state[KeyOf[a]].level \in 0..2
  BY AlertsAssumption DEF CallInv, Placed, IInv, TypeOK
<1>10. \A a \in seen : OwnKey(a) => KeyOf[a] # k
  BY <1>2, <1>8 DEF OwnKey
<1>11. Bounded'
  <2>1. SUFFICES ASSUME NEW a \in seen', OwnKey(a)
                 PROVE  state'[KeyOf[a]].level <= active'
    BY DEF Bounded, OwnKey
  <2>2. CASE a = Alert
    BY <1>5, <2>2
  <2>3. CASE a \in seen
    <3>1. state'[KeyOf[a]] = state[KeyOf[a]]
      BY <1>4, <1>9, <1>10, <2>1, <2>3
    <3>2. state[KeyOf[a]].level <= active
      BY <2>1, <2>3 DEF CallInv, Bounded
    <3>3. QED
      BY <1>5, <1>9, <2>3, <3>1, <3>2
  <2>4. QED
    BY <1>1, <2>1, <2>2, <2>3
<1>12. Attained'
  <2>1. SUFFICES ASSUME \A a \in seen' : OwnKey(a)
                 PROVE  active' = 0 \/ \E a \in seen' : state'[KeyOf[a]].level = active'
    BY DEF Attained, OwnKey
  <2>2. CASE new > active
    BY <1>1, <2>2 DEF Worse
  <2>3. CASE ~(new > active)
    <3>1. active' = active
      BY <1>1, <2>3 DEF Worse
    <3>2. CASE active # 0
      <4>1. PICK a \in seen : state[KeyOf[a]].level = active
        BY <1>1, <2>1, <3>2 DEF CallInv, Attained
      <4>2. state'[KeyOf[a]] = state[KeyOf[a]]
        BY <1>1, <1>4, <1>9, <1>10, <2>1
      <4>3. QED
        BY <1>1, <3>1, <4>1, <4>2
    <3>3. QED
      BY <3>1, <3>2
  <2>4. QED
    BY <2>2, <2>3
<1>13. Told'
  <2>1. turn' # 0
    BY <1>1, <1>2 DEF InCall, CallInv, Placed
  <2>2. QED
    BY <2>1 DEF Told
<1>14. Full'
  <2>1. SUFFICES ASSUME NEW o \in Keys, state'[o].level # 0, NEW i \in Window
                 PROVE  recent'[o][i] \in Values
    BY DEF Full
  <2>2. CASE o # k
    BY <1>4, <2>1, <2>2 DEF CallInv, Full
  <2>3. CASE o = k /\ state'[k].level # state[k].level
    BY <1>1, <1>2, <2>3, ChangeFacts DEF CallInv
  <2>4. CASE o = k /\ state'[k].level = state[k].level
    <3>1. \A j \in Window : recent[k][j] \in Values
      BY <1>2, <2>1, <2>4 DEF CallInv, Full
    <3>2. i = 1 \/ i - 1 \in Window
      BY DEF Window
    <3>3. QED
      BY <1>4, <2>4, <3>1, <3>2
  <2>5. QED
    BY <2>2, <2>3, <2>4
<1>15. QED
  BY <1>3, <1>6, <1>7, <1>11, <1>12, <1>13, <1>14 DEF CallInv

(* Every step of a call keeps the invariant.                               *)
LEMMA CallInvStep == CallInv /\ [CallNext]_alertVars => CallInv'
<1> SUFFICES ASSUME CallInv, [CallNext]_alertVars
             PROVE  CallInv'
  OBVIOUS
<1>1. CASE BeginCall
  <2>1. IInv' /\ Full'
    BY <1>1, EvaluatorAlone DEF BeginCall
  <2>2. turn' = 1 /\ active' = 0 /\ seen' = {} /\ sample' = sample /\ shown' = shown
    BY <1>1 DEF BeginCall, ActiveAtFirst
  <2>3. Len(AlertsOf[sample]) \in Nat
    BY AlertsAssumption DEF CallInv, Placed
  <2>4. Placed'
    BY <2>2, <2>3 DEF CallInv, Placed
  <2>5. Earlier' /\ Bounded' /\ Attained' /\ Told'
    BY <2>2 DEF Earlier, Bounded, Attained, Told
  <2>6. QED
    BY <2>1, <2>4, <2>5 DEF CallInv
<1>2. ASSUME NEW value \in Values, EvaluateAlert(value) PROVE CallInv'
  BY <1>2, EvaluateAlertKeeps
<1>3. CASE Missing
  <2>1. IInv' /\ Full'
    BY <1>3, EvaluatorAlone DEF Missing
  <2>2. /\ turn' = turn + 1
        /\ UNCHANGED <<state, recent, sample, active, seen, shown>>
    BY <1>3 DEF Missing, vars
  <2>3. Len(AlertsOf[sample]) \in Nat /\ turn \in Nat /\ turn > 0
    BY <1>3, AlertFacts DEF Missing, InCall, CallInv, Placed
  <2>4. Placed'
    BY <1>3, <2>2, <2>3 DEF CallInv, Placed, Missing, InCall
  <2>5. Earlier'
    <3>1. \A i \in DOMAIN AlertsOf[sample] : i \in Int
      BY AlertsAssumption DEF CallInv, Placed
    <3>2. QED
      BY <2>2, <2>3, <3>1 DEF CallInv, Earlier
  <2>6. Bounded' /\ Attained'
    BY <2>2 DEF CallInv, Bounded, Attained, OwnKey
  <2>7. Told'
    BY <2>2, <2>3 DEF Told
  <2>8. QED
    BY <2>1, <2>4, <2>5, <2>6, <2>7 DEF CallInv
<1>4. CASE Publish
  <2>1. IInv' /\ Full'
    BY <1>4, EvaluatorAlone DEF Publish
  <2>2. /\ turn' = 0
        /\ shown' = IF seen # {} \/ sample \in Bare THEN active ELSE shown
        /\ UNCHANGED <<state, recent, sample, active, seen>>
    BY <1>4 DEF Publish, vars
  <2>3. Len(AlertsOf[sample]) \in Nat
    BY AlertsAssumption DEF CallInv, Placed
  <2>4. Placed'
    BY <2>2, <2>3 DEF CallInv, Placed
  <2>5. Earlier'
    BY <2>2 DEF Earlier
  <2>6. Bounded' /\ Attained'
    BY <2>2 DEF CallInv, Bounded, Attained, OwnKey
  <2>7. Told'
    BY <2>2 DEF Told
  <2>8. QED
    BY <2>1, <2>4, <2>5, <2>6, <2>7 DEF CallInv
<1>5. CASE UNCHANGED alertVars
  <2>1. IInv' /\ Full'
    BY <1>5, EvaluatorAlone DEF alertVars
  <2>2. UNCHANGED <<state, recent, sample, turn, active, seen, shown>>
    BY <1>5 DEF alertVars, vars, callVars
  <2>3. Placed' /\ Earlier' /\ Bounded' /\ Attained' /\ Told'
    BY <2>2 DEF CallInv, Placed, Earlier, Bounded, Attained, Told, OwnKey
  <2>4. QED
    BY <2>1, <2>3 DEF CallInv
<1>6. QED
  BY <1>1, <1>2, <1>3, <1>4, <1>5 DEF CallNext

-----------------------------------------------------------------------------
(* Calls of evaluate, whatever samples they are about and whichever keys   *)
(* those share, implement the evaluator that takes one observation after   *)
(* another: what is proved of it holds of the host monitor's calls.        *)
THEOREM CallsImplementEvaluator == CallSpec => Spec
<1>1. CallInit => Init
  BY DEF CallInit
<1>2. CallInv /\ [CallNext]_alertVars => [Next]_vars
  BY CallStepMaps DEF CallInv
<1>3. QED
  BY <1>1, <1>2, CallInvInit, CallInvStep, PTL DEF CallSpec, Spec

(* Debounce, hysteresis and promptness hold across calls, with quantities  *)
(* that are missing from some samples and keys that are shared.            *)
THEOREM CallsKeepPromises == CallSpec => []NothingWithheld /\ ChangesAreJustified
  BY CallsImplementEvaluator, NothingIsWithheld, OnlyJustifiedChanges

(* A quantity with its own key is never hidden by the rest of its sample.  *)
THEOREM TroubleIsAlwaysShown == CallSpec => []TroubleIsShown
<1>1. ASSUME CallInv, NothingWithheld PROVE TroubleIsShown
  <2>1. SUFFICES ASSUME turn = 0, NEW a \in seen, OwnKey(a), None \notin Readings(a)
                 PROVE  /\ (\A v \in Readings(a) : Past(KeyOf[a], v, 2)) => shown = 2
                        /\ (\A v \in Readings(a) : InWarnZone(KeyOf[a], v)) => shown >= 1
    BY DEF TroubleIsShown
  <2>2. KeyOf[a] \in Keys
    BY <1>1, AlertsAssumption DEF CallInv, Placed
  <2>3. shown = active /\ active \in 0..2
    BY <1>1, <2>1 DEF CallInv, Told, Placed
  <2>4. state[KeyOf[a]].level <= active /\ state[KeyOf[a]].level \in 0..2
    BY <1>1, <2>1, <2>2 DEF CallInv, Bounded, IInv, TypeOK
  <2>5. \A i \in Window : recent[KeyOf[a]][i] \in Readings(a)
    BY DEF Readings
  <2>6. \A i \in Window : recent[KeyOf[a]][i] # None
    BY <2>1, <2>5
  <2>7. (\A v \in Readings(a) : Past(KeyOf[a], v, 2)) => state[KeyOf[a]].level = 2
    BY <1>1, <2>2, <2>5, <2>6 DEF NothingWithheld
  <2>8. (\A v \in Readings(a) : InWarnZone(KeyOf[a], v)) => state[KeyOf[a]].level >= 1
    BY <1>1, <2>2, <2>5, <2>6 DEF NothingWithheld
  <2>9. QED
    BY <2>3, <2>4, <2>7, <2>8
<1>2. QED
  BY <1>1, CallInvInit, CallInvStep, CallsKeepPromises, PTL DEF CallSpec

(* A raised level always has a cause among what its sample observed.       *)
THEOREM AlarmsHaveCauses == CallSpec => []AlarmHasCause
<1>1. ASSUME CallInv, NothingWithheld PROVE AlarmHasCause
  <2>1. SUFFICES ASSUME turn = 0, seen # {} \/ sample \in Bare, \A a \in seen : OwnKey(a),
                        shown \in {1, 2}
                 PROVE  \E a \in seen : \E v \in Readings(a) : v # None /\ ~Clear(KeyOf[a], v, 1)
    BY DEF AlarmHasCause
  <2>2. shown = active
    BY <1>1, <2>1 DEF CallInv, Told
  <2>3. PICK a \in seen : state[KeyOf[a]].level = active
    BY <1>1, <2>1, <2>2 DEF CallInv, Attained
  <2>4. KeyOf[a] \in Keys
    BY <1>1, AlertsAssumption DEF CallInv, Placed
  <2>5. state[KeyOf[a]].level # 0
    BY <2>1, <2>2, <2>3
  <2>6. \A i \in Window : recent[KeyOf[a]][i] \in Values
    BY <1>1, <2>4, <2>5 DEF CallInv, Full
  <2>7. \A i \in Window : recent[KeyOf[a]][i] # None
    BY <2>6
  <2>8. PICK i \in Window : ~Clear(KeyOf[a], recent[KeyOf[a]][i], 1)
    BY <1>1, <2>4, <2>5, <2>7 DEF NothingWithheld
  <2>9. recent[KeyOf[a]][i] \in Readings(a)
    BY DEF Readings
  <2>10. QED
    BY <2>7, <2>8, <2>9
<1>2. QED
  BY <1>1, CallInvInit, CallInvStep, CallsKeepPromises, PTL DEF CallSpec
=============================================================================
