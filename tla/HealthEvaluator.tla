-------------------------- MODULE HealthEvaluator --------------------------
(***************************************************************************)
(* The alert evaluator of the host monitor (host_monitor/health.py): every *)
(* alert key has a level that follows its observations with hysteresis     *)
(* (_target) and debounce (the candidate and its count in evaluate).       *)
(*                                                                         *)
(* evaluate() folds over its list one observation at a time and the keys   *)
(* do not affect each other, so one action is one iteration of its loop; a *)
(* call is any number of them, with any keys, repeated or missing.         *)
(***************************************************************************)
EXTENDS Integers

CONSTANTS
    Keys,           \* alert keys
    Values,         \* the values an observation may have
    Direction,      \* for each key, "high" or "low": which way is worse
    Warn,           \* for each key, its warning threshold
    Error,          \* for each key, its error threshold or None
    None,
    Margin,         \* recovery_margin
    Consecutive     \* consecutive_samples

ASSUME ValuesAssumption == Values \subseteq Int /\ None \notin Int
ASSUME ThresholdAssumption ==
    /\ Direction \in [Keys -> {"high", "low"}]
    /\ Warn \in [Keys -> Int]
    /\ Error \in [Keys -> Int \union {None}]
    /\ \A k \in Keys : Error[k] # None =>
           IF Direction[k] = "high" THEN Warn[k] < Error[k] ELSE Error[k] < Warn[k]
ASSUME DebounceAssumption == Margin \in Nat /\ Consecutive \in Nat \ {0}

VARIABLES
    state,          \* _states: level, candidate and count of each key
    recent          \* history: each key's last Consecutive values, newest first

vars == <<state, recent>>

Window == 1..Consecutive

TypeOK ==
    /\ state \in [Keys -> [level : 0..2, candidate : 0..2, count : 0..(Consecutive - 1)]]
    /\ recent \in [Keys -> [Window -> Values \union {None}]]

Init ==
    /\ state = [k \in Keys |-> [level |-> 0, candidate |-> 0, count |-> 0]]
    /\ recent = [k \in Keys |-> [i \in Window |-> None]]

-----------------------------------------------------------------------------
(* A value reaches a limit, give or take a slack, in the key's direction.  *)
Reaches(k, value, limit, slack) ==
    IF Direction[k] = "high" THEN value >= limit - slack ELSE value <= limit + slack

(* The level a value calls for, given the current one.                     *)
Target_NoHysteresis(k, value, current) ==
    IF Error[k] # None /\ Reaches(k, value, Error[k], 0) THEN 2
    ELSE IF Reaches(k, value, Warn[k], 0) THEN 1 ELSE 0

Target(k, value, current) ==
    IF /\ Error[k] # None
       /\ \/ current = 2 /\ Reaches(k, value, Error[k], Margin)
          \/ Reaches(k, value, Error[k], 0)
    THEN 2
    ELSE IF \/ current >= 1 /\ Reaches(k, value, Warn[k], Margin)
            \/ Reaches(k, value, Warn[k], 0)
    THEN 1
    ELSE 0

(* How many observations in a row have called for this target.             *)
Count_AnyTarget(s, target) == s.count + 1
Count_FromZero(s, target) == IF s.candidate = target THEN s.count + 1 ELSE 0
Count(s, target) == IF s.candidate = target THEN s.count + 1 ELSE 1

(* One iteration of evaluate's loop, on the state of the observed key.     *)
Debounced_OffByOne(s, target) ==
    IF target = s.level THEN [s EXCEPT !.candidate = target, !.count = 0]
    ELSE IF Count(s, target) > Consecutive
    THEN [level |-> target, candidate |-> target, count |-> 0]
    ELSE [s EXCEPT !.candidate = target, !.count = Count(s, target)]

Debounced(s, target) ==
    IF target = s.level THEN [s EXCEPT !.candidate = target, !.count = 0]
    ELSE IF Count(s, target) >= Consecutive
    THEN [level |-> target, candidate |-> target, count |-> 0]
    ELSE [s EXCEPT !.candidate = target, !.count = Count(s, target)]

Observe(k, value) ==
    /\ state' = [state EXCEPT ![k] = Debounced(state[k], Target(k, value, state[k].level))]
    /\ recent' = [recent EXCEPT ![k] =
                     [i \in Window |-> IF i = 1 THEN value ELSE recent[k][i - 1]]]

Next == \E k \in Keys, value \in Values : Observe(k, value)

Spec == Init /\ [][Next]_vars

-----------------------------------------------------------------------------
(* Properties, in terms of the values observed and not of _target.         *)

Limit(k, level) == IF level = 2 THEN Error[k] ELSE Warn[k]

Past(k, value, level) == Limit(k, level) # None /\ Reaches(k, value, Limit(k, level), 0)
Clear(k, value, level) == Limit(k, level) = None \/ ~Reaches(k, value, Limit(k, level), Margin)

(* A key's level rises only when its last Consecutive observations are all *)
(* past the threshold of the new level, and falls only when they are all   *)
(* clear, by more than the margin, of every threshold it leaves behind:    *)
(* no glitch shorter than that and no value inside the margin changes it.  *)
Justified(k) ==
    LET old == state[k].level  new == state'[k].level IN
    \A i \in Window :
        LET value == recent'[k][i] IN
        /\ new # old => value # None
        /\ new > old => Past(k, value, new)
        /\ \A l \in 1..2 : (new < l /\ l <= old) => Clear(k, value, l)

ChangesAreJustified == [][\A k \in Keys : Justified(k)]_vars

(* No level is withheld: once the last Consecutive observations of a key   *)
(* are all past its error threshold it is in error, once they are all in   *)
(* its warning zone it is at least a warning, and once they are all clear  *)
(* of the warning threshold it is OK.                                      *)
InWarnZone(k, value) == Past(k, value, 1) /\ ~Past(k, value, 2)
NothingWithheld ==
    \A k \in Keys : (\A i \in Window : recent[k][i] # None) =>
        /\ (\A i \in Window : Past(k, recent[k][i], 2)) => state[k].level = 2
        /\ (\A i \in Window : InWarnZone(k, recent[k][i])) => state[k].level >= 1
        /\ (\A i \in Window : Clear(k, recent[k][i], 1)) => state[k].level = 0

(* The best value a quantity can take, seen Consecutive times, clears its  *)
(* alert: what "hysteresis" in health.py promises.                         *)
Best(k) == CHOOSE v \in Values : \A w \in Values : IF Direction[k] = "high" THEN v <= w ELSE v >= w
BestValueClears ==
    \A k \in Keys : (\A i \in Window : recent[k][i] = Best(k)) => state[k].level = 0
=============================================================================
