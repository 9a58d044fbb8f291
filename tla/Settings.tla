------------------------------ MODULE Settings ------------------------------
(***************************************************************************)
(* What a setting of a YAML file is to the two loaders (aggregator and     *)
(* host_monitor config.py): absent, given a number, or given something no  *)
(* number can be made of.  YAML and float() know a NaN, of which every     *)
(* comparison is false.  An infinity is left out: it compares as a number  *)
(* beyond the others.                                                      *)
(***************************************************************************)
EXTENDS Integers

CONSTANTS
    Unset,          \* the key is not in the file
    Unreadable,     \* null, or a text that is no number
    NaN,
    Scale           \* numbers are counted in parts of one, so many to the one

ASSUME SettingsAssumption ==
    /\ Scale \in Nat \ {0}
    /\ {Unset, Unreadable, NaN} \intersect Int = {}
    /\ Unset # Unreadable /\ Unset # NaN /\ Unreadable # NaN

Number == Int \union {NaN}
Setting == Number \union {Unset, Unreadable}
Flag == BOOLEAN \union {Unset, Unreadable}

Taken(setting, default) == IF setting = Unset THEN default ELSE setting

(* _as_bool: null is the default too.                                      *)
AsBool(flag, default) == IF flag \in {Unset, Unreadable} THEN default ELSE flag

(* Python's < and <= on floats, and int().                                 *)
Below(a, b) == a # NaN /\ b # NaN /\ a < b
AtMost(a, b) == a # NaN /\ b # NaN /\ a <= b
Whole(a) == IF a >= 0 THEN a \div Scale ELSE -((-a) \div Scale)
=============================================================================
