------------------------------ MODULE Throttle ------------------------------
(***************************************************************************)
(* The rate limit all publishers and rate-limited sinks share              *)
(* (should_publish and _last_publish_time), for the two languages it is    *)
(* written in.  The instant of the last publication is kept as its age,    *)
(* "since".                                                                *)
(***************************************************************************)
EXTENDS Integers

CONSTANT Never          \* the age of an instant that has not been

ASSUME NeverAssumption == Never \notin Int

(* Python starts without an instant, C++ with that of its construction.    *)
Unpublished(language) == IF language = "python" THEN Never ELSE 0

MayPublish_Early(since, interval) == interval = 0 \/ since = Never \/ since + 1 >= interval
MayPublish_Late(since, interval) == interval = 0 \/ since = Never \/ since > interval
MayPublish(since, interval) == interval = 0 \/ since = Never \/ since >= interval

(* After an attempt: Python records its instant when the message was sent, *)
(* C++ whether it was or not; age is how long ago it took the instant.     *)
Restamped(language, since, sent, age) ==
    IF language = "python" /\ ~sent THEN since ELSE age
=============================================================================
