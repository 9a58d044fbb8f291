--------------------------- MODULE StatsPublisher ---------------------------
(***************************************************************************)
(* A thread that accumulates samples of a metric and publishes a window of *)
(* them at a limited rate: publish_stats of the Python and of the C++      *)
(* DiagPublisher, update_and_publish of StatsPublisher and of              *)
(* Ros2StatsPublisher, with the socket or topic they publish to.           *)
(*                                                                         *)
(* The four differ in when they check the limit, when they record the      *)
(* instant of publication and what they do with a refusal or with a NaN;   *)
(* kind says which one a behaviour is about.                               *)
(***************************************************************************)
EXTENDS Throttle

CONSTANTS
    Kinds,          \* the publishers considered: see AllKinds
    Interval,       \* throttle_publish_interval_sec in ticks, 0 for none
    Hwm,            \* high-water mark of the PUSH socket
    CallPeriod,     \* bound: ticks between two checks by the owning thread
    MaxSamples      \* bound: samples accumulated over a behaviour

AllKinds == {"python",      \* DiagPublisher (Python), queueing while unconnected
             "immediate",   \* the same with immediate=True, as the host monitor has it
             "zmq",         \* DiagPublisher and StatsPublisher (C++)
             "ros2"}        \* Ros2DiagPublisher and Ros2StatsPublisher

ASSUME KindsAssumption == Kinds \subseteq AllKinds
ASSUME IntervalAssumption == Interval \in Nat
ASSUME BoundsAssumption == Hwm \in Nat \ {0} /\ CallPeriod \in Nat \ {0} /\ MaxSamples \in Nat

VARIABLES
    kind,           \* which publisher this is
    pc,             \* where its thread is in publish_stats
    window,         \* samples in the accumulator, and whether one is NaN
    held,           \* the flushed window about to be sent
    since,          \* age of _last_publish_time
    captured,       \* C++: age of the instant taken before the send
    queued,         \* messages in the socket's queue
    connected,      \* the aggregator's end of the socket is there
    fate,           \* history: samples sent, sent but unparsable, refused, raised on
    sinceSent,      \* history: age of the last message accepted
    lag,            \* history: captured at that message, 0 in Python
    refused,        \* history: the last attempt failed
    sinceCheck      \* age of the last check of the limit

vars == <<kind, pc, window, held, since, captured, queued, connected,
          fate, sinceSent, lag, refused, sinceCheck>>
thread == <<kind, pc, window, held, since, captured, fate, sinceSent, lag, refused, sinceCheck>>

Language == IF kind \in {"python", "immediate"} THEN "python" ELSE "cpp"
Empty == [n |-> 0, nan |-> FALSE]
WindowType == [n : 0..MaxSamples, nan : BOOLEAN]
Fates == {"sent", "invalid", "refused", "raised"}
Accounted == fate["sent"] + fate["invalid"] + fate["refused"] + fate["raised"]
Updated == window.n + held.n + Accounted

(* No publisher whose socket accepts is silent for longer than this.       *)
Quiet == Interval + 3 * CallPeriod
Ages == 0..Quiet \union {Never}
Older(age) == IF age = Never \/ age >= Quiet THEN age ELSE age + 1

TypeOK ==
    /\ kind \in Kinds
    /\ pc \in {"idle", "recheck", "send", "stamp"}
    /\ window \in WindowType /\ held \in WindowType
    /\ since \in Ages /\ captured \in Ages /\ sinceSent \in Ages /\ lag \in Ages
    /\ queued \in 0..Hwm
    /\ connected \in BOOLEAN /\ refused \in BOOLEAN
    /\ fate \in [Fates -> 0..MaxSamples]
    /\ sinceCheck \in 0..CallPeriod

Init ==
    /\ kind \in Kinds
    /\ pc = "idle"
    /\ window = Empty /\ held = Empty
    /\ since = Unpublished(Language)
    /\ captured = 0
    /\ queued = 0
    /\ connected \in BOOLEAN
    /\ fate = [f \in Fates |-> 0]
    /\ sinceSent = Never
    /\ lag = 0
    /\ refused = FALSE
    /\ sinceCheck = 0

-----------------------------------------------------------------------------
(* The thread.                                                             *)

Update(nan) ==
    /\ pc = "idle"
    /\ Updated < MaxSamples
    /\ window' = [n |-> window.n + 1, nan |-> window.nan \/ nan]
    /\ UNCHANGED <<kind, pc, held, since, captured, queued, connected, fate, sinceSent, lag,
                   refused, sinceCheck>>

(* should_publish, and if it allows it the accumulator is flushed.         *)
CheckAndFlush_FlushFirst ==
    /\ pc = "idle"
    /\ sinceCheck' = 0
    /\ window' = Empty
    /\ IF MayPublish(since, Interval) THEN held' = window ELSE UNCHANGED held
    /\ pc' = IF ~MayPublish(since, Interval) THEN "idle"
             ELSE IF Language = "python" THEN "send" ELSE "recheck"
    /\ UNCHANGED <<kind, since, captured, queued, connected, fate, sinceSent, lag, refused>>

CheckAndFlush ==
    /\ pc = "idle"
    /\ sinceCheck' = 0
    /\ IF MayPublish(since, Interval)
       THEN /\ held' = window
            /\ window' = Empty
            /\ pc' = IF Language = "python" THEN "send" ELSE "recheck"
       ELSE UNCHANGED <<held, window, pc>>
    /\ UNCHANGED <<kind, since, captured, queued, connected, fate, sinceSent, lag, refused>>

(* The C++ publish checks the limit a second time, returns without a trace *)
(* if it does not allow it now, and takes the instant it will record.      *)
Recheck ==
    /\ pc = "recheck"
    /\ IF MayPublish(since, Interval)
       THEN pc' = "send" /\ captured' = 0 /\ UNCHANGED held
       ELSE pc' = "idle" /\ held' = Empty /\ UNCHANGED captured
    /\ UNCHANGED <<kind, window, since, queued, connected, fate, sinceSent, lag, refused, sinceCheck>>

(* What the transport does with a message: a full PUSH socket refuses it,  *)
(* so does an unconnected one with IMMEDIATE; a ROS topic takes it, its    *)
(* history losing the oldest one when full.                                *)
Accepts_OffByOne == \/ kind = "ros2"
                    \/ queued <= Hwm /\ (kind = "immediate" => connected)
Accepts == \/ kind = "ros2"
           \/ queued < Hwm /\ (kind = "immediate" => connected)

(* json.dumps(allow_nan=False) raises on a NaN before anything is sent.    *)
Raises == Language = "python" /\ held.nan

(* The aggregator cannot parse the "nan" the C++ publisher writes in JSON. *)
FateOfSent == IF kind = "zmq" /\ held.nan THEN "invalid" ELSE "sent"

Fate(f) == [fate EXCEPT ![f] = @ + held.n]

Attempted(sent) == since' = Restamped(Language, since, sent, captured)

Transmit ==
    /\ pc = "send"
    /\ ~Raises
    /\ Accepts
    /\ queued' = IF kind = "ros2" /\ queued = Hwm THEN queued ELSE queued + 1
    /\ fate' = Fate(FateOfSent)
    /\ held' = Empty
    /\ sinceSent' = 0
    /\ refused' = FALSE
    /\ IF Language = "python" THEN pc' = "stamp" /\ lag' = 0 /\ UNCHANGED since
                              ELSE pc' = "idle" /\ lag' = captured /\ Attempted(TRUE)
    /\ captured' = 0
    /\ UNCHANGED <<kind, window, connected, sinceCheck>>

(* EAGAIN: Python logs it, C++ ignores the result.                         *)
Refuse ==
    /\ pc = "send"
    /\ ~Raises
    /\ ~Accepts
    /\ fate' = Fate("refused")
    /\ held' = Empty
    /\ refused' = TRUE
    /\ pc' = "idle"
    /\ Attempted(FALSE)
    /\ captured' = 0
    /\ UNCHANGED <<kind, window, queued, connected, sinceSent, lag, sinceCheck>>

Raise ==
    /\ pc = "send"
    /\ Raises
    /\ fate' = Fate("raised")
    /\ held' = Empty
    /\ refused' = TRUE
    /\ pc' = "idle"
    /\ UNCHANGED <<kind, window, since, captured, queued, connected, sinceSent, lag, sinceCheck>>

(* Python reads the clock again after the send.                            *)
Stamp ==
    /\ pc = "stamp"
    /\ pc' = "idle"
    /\ since' = Restamped(Language, since, TRUE, 0)
    /\ UNCHANGED <<kind, window, held, captured, queued, connected, fate, sinceSent, lag,
                   refused, sinceCheck>>

-----------------------------------------------------------------------------
(* The environment.                                                        *)

(* The owner comes back to check the limit at least every CallPeriod.      *)
Tick ==
    /\ sinceCheck < CallPeriod
    /\ sinceCheck' = sinceCheck + 1
    /\ since' = Older(since)
    /\ captured' = IF pc = "send" /\ Language = "cpp" THEN Older(captured) ELSE captured
    /\ sinceSent' = Older(sinceSent)
    /\ UNCHANGED <<kind, pc, window, held, queued, connected, fate, lag, refused>>

(* The peer takes a message.                                               *)
Deliver == connected /\ queued > 0 /\ queued' = queued - 1 /\ UNCHANGED <<thread, connected>>

(* The aggregator starts, or stops: with IMMEDIATE its pipe and what is in *)
(* it goes with it, otherwise the messages wait for the next connection.   *)
Connect == ~connected /\ connected' = TRUE /\ UNCHANGED <<thread, queued>>
Disconnect ==
    /\ connected
    /\ connected' = FALSE
    /\ queued' = IF kind = "immediate" THEN 0 ELSE queued
    /\ UNCHANGED thread

Next ==
    \/ \E nan \in BOOLEAN : Update(nan)
    \/ CheckAndFlush \/ Recheck \/ Transmit \/ Refuse \/ Raise \/ Stamp
    \/ Tick \/ Deliver \/ Connect \/ Disconnect

Spec == Init /\ [][Next]_vars

-----------------------------------------------------------------------------
(* Properties.                                                             *)

(* A flushed window is always accounted for: the second check of the C++   *)
(* publishers, made after the accumulator was emptied, never discards it,  *)
(* and a throttled call leaves the window to the next one.                 *)
NothingVanishes ==
    [][Updated' >= Updated]_vars

(* Two accepted messages are at least an interval apart: exactly so in     *)
(* Python, less the time between taking the instant and sending in C++.    *)
Spaced ==
    [][Transmit => sinceSent = Never \/ sinceSent + lag >= Interval]_vars

(* A publisher whose last attempt was accepted is never silent for longer  *)
(* than its interval and three periods of its owner: with a stale timeout    *)
(* beyond that the aggregator never takes it for dead.                     *)
NeverSilent ==
    ~refused /\ sinceSent # Never => sinceSent < Quiet

=============================================================================
