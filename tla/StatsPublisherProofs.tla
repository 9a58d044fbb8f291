------------------------ MODULE StatsPublisherProofs ------------------------
(***************************************************************************)
(* Proofs about StatsPublisher, for every kind of publisher, interval,     *)
(* high-water mark and period of the owning thread: no window is lost      *)
(* between its flush and its fate, messages are spaced, and a publisher    *)
(* whose messages are accepted is never silent for long.                   *)
(***************************************************************************)
EXTENDS StatsPublisher, TLAPS

USE IntervalAssumption, BoundsAssumption, NeverAssumption

(* Samples are between the accumulator and their fate once each: a window  *)
(* is held only while it is being published.                               *)
Held ==
    /\ pc \in {"idle", "stamp"} => held = Empty
    /\ Updated <= MaxSamples

(* Which steps a publisher has, and what they found: once the limit has    *)
(* allowed a publication it goes on allowing it until the thread records   *)
(* another instant.                                                        *)
Permitted ==
    /\ pc = "recheck" => Language = "cpp"
    /\ pc = "stamp" => Language = "python" /\ sinceSent # Never /\ refused = FALSE
    /\ pc \in {"recheck", "send"} => MayPublish(since, Interval)

(* The instant recorded is never before the last accepted message, less    *)
(* the time C++ took between taking it and sending.                        *)
Recorded ==
    /\ captured # Never /\ lag # Never
    /\ pc = "send" /\ Language = "cpp" /\ sinceSent # Never => captured <= sinceSent
    /\ pc # "stamp" /\ sinceSent # Never => since # Never /\ since <= sinceSent + lag

(* The last message is no older than the last check; or a check since then *)
(* was too early, and the instant recorded is at most a period after it.   *)
Prompt ==
    refused = FALSE /\ sinceSent # Never =>
        /\ pc = "stamp" => sinceSent <= sinceCheck
        /\ pc = "idle" => /\ sinceSent <= since + CallPeriod
                          /\ sinceSent <= sinceCheck \/ since < Interval + sinceCheck
        /\ pc \in {"recheck", "send"} => sinceSent < Interval + 2 * CallPeriod + sinceCheck

IInv == TypeOK /\ Held /\ Permitted /\ Recorded /\ Prompt

-----------------------------------------------------------------------------
(* An age stays one, and so does "never"; it grows by at most a tick.      *)
LEMMA OlderAge ==
    ASSUME NEW age \in Ages
    PROVE  /\ Older(age) \in Ages
           /\ Older(age) = Never <=> age = Never
           /\ age # Never => age \in 0..Quiet /\ Older(age) \in 0..Quiet
           /\ age # Never => Older(age) = age + 1 \/ (age = Quiet /\ Older(age) = age)
  BY DEF Older, Quiet, Ages

LEMMA InvInit == Init => IInv
<1> SUFFICES ASSUME Init PROVE IInv
  OBVIOUS
<1> USE DEF Init
<1>1. since \in {0, Never}
  BY DEF Unpublished
<1>2. TypeOK
  <2>1. Empty \in WindowType
    BY DEF Empty, WindowType
  <2>2. since \in Ages /\ captured \in Ages /\ sinceSent \in Ages /\ lag \in Ages
    BY <1>1 DEF Quiet, Ages
  <2>3. QED
    BY <2>1, <2>2 DEF TypeOK
<1>3. Held
  BY DEF Held, Updated, Accounted, Empty, Fates
<1>4. Permitted /\ Recorded /\ Prompt
  BY DEF Permitted, Recorded, Prompt
<1>5. QED
  BY <1>2, <1>3, <1>4 DEF IInv

(* A window with a fate moves from where it was held to its account.       *)
LEMMA FateStep ==
    ASSUME TypeOK, Held, NEW f \in Fates, fate' = Fate(f), held' = Empty, UNCHANGED window
    PROVE  fate' \in [Fates -> 0..MaxSamples] /\ Updated' = Updated
<1>1. /\ fate["sent"] \in Nat /\ fate["invalid"] \in Nat /\ fate["refused"] \in Nat
      /\ fate["raised"] \in Nat /\ held.n \in Nat /\ window.n \in Nat
  BY DEF TypeOK, Fates, WindowType
<1>2. Accounted \in Nat /\ Accounted + held.n <= MaxSamples
  BY <1>1 DEF Held, Updated, Accounted
<1>3. fate[f] \in Nat /\ fate[f] <= Accounted
  BY <1>1 DEF Accounted, Fates
<1>4. fate[f] + held.n \in 0..MaxSamples
  BY <1>1, <1>2, <1>3
<1>5. fate' \in [Fates -> 0..MaxSamples]
  BY <1>4 DEF Fate, TypeOK
<1>6. Accounted' = Accounted + held.n
  BY <1>1 DEF Fate, Fates, TypeOK, Accounted
<1>7. held'.n = 0 /\ window'.n = window.n
  BY DEF Empty
<1>8. QED
  BY <1>1, <1>2, <1>5, <1>6, <1>7 DEF Updated

(* Every step keeps the types, and no sample disappears in it.             *)
LEMMA HeldStep ==
    ASSUME TypeOK, Held, Permitted, [Next]_vars
    PROVE  TypeOK' /\ Held' /\ Updated' >= Updated
<1> USE DEF Held
<1>0. /\ Empty \in WindowType /\ window.n \in Nat /\ held.n \in Nat /\ Accounted \in Nat
      /\ Updated \in Nat /\ 0 \in Ages
  <2>1. /\ fate["sent"] \in Nat /\ fate["invalid"] \in Nat /\ fate["refused"] \in Nat
        /\ fate["raised"] \in Nat
    BY DEF TypeOK, Fates
  <2>2. QED
    BY <2>1 DEF TypeOK, Empty, WindowType, Updated, Accounted, Ages, Quiet
<1>1. ASSUME NEW nan \in BOOLEAN, Update(nan) PROVE TypeOK' /\ Held' /\ Updated' >= Updated
  <2> USE <1>1 DEF Update
  <2>1. window.n + 1 \in 0..MaxSamples
    BY <1>0 DEF Updated
  <2>2. window' \in WindowType
    BY <2>1 DEF TypeOK, WindowType
  <2>3. Accounted' = Accounted
    BY DEF Accounted
  <2>4. window'.n = window.n + 1
    OBVIOUS
  <2>5. Updated' = Updated + 1 /\ Updated' <= MaxSamples
    BY <1>0, <2>3, <2>4 DEF Updated
  <2>6. QED
    BY <1>0, <2>2, <2>5 DEF TypeOK
<1>2. CASE CheckAndFlush
  <2> USE <1>2 DEF CheckAndFlush
  <2>1. Accounted' = Accounted
    BY DEF Accounted
  <2>2. Updated' = Updated
    BY <1>0, <2>1 DEF Updated, Empty
  <2>3. QED
    BY <1>0, <2>2 DEF TypeOK
<1>3. CASE Recheck
  <2> USE <1>3 DEF Recheck
  <2>1. pc' = "send" /\ captured' = 0 /\ UNCHANGED <<held, window, fate>>
    BY DEF Permitted
  <2>2. Updated' = Updated
    BY <2>1 DEF Updated, Accounted
  <2>3. QED
    BY <1>0, <2>1, <2>2 DEF TypeOK
<1>4. CASE Transmit
  <2> USE <1>4 DEF Transmit
  <2>1. FateOfSent \in Fates
    BY DEF FateOfSent, Fates
  <2>2. fate' \in [Fates -> 0..MaxSamples] /\ Updated' = Updated
    BY <2>1, FateStep
  <2>3. queued' \in 0..Hwm
    <3>1. kind = "ros2" \/ queued < Hwm
      BY Zenon DEF Accepts
    <3>2. queued \in 0..Hwm
      BY DEF TypeOK
    <3>3. queued' = IF kind = "ros2" /\ queued = Hwm THEN queued ELSE queued + 1
      OBVIOUS
    <3>4. QED
      BY ONLY <3>1, <3>2, <3>3, BoundsAssumption
  <2>4. since' \in Ages /\ lag' \in Ages
    BY <1>0 DEF Attempted, Restamped, TypeOK
  <2>5. /\ pc' \in {"idle", "stamp"} /\ held' = Empty /\ captured' = 0 /\ sinceSent' = 0
        /\ refused' = FALSE /\ UNCHANGED <<kind, window, connected, sinceCheck>>
    OBVIOUS
  <2>6. TypeOK'
    BY ONLY <1>0, <2>2, <2>3, <2>4, <2>5, TypeOK DEF TypeOK
  <2>7. QED
    BY <1>0, <2>2, <2>5, <2>6
<1>5. CASE Refuse
  <2> USE <1>5 DEF Refuse
  <2>1. fate' \in [Fates -> 0..MaxSamples] /\ Updated' = Updated
    BY FateStep DEF Fates
  <2>2. since' \in Ages
    BY DEF Attempted, Restamped, TypeOK
  <2>3. QED
    BY <1>0, <2>1, <2>2 DEF TypeOK
<1>6. CASE Raise
  <2> USE <1>6 DEF Raise
  <2>1. fate' \in [Fates -> 0..MaxSamples] /\ Updated' = Updated
    BY FateStep DEF Fates
  <2>2. QED
    BY <1>0, <2>1 DEF TypeOK
<1>7. CASE Stamp
  <2>1. since' \in Ages
    BY <1>0, <1>7 DEF Stamp, Restamped
  <2>2. /\ UNCHANGED <<kind, window, held, captured, queued, connected, fate, sinceSent, lag,
                       refused, sinceCheck>>
        /\ pc = "stamp" /\ pc' = "idle"
    BY <1>7, Zenon DEF Stamp
  <2>3. Updated' = Updated
    BY <2>2 DEF Updated, Accounted
  <2>4. QED
    BY <1>0, <2>1, <2>2, <2>3 DEF TypeOK
<1>8. CASE Tick
  <2>1. since' \in Ages /\ captured' \in Ages /\ sinceSent' \in Ages /\ lag' \in Ages
    BY <1>8, OlderAge DEF Tick, TypeOK
  <2>2. /\ UNCHANGED <<kind, pc, window, held, queued, connected, fate, refused>>
        /\ sinceCheck' \in 0..CallPeriod
    BY <1>8 DEF Tick, TypeOK
  <2>3. Updated' = Updated
    BY <2>2 DEF Updated, Accounted
  <2>4. TypeOK'
    BY <2>1, <2>2 DEF TypeOK
  <2>5. QED
    BY <1>0, <2>2, <2>3, <2>4
<1>9. CASE (Deliver \/ Connect \/ Disconnect) \/ UNCHANGED vars
  <2>1. connected' \in BOOLEAN /\ UNCHANGED thread /\ queued' \in 0..Hwm
    <3>1. connected' \in BOOLEAN /\ UNCHANGED thread
      BY <1>9, Zenon DEF Deliver, Connect, Disconnect, vars, thread, TypeOK
    <3>2. (queued > 0 /\ queued' = queued - 1) \/ queued' = 0 \/ queued' = queued
      BY <1>9, Zenon DEF Deliver, Connect, Disconnect, vars
    <3>3. QED
      BY <3>1, <3>2 DEF TypeOK
  <2>2. Updated' = Updated
    BY <2>1 DEF thread, Updated, Accounted
  <2>3. QED
    BY <1>0, <2>1, <2>2 DEF thread, TypeOK
<1>10. QED
  BY <1>1, <1>2, <1>3, <1>4, <1>5, <1>6, <1>7, <1>8, <1>9 DEF Next

(* Every step keeps what is known of the instants.                         *)
LEMMA TimeStep ==
    ASSUME TypeOK, Permitted, Recorded, Prompt, [Next]_vars
    PROVE  Permitted' /\ Recorded' /\ Prompt'
<1> USE DEF Permitted, Recorded, Prompt, MayPublish, Restamped, Attempted
<1>0. /\ pc \in {"idle", "recheck", "send", "stamp"} /\ sinceCheck \in 0..CallPeriod
      /\ since # Never => since \in 0..Quiet
      /\ sinceSent # Never => sinceSent \in 0..Quiet
      /\ captured \in 0..Quiet /\ lag \in 0..Quiet
      /\ Language \in {"python", "cpp"} /\ refused \in BOOLEAN
      /\ Quiet = Interval + 3 * CallPeriod /\ Quiet \in Nat
  BY DEF TypeOK, Language, Ages, Quiet
<1>1. ASSUME NEW nan \in BOOLEAN, Update(nan) PROVE Permitted' /\ Recorded' /\ Prompt'
  <2>1. UNCHANGED <<kind, pc, since, captured, sinceSent, lag, refused, sinceCheck>>
    BY <1>1, Zenon DEF Update
  <2>2. QED
    BY <1>0, <2>1 DEF Language
<1>2. CASE CheckAndFlush
  BY <1>0, <1>2 DEF CheckAndFlush, Language
<1>3. CASE Recheck
  BY <1>0, <1>3 DEF Recheck, Language
<1>4. CASE Transmit
  BY <1>0, <1>4 DEF Transmit, Language
<1>5. CASE Refuse
  BY <1>0, <1>5 DEF Refuse, Language
<1>6. CASE Raise
  BY <1>0, <1>6 DEF Raise, Language
<1>7. CASE Stamp
  BY <1>0, <1>7 DEF Stamp, Language
<1>8. CASE Tick
  BY <1>0, <1>8, OlderAge DEF Tick, Language, TypeOK
<1>9. CASE (Deliver \/ Connect \/ Disconnect) \/ UNCHANGED vars
  BY <1>0, <1>9 DEF Deliver, Connect, Disconnect, vars, thread, Language
<1>10. QED
  BY <1>1, <1>2, <1>3, <1>4, <1>5, <1>6, <1>7, <1>8, <1>9 DEF Next

LEMMA InvStep == IInv /\ [Next]_vars => IInv'
  BY HeldStep, TimeStep, Zenon DEF IInv

LEMMA Invariant == Spec => []IInv
  BY InvInit, InvStep, PTL DEF Spec

(* A window that was flushed is always accounted for: the second check of  *)
(* C++ never discards it.                                                  *)
THEOREM NothingIsLost == Spec => NothingVanishes
<1>1. IInv /\ [Next]_vars => [Updated' >= Updated]_vars
  BY HeldStep, Zenon DEF IInv
<1>2. QED
  BY <1>1, Invariant, PTL DEF Spec, NothingVanishes

(* Accepted messages are an interval apart, less the time a C++ publisher  *)
(* spent between taking its instant and sending.                           *)
THEOREM MessagesAreSpaced == Spec => Spaced
<1>1. ASSUME IInv, Transmit PROVE sinceSent = Never \/ sinceSent + lag >= Interval
  BY <1>1 DEF IInv, TypeOK, Ages, Quiet, Transmit, Permitted, Recorded, MayPublish
<1>2. IInv => [Transmit => sinceSent = Never \/ sinceSent + lag >= Interval]_vars
  BY <1>1
<1>3. QED
  BY <1>2, Invariant, PTL DEF Spaced

(* A publisher whose last message was accepted is silent for less than its *)
(* interval and three periods of its owner.                                *)
THEOREM SilenceIsShort == Spec => []NeverSilent
<1>1. ASSUME IInv, refused = FALSE, sinceSent # Never PROVE sinceSent < Quiet
  <2>1. /\ pc \in {"idle", "recheck", "send", "stamp"} /\ sinceCheck \in 0..CallPeriod
        /\ pc # "stamp" => since # Never
        /\ since \in Ages /\ sinceSent \in Ages
    BY <1>1 DEF IInv, TypeOK, Recorded
  <2>2. QED
    BY <1>1, <2>1 DEF IInv, Prompt, Ages, Quiet
<1>2. IInv => NeverSilent
  BY <1>1, Zenon DEF IInv, TypeOK, NeverSilent
<1>3. QED
  BY <1>2, Invariant, PTL
=============================================================================
