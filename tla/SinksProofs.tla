----------------------------- MODULE SinksProofs -----------------------------
(***************************************************************************)
(* Proofs about Sinks, for any nodes, levels, timeout and intervals: what  *)
(* a sink without a timer withholds is young, a buffered point is written  *)
(* once, and each node that is not STALE is a clock that has the buffer    *)
(* flushed.  And about the array the ROS sink then shows, for any names:   *)
(* it is a tree, and its levels are those of its nodes.                    *)
(***************************************************************************)
EXTENDS Sinks, PathAggregation, TLAPS

USE BoardAssumption, PeriodAssumption, FlushAssumption, NeverAssumption

(* A state is only withheld within the interval of the one shown.          *)
Withheld ==
    shown # board =>
        sinceShown # Never /\ sinceGiven # Never /\ sinceShown < ShowInterval + sinceGiven

(* A buffer was empty when it was last flushed.                            *)
Buffered ==
    open /\ pending # <<>> => sinceOldest <= sinceFlush \/ sinceFlush >= FlushInterval

(* The levels of nodes that can still be marked.                           *)
Alive == Levels \ {Board!Stale}

(* The last report of a node flushed, or found the oldest point younger    *)
(* than the interval.                                                      *)
Reminded ==
    open /\ pending # <<>> =>
        \A n \in Nodes : board[n] \in Alive => sinceOldest < FlushInterval + silent[n]

(* If the newest point is from a node that was not STALE, some node has    *)
(* reported after the last flush and is not STALE yet: should it be marked *)
(* after all, that will flush, if the timeout covers the interval.         *)
Clocked ==
    open /\ pending # <<>> /\ newest # Board!Stale /\ FlushInterval <= Timeout + 1 =>
        \E n \in Nodes :
            board[n] \in Alive /\ (silent[n] <= sinceFlush \/ sinceFlush >= FlushInterval)

IInv == TypeOK /\ Withheld /\ EachPointOnce /\ Buffered /\ Reminded /\ Clocked

-----------------------------------------------------------------------------
(* The first points in order, and what adding the next one makes of them.  *)
Points(n) == [i \in 1..n |-> i]

LEMMA PointsAppend ==
    ASSUME NEW n \in Nat
    PROVE  /\ Points(n) \in Seq(Nat) /\ Len(Points(n)) = n
           /\ Append(Points(n), n + 1) = Points(n + 1)
           /\ Points(n) = <<>> <=> n = 0
<1>1. Points(n) \in Seq(Nat) /\ Len(Points(n)) = n
  BY DEF Points
<1>2. Append(Points(n), n + 1) = Points(n + 1)
  BY DEF Points
<1>3. Points(n) = <<>> <=> n = 0
  BY <1>1 DEF Points
<1>4. QED
  BY <1>1, <1>2, <1>3

LEMMA ShowAgedFacts ==
    ASSUME NEW age \in 0..ShowHorizon \union {Never}
    PROVE  /\ ShowAged(age) \in 0..ShowHorizon \union {Never}
           /\ ShowAged(age) = Never <=> age = Never
           /\ age # Never => ShowAged(age) = age + 1 \/ (age = ShowHorizon /\ ShowAged(age) = age)
  BY DEF ShowAged, ShowHorizon

LEMMA InvInit == Init => IInv
<1> SUFFICES ASSUME Init PROVE IInv
  OBVIOUS
<1> USE DEF Init, ShowInit, BufferInit, Board!Init
<1>1. ShowTypeOK
  BY DEF ShowTypeOK
<1>2. BufferTypeOK
  BY DEF BufferTypeOK, MaxWait
<1>3. TypeOK
  BY <1>1, <1>2 DEF TypeOK
<1>4. EachPointOnce
  BY DEF EachPointOnce
<1>5. Withheld /\ Buffered /\ Reminded /\ Clocked
  BY DEF Withheld, Buffered, Reminded, Clocked
<1>6. QED
  BY <1>3, <1>4, <1>5 DEF IInv

-----------------------------------------------------------------------------
(* The board: what a report, an expiry and a tick do to it.                *)
Boarded == board \in [Nodes -> Levels \union {Board!Stale, None}] /\ silent \in [Nodes -> 0..Deadline]

LEMMA BoardReport ==
    ASSUME Boarded, NEW n \in Nodes, NEW level \in Levels, Board!Report(n, level)
    PROVE  Boarded' /\ board'[n] = level /\ silent'[n] = 0
  BY DEF Boarded, Board!Report

LEMMA BoardExpire ==
    ASSUME Boarded, NEW S \in SUBSET Board!Known, Board!Expire(S)
    PROVE  /\ Boarded' /\ silent' = silent
           /\ \A n \in Nodes : silent[n] <= Timeout => board'[n] = board[n]
           /\ \E n \in Nodes : silent[n] > Timeout
<1>1. silent' = silent /\ board' \in [Nodes -> Levels \union {Board!Stale, None}]
  BY DEF Boarded, Board!Expire
<1>2. \A n \in S : n \in Nodes /\ silent[n] > Timeout
  BY DEF Board!Expire, Board!Known
<1>3. S # {}
  BY DEF Board!Expire
<1>4. \A n \in Nodes : n \notin S => board'[n] = board[n]
  BY DEF Board!Expire
<1>5. \A n \in Nodes : silent[n] \in Int
  BY DEF Boarded
<1>6. QED
  BY <1>1, <1>2, <1>3, <1>4, <1>5 DEF Boarded

LEMMA BoardPass ==
    ASSUME Boarded, Board!Pass
    PROVE  /\ Boarded' /\ board' = board
           /\ \A n \in Nodes : board[n] \in Alive => silent'[n] = silent[n] + 1
<1>1. board' = board /\ \A n \in Nodes : silent'[n] \in 0..Deadline
  BY DEF Boarded, Board!Pass, Board!Aged
<1>2. silent' \in [Nodes -> 0..Deadline]
  BY <1>1 DEF Board!Pass
<1>3. ASSUME NEW n \in Nodes, board[n] \in Alive PROVE silent'[n] = silent[n] + 1
  <2>1. n \in Board!Known /\ board[n] # Board!Stale
    <3>1. board[n] \in 0..255 /\ board[n] # Board!Stale
      BY <1>3 DEF Alive
    <3>2. QED
      BY <3>1 DEF Board!Known
  <2>2. silent'[n] = Board!Aged(silent[n]) /\ silent'[n] < Deadline
    BY <2>1 DEF Board!Pass
  <2>3. QED
    BY <2>2 DEF Board!Aged, Boarded
<1>4. QED
  BY <1>1, <1>2, <1>3 DEF Boarded

-----------------------------------------------------------------------------
(* The sink that shows: given a state, it shows it unless it is within the *)
(* interval.                                                               *)
LEMMA ShowStep ==
    ASSUME ShowTypeOK, Boarded', Show(board')
    PROVE  ShowTypeOK' /\ Withheld'
  BY DEF ShowTypeOK, Boarded, Show, AfterWithholding, MayPublish, Withheld, ShowHorizon

LEMMA ShowWaits ==
    ASSUME ShowTypeOK, Withheld, ShowTick, board' = board
    PROVE  ShowTypeOK' /\ Withheld'
<1>1. ShowTypeOK'
  BY ShowAgedFacts DEF ShowTypeOK, ShowTick
<1>2. ASSUME shown' # board' PROVE sinceShown' # Never /\ sinceGiven' # Never
                                   /\ sinceShown' < ShowInterval + sinceGiven'
  BY <1>2, ShowAgedFacts DEF ShowTypeOK, ShowTick, Withheld, ShowHorizon
<1>3. QED
  BY <1>1, <1>2 DEF Withheld

-----------------------------------------------------------------------------
(* The sink that records.                                                  *)
BufferInv == BufferTypeOK /\ EachPointOnce /\ Buffered /\ Reminded /\ Clocked

(* A publication with a message: the point joins the others, or is written *)
(* with them; if its node is not STALE, it is one that has them flushed.   *)
LEMMA BufferReport ==
    ASSUME BufferInv, Boarded', open, NEW level \in Levels, BufferAndFlush(level),
           NEW n \in Nodes, board'[n] = level, silent'[n] = 0
    PROVE  BufferInv'
<1> DEFINE points == Append(pending, owed + 1)
<1>1. /\ owed \in Nat /\ pending = Points(owed)
      /\ points = Points(owed + 1) /\ points # <<>> /\ Len(points) = owed + 1
      /\ points \in Seq(Nat)
  BY PointsAppend DEF BufferInv, BufferTypeOK, EachPointOnce, Points
<1>2. CASE MayPublish(sinceFlush, FlushInterval)
  <2>1. /\ pending' = <<>> /\ owed' = 0 /\ sinceFlush' = 0 /\ sinceOldest' = 0
        /\ newest' = None /\ open' = open
    BY <1>1, <1>2 DEF BufferAndFlush, Flush, AfterFlush
  <2>2. BufferTypeOK'
    BY <2>1 DEF BufferInv, BufferTypeOK, MaxWait
  <2>3. QED
    BY <2>1, <2>2, PointsAppend DEF BufferInv, EachPointOnce, Points, Buffered, Reminded, Clocked
<1>3. CASE ~MayPublish(sinceFlush, FlushInterval)
  <2>1. /\ pending' = points /\ owed' = owed + 1 /\ newest' = level /\ UNCHANGED <<open, sinceFlush>>
        /\ sinceOldest' = IF pending = <<>> THEN 0 ELSE sinceOldest
    BY <1>3 DEF BufferAndFlush, Flush, Keep
  <2>2. /\ sinceFlush \in 0..(FlushInterval + 1) /\ sinceFlush < FlushInterval
        /\ sinceOldest' \in 0..MaxWait /\ sinceOldest' <= sinceFlush
    BY <1>3, <2>1 DEF MayPublish, BufferInv, BufferTypeOK, Buffered, MaxWait
  <2>3. BufferTypeOK'
    BY <1>1, <2>1, <2>2 DEF BufferInv, BufferTypeOK
  <2>4. EachPointOnce'
    BY <1>1, <2>1 DEF EachPointOnce, Points
  <2>5. Buffered'
    BY <2>1, <2>2 DEF Buffered
  <2>6. Reminded'
    BY <2>1, <2>2 DEF Reminded, Boarded
  <2>7. Clocked'
    BY <2>1, <2>2 DEF Clocked, Alive
  <2>8. QED
    BY <2>3, <2>4, <2>5, <2>6, <2>7 DEF BufferInv
<1>4. QED
  BY <1>2, <1>3

(* A publication without one, after some node was silent for longer than   *)
(* the timeout: if the points still wait, their clock is another node.     *)
LEMMA BufferExpire ==
    ASSUME BufferInv, Boarded, Boarded', open, FlushOnly, silent' = silent,
           \A n \in Nodes : silent[n] <= Timeout => board'[n] = board[n]
    PROVE  BufferInv'
<1>1. owed \in Nat /\ pending = Points(owed) /\ Len(pending) = owed
  BY PointsAppend DEF BufferInv, BufferTypeOK, EachPointOnce, Points
<1>2. CASE pending # <<>> /\ MayPublish(sinceFlush, FlushInterval)
  <2>1. /\ pending' = <<>> /\ owed' = 0 /\ sinceFlush' = 0 /\ sinceOldest' = 0
        /\ newest' = None /\ open' = open
    BY <1>1, <1>2 DEF FlushOnly, Flush, AfterFlush
  <2>2. BufferTypeOK'
    BY <2>1 DEF BufferInv, BufferTypeOK, MaxWait
  <2>3. QED
    BY <2>1, <2>2, PointsAppend DEF BufferInv, EachPointOnce, Points, Buffered, Reminded, Clocked
<1>3. CASE pending # <<>> /\ ~MayPublish(sinceFlush, FlushInterval)
  <2>1. UNCHANGED bufferVars
    BY <1>3 DEF FlushOnly, Flush, Keep, bufferVars
  <2>2. sinceFlush \in 0..(FlushInterval + 1) /\ sinceFlush < FlushInterval
    BY <1>3 DEF MayPublish, BufferInv, BufferTypeOK
  <2>3. sinceOldest \in Nat /\ sinceOldest <= sinceFlush
    BY <1>3, <2>2 DEF BufferInv, BufferTypeOK, Buffered, MaxWait
  <2>4. Reminded'
    BY <2>1, <2>2, <2>3 DEF Reminded, Boarded, bufferVars
  <2>5. ASSUME newest # Board!Stale, FlushInterval <= Timeout + 1 PROVE Clocked'
    <3>1. PICK n \in Nodes : board[n] \in Alive /\ silent[n] <= sinceFlush
      BY <1>3, <2>2, <2>5 DEF BufferInv, Clocked
    <3>2. board'[n] = board[n] /\ silent'[n] = silent[n]
      BY <2>2, <2>5, <3>1 DEF Boarded
    <3>3. QED
      BY <2>1, <3>1, <3>2 DEF Clocked, bufferVars
  <2>6. Clocked'
    BY <2>1, <2>5 DEF Clocked, bufferVars
  <2>7. BufferTypeOK' /\ EachPointOnce' /\ Buffered'
    BY <2>1 DEF BufferInv, BufferTypeOK, EachPointOnce, Buffered, bufferVars
  <2>8. QED
    BY <2>4, <2>6, <2>7 DEF BufferInv
<1>4. CASE pending = <<>>
  <2>1. /\ pending' = <<>> /\ UNCHANGED <<open, sinceFlush, owed, newest>> /\ sinceOldest' = 0
    BY <1>4 DEF FlushOnly, Flush, Keep
  <2>2. BufferTypeOK'
    BY <2>1 DEF BufferInv, BufferTypeOK, MaxWait
  <2>3. QED
    BY <1>4, <2>1, <2>2 DEF BufferInv, EachPointOnce, Buffered, Reminded, Clocked
<1>5. QED
  BY <1>2, <1>3, <1>4

(* Time passes: the oldest point, the flush and the clocks age together.   *)
LEMMA BufferWaits ==
    ASSUME BufferInv, Boarded, Boarded', BufferTick, board' = board,
           \A n \in Nodes : board[n] \in Alive => silent'[n] = silent[n] + 1
    PROVE  BufferInv'
<1>1. /\ sinceFlush \in 0..(FlushInterval + 1) /\ sinceOldest \in 0..MaxWait /\ MaxWait \in Nat
      /\ sinceFlush' = IF sinceFlush < FlushInterval + 1 THEN sinceFlush + 1 ELSE sinceFlush
      /\ sinceOldest' = IF sinceOldest < MaxWait THEN sinceOldest + 1 ELSE sinceOldest
      /\ UNCHANGED <<open, pending, newest, owed>>
  BY DEF BufferInv, BufferTypeOK, BufferTick, BufferAged, MaxWait
<1>2. BufferTypeOK' /\ EachPointOnce'
  BY <1>1 DEF BufferInv, BufferTypeOK, EachPointOnce
<1>3. Buffered'
  BY <1>1 DEF BufferInv, Buffered
<1>4. ASSUME NEW n \in Nodes, board[n] \in Alive
      PROVE  silent[n] \in 0..Deadline /\ silent'[n] = silent[n] + 1 /\ board'[n] = board[n]
  BY <1>4 DEF Boarded
<1>5. Reminded'
  BY <1>1, <1>4 DEF BufferInv, Reminded
<1>6. ASSUME open, pending # <<>>, newest # Board!Stale, FlushInterval <= Timeout + 1 PROVE Clocked'
  <2>1. PICK n \in Nodes : board[n] \in Alive /\ (silent[n] <= sinceFlush \/ sinceFlush >= FlushInterval)
    BY <1>6 DEF BufferInv, Clocked
  <2>2. silent'[n] <= sinceFlush' \/ sinceFlush' >= FlushInterval
    BY <1>1, <1>4, <2>1
  <2>3. QED
    BY <1>4, <2>1, <2>2 DEF Clocked
<1>7. Clocked'
  BY <1>1, <1>6 DEF Clocked
<1>8. QED
  BY <1>2, <1>3, <1>5, <1>7 DEF BufferInv

(* A last batch leaves nothing owed.                                       *)
LEMMA BufferCloses ==
    ASSUME BufferInv, open, CloseBuffer
    PROVE  BufferInv'
<1>1. owed \in Nat /\ Len(pending) = owed
  BY PointsAppend DEF BufferInv, BufferTypeOK, EachPointOnce, Points
<1>2. owed' = 0 /\ open' = FALSE /\ UNCHANGED <<pending, sinceFlush, sinceOldest, newest>>
  BY <1>1 DEF CloseBuffer, LastBatch
<1>3. BufferTypeOK'
  BY <1>2 DEF BufferInv, BufferTypeOK
<1>4. QED
  BY <1>2, <1>3 DEF BufferInv, EachPointOnce, Buffered, Reminded, Clocked

-----------------------------------------------------------------------------
LEMMA InvParts ==
    /\ IInv <=> Boarded /\ ShowTypeOK /\ Withheld /\ BufferInv
    /\ IInv' <=> Boarded' /\ ShowTypeOK' /\ Withheld' /\ BufferInv'
  BY Zenon DEF IInv, TypeOK, Boarded, BufferInv

LEMMA InvStep == IInv /\ [Next]_vars => IInv'
<1> SUFFICES ASSUME Boarded, ShowTypeOK, Withheld, BufferInv, [Next]_vars
             PROVE  Boarded' /\ ShowTypeOK' /\ Withheld' /\ BufferInv'
  BY InvParts, Zenon
<1>1. ASSUME NEW n \in Nodes, NEW level \in Levels, Report(n, level)
      PROVE  Boarded' /\ ShowTypeOK' /\ Withheld' /\ BufferInv'
  <2>1. open /\ Board!Report(n, level) /\ Show(board') /\ BufferAndFlush(level)
    BY <1>1, Zenon DEF Report
  <2>2. QED
    BY <2>1, BoardReport, ShowStep, BufferReport
<1>2. ASSUME NEW S \in SUBSET Board!Known, Expire(S)
      PROVE  Boarded' /\ ShowTypeOK' /\ Withheld' /\ BufferInv'
  <2>1. open /\ Board!Expire(S) /\ Show(board') /\ FlushOnly
    BY <1>2, Zenon DEF Expire
  <2>2. /\ Boarded' /\ silent' = silent
        /\ \A n \in Nodes : silent[n] <= Timeout => board'[n] = board[n]
    BY <2>1, BoardExpire
  <2>3. QED
    BY <2>1, <2>2, ShowStep, BufferExpire
<1>3. CASE Tick
  <2>1. Board!Pass /\ ShowTick /\ BufferTick
    BY <1>3 DEF Tick
  <2>2. QED
    BY <2>1, BoardPass, ShowWaits, BufferWaits
<1>4. CASE Close
  <2>1. open /\ CloseBuffer /\ UNCHANGED <<board, silent, showVars>>
    BY <1>4 DEF Close
  <2>2. Boarded' /\ ShowTypeOK' /\ Withheld'
    BY <2>1 DEF Boarded, ShowTypeOK, Withheld, showVars
  <2>3. QED
    BY <2>1, <2>2, BufferCloses
<1>5. CASE UNCHANGED vars
  BY <1>5 DEF vars, showVars, bufferVars, Boarded, ShowTypeOK, Withheld, BufferInv, BufferTypeOK,
              EachPointOnce, Buffered, Reminded, Clocked
<1>6. QED
  BY <1>1, <1>2, <1>3, <1>4, <1>5, Zenon DEF Next, ReportAny, ExpireAny, Closed

LEMMA Invariant == Spec => []IInv
  BY InvInit, InvStep, PTL DEF Spec

(* Types, for any instance of the aggregator's sinks.                      *)
THEOREM TypeCorrect == Spec => []TypeOK
<1>1. IInv => TypeOK
  BY DEF IInv
<1>2. QED
  BY <1>1, Invariant, PTL

(* What the ROS and stdout sinks show is at most an interval behind what   *)
(* they were last given.                                                   *)
THEOREM TheWithheldIsYoung == Spec => []WithheldIsYoung
<1>1. IInv => WithheldIsYoung
  BY DEF IInv, Withheld, WithheldIsYoung
<1>2. QED
  BY <1>1, Invariant, PTL

(* The InfluxDB sink hands every point to exactly one batch, in order.     *)
THEOREM PointsAreWrittenOnce == Spec => []EachPointOnce
<1>1. IInv => EachPointOnce
  BY DEF IInv
<1>2. QED
  BY <1>1, Invariant, PTL

(* Without a timer, its points wait for longer than an interval and the    *)
(* time the aggregator takes to notice a silent node only once every node  *)
(* is STALE, and either the newest point reported that level itself or the *)
(* timeout is shorter than the interval.                                   *)
THEOREM NoPointIsForgotten == Spec => []NoneForgotten
<1>1. ASSUME IInv, open, pending # <<>>, sinceOldest >= MaxWait
      PROVE  /\ \A n \in Nodes : board[n] \in {Board!Stale, None}
             /\ newest = Board!Stale \/ Timeout + 1 < FlushInterval
  <2>1. ASSUME NEW n \in Nodes, board[n] \in Alive PROVE FALSE
    <3>1. sinceOldest < FlushInterval + silent[n]
      BY <1>1, <2>1 DEF IInv, Reminded
    <3>2. silent[n] \in 0..Deadline /\ sinceOldest \in Int
      BY <1>1 DEF IInv, TypeOK, BufferTypeOK
    <3>3. QED
      BY <1>1, <3>1, <3>2 DEF MaxWait
  <2>2. \A n \in Nodes : board[n] \in {Board!Stale, None}
    BY <1>1, <2>1 DEF IInv, TypeOK, Alive
  <2>3. ~(newest # Board!Stale /\ FlushInterval <= Timeout + 1)
    BY <1>1, <2>1 DEF IInv, Clocked
  <2>4. QED
    BY <2>2, <2>3
<1>2. IInv => NoneForgotten
  BY <1>1, Zenon DEF NoneForgotten
<1>3. QED
  BY <1>2, Invariant, PTL

-----------------------------------------------------------------------------
(***************************************************************************)
(* The tree of the ROS sink.                                               *)
(***************************************************************************)

(* The loop's turns are the positions of the names.                        *)
LEMMA NamesFacts ==
    /\ Len(Names) \in Nat /\ DOMAIN Names = 1..Len(Names)
    /\ \A i \in 1..Len(Names) : Names[i] \in Range(Names)
    /\ \A n \in Range(Names) : \E i \in 1..Len(Names) : Names[i] = n
    /\ \A i, j \in 1..Len(Names) : Names[i] = Names[j] => i = j
<1>1. Len(Names) \in Nat /\ DOMAIN Names = 1..Len(Names)
  BY NamesAssumption
<1>2. QED
  BY <1>1, NamesAssumption DEF IsInjective, Range

LEMMA OneSegment == ASSUME NEW S, NEW x \in S PROVE <<x>> \in Seq(S)
  OBVIOUS

(* A path starts with the root, and goes on with it only where the name    *)
(* itself repeats it.                                                      *)
LEMMA PathFacts ==
    ASSUME NEW n \in Range(Names)
    PROVE  /\ PathOf(n) \in Seq(STRING) /\ Len(PathOf(n)) \in Nat \ {0}
           /\ PathOf(n)[1] = Root
           /\ Len(PathOf(n)) > 1 /\ PathOf(n)[2] = Root =>
                  Len(SegmentsOf[n]) > 1 /\ SegmentsOf[n][2] = Root
<1> DEFINE segments == SegmentsOf[n]
<1>1. segments \in Seq(STRING) /\ <<Root>> \in Seq(STRING) /\ Len(<<Root>>) = 1 /\ <<Root>>[1] = Root
  <2>1. segments \in Seq(STRING) /\ Root \in STRING
    BY NamesAssumption
  <2>2. <<Root>> \in Seq(STRING)
    BY <2>1, OneSegment
  <2>3. Len(<<Root>>) = 1 /\ <<Root>>[1] = Root
    OBVIOUS
  <2>4. QED
    BY <2>1, <2>2, <2>3
<1> HIDE DEF segments
<1>2. ASSUME NEW s \in Seq(STRING)
      PROVE  /\ <<Root>> \o s \in Seq(STRING) /\ Len(<<Root>> \o s) = Len(s) + 1 /\ Len(s) \in Nat
             /\ (<<Root>> \o s)[1] = Root
             /\ Len(s) > 0 => (<<Root>> \o s)[2] = s[1]
  <2>1. <<Root>> \o s \in Seq(STRING) /\ Len(s) \in Nat
    BY <1>1
  <2>2. Len(<<Root>> \o s) = Len(s) + 1
    BY <1>1
  <2>3. (<<Root>> \o s)[1] = Root
    BY <1>1, <2>1
  <2>4. Len(s) > 0 => (<<Root>> \o s)[2] = s[1]
    BY <1>1, <2>1
  <2>5. QED
    BY <2>1, <2>2, <2>3, <2>4
<1>3. CASE segments # <<>> /\ Head(segments) = Root
  <2>1. /\ Tail(segments) \in Seq(STRING) /\ Len(Tail(segments)) = Len(segments) - 1
        /\ Len(Tail(segments)) > 0 => Tail(segments)[1] = segments[2]
    BY <1>1, <1>3
  <2>2. PathOf(n) = <<Root>> \o Tail(segments)
    BY <1>3 DEF PathOf, segments
  <2>3. Len(segments) \in Nat
    BY <1>1
  <2>4. QED
    BY <1>2, <2>1, <2>2, <2>3 DEF segments
<1>4. CASE ~(segments # <<>> /\ Head(segments) = Root)
  <2>1. PathOf(n) = <<Root>> \o segments
    BY <1>4 DEF PathOf, segments
  <2>2. Len(segments) > 0 => segments[1] # Root
    BY <1>1, <1>4
  <2>3. QED
    BY <1>1, <1>2, <2>1, <2>2
<1>5. QED
  BY <1>3, <1>4

(* The prefixes of a path: they agree with it, they are closed under       *)
(* taking the parent, and the path and its root are among them.            *)
LEMMA PrefixFacts ==
    ASSUME NEW q \in Seq(STRING), Len(q) > 0, NEW p \in PrefixesOf(q)
    PROVE  /\ p \in Seq(STRING) /\ Len(p) \in 1..Len(q)
           /\ \A i \in 1..Len(p) : p[i] = q[i]
           /\ Len(p) > 1 => Front(p) \in PrefixesOf(q)
<1>1. PICK length \in 1..Len(q) : p = SubSeq(q, 1, length)
  BY DEF PrefixesOf
<1>2. Len(q) \in Nat /\ DOMAIN q = 1..Len(q)
  OBVIOUS
<1>3. p = [i \in 1..length |-> q[i]]
  BY <1>1, <1>2
<1>4. p \in Seq(STRING) /\ Len(p) = length
  <2>1. \A i \in 1..length : i \in 1..Len(q) /\ q[i] \in STRING
    BY <1>2
  <2>2. length \in Nat /\ p \in [1..length -> STRING]
    BY <1>2, <1>3, <2>1
  <2>3. QED
    BY <2>2
<1>5. ASSUME length > 1 PROVE Front(p) \in PrefixesOf(q)
  <2>1. length - 1 \in 1..Len(q)
    BY <1>2, <1>5
  <2>2. SubSeq(q, 1, length - 1) = [i \in 1..(length - 1) |-> q[i]]
    BY <1>2, <2>1
  <2>3. SubSeq(p, 1, length - 1) = [i \in 1..(length - 1) |-> p[i]]
    BY <1>2, <1>4, <1>5
  <2>4. \A i \in 1..(length - 1) : p[i] = q[i]
    BY <1>2, <1>3
  <2>5. Front(p) = SubSeq(q, 1, length - 1)
    BY <1>4, <2>2, <2>3, <2>4 DEF Front
  <2>6. QED
    BY <2>1, <2>5 DEF PrefixesOf
<1>6. QED
  BY <1>2, <1>3, <1>4, <1>5

LEMMA PrefixesOfAPath ==
    ASSUME NEW q \in Seq(STRING), Len(q) > 0
    PROVE  q \in PrefixesOf(q) /\ <<q[1]>> \in PrefixesOf(q)
<1>1. Len(q) \in Nat /\ 1 \in 1..Len(q) /\ Len(q) \in 1..Len(q)
  OBVIOUS
<1>2. SubSeq(q, 1, Len(q)) = q
  BY <1>1
<1>3. SubSeq(q, 1, 1) = <<q[1]>>
  <2>1. SubSeq(q, 1, 1) = [i \in 1..1 |-> q[i]]
    BY <1>1
  <2>2. <<q[1]>> = [i \in 1..1 |-> q[i]]
    BY <1>1
  <2>3. QED
    BY <2>1, <2>2
<1>4. QED
  BY <1>1, <1>2, <1>3 DEF PrefixesOf

(* The largest of some numbers.                                            *)
LEMMA MaxIs ==
    ASSUME NEW S \in SUBSET Int, NEW m \in S, \A x \in S : x <= m
    PROVE  Max(S) = m
<1>1. \A x \in S : m >= x
  OBVIOUS
<1>2. Max(S) \in S /\ \A x \in S : Max(S) >= x
  BY <1>1 DEF Max
<1>3. Max(S) \in Int /\ m \in Int /\ Max(S) >= m /\ m >= Max(S)
  BY <1>1, <1>2
<1> HIDE DEF Max
<1>4. QED
  BY <1>3

-----------------------------------------------------------------------------
(***************************************************************************)
(* What the loop has gathered after some of the names: a group for every   *)
(* prefix of their paths, with the worst of the levels below it, and a     *)
(* leaf at each path, with the level of one of its names.                  *)
(***************************************************************************)
Worst(S, p, level) ==
    /\ level \in Int
    /\ \A n \in S : p \in PrefixesOf(PathOf(n)) => states[n] <= level
    /\ \E n \in S : p \in PrefixesOf(PathOf(n)) /\ states[n] = level

PathsOf(S) == UNION {PrefixesOf(PathOf(n)) : n \in S}

Gathers(S, sofar) ==
    /\ DOMAIN sofar.groups = PathsOf(S)
    /\ \A p \in PathsOf(S) : Worst(S, p, sofar.groups[p])
    /\ DOMAIN sofar.leaves = {PathOf(n) : n \in S}
    /\ \A n \in S : \E m \in S : PathOf(m) = PathOf(n) /\ sofar.leaves[PathOf(n)] = states[m]

TreeTypeOK ==
    /\ states \in [Range(Names) -> StatusLevels \union {Absent}]
    /\ turn \in 0..(Len(Names) + 1)

Visited == {n \in Known : \E i \in 1..Len(Names) : i < turn /\ Names[i] = n}

(* The array in between says the same of all the names.                    *)
Reports ==
    /\ DOMAIN published = PathsOf(Known)
    /\ \A p \in PathsOf(Known) :
           /\ At(p) = {} => Worst(Known, p, published[p].level)
           /\ At(p) # {} => \E n \in At(p) : published[p].level = states[n]

TreeInv == TreeTypeOK /\ (turn = 0 => Reports) /\ (turn # 0 => Gathers(Visited, tree))

(* The worse of two levels.                                                *)
LEMMA WorseFacts ==
    ASSUME NEW groups, NEW p, NEW level \in Int, p \in DOMAIN groups => groups[p] \in Int
    PROVE  /\ Worse(groups, p, level) \in Int
           /\ level <= Worse(groups, p, level)
           /\ p \notin DOMAIN groups => Worse(groups, p, level) = level
           /\ p \in DOMAIN groups => /\ groups[p] <= Worse(groups, p, level)
                                     /\ Worse(groups, p, level) \in {groups[p], level}
<1>1. CASE p \notin DOMAIN groups
  BY <1>1 DEF Worse
<1>2. CASE p \in DOMAIN groups
  <2>1. Worse(groups, p, level) = Max({groups[p], level})
    BY <1>2 DEF Worse
  <2>2. {groups[p], level} \in SUBSET Int
    BY <1>2
  <2>3. CASE groups[p] <= level
    <3>1. level \in {groups[p], level} /\ \A x \in {groups[p], level} : x <= level
      BY <2>3
    <3>2. Max({groups[p], level}) = level
      BY <2>2, <3>1, MaxIs, Zenon
    <3>3. QED
      BY <1>2, <2>1, <2>3, <3>2
  <2>4. CASE ~(groups[p] <= level)
    <3>1. level <= groups[p] /\ groups[p] \in Int
      BY <1>2, <2>4
    <3>2. groups[p] \in {groups[p], level} /\ \A x \in {groups[p], level} : x <= groups[p]
      BY <3>1
    <3>3. Max({groups[p], level}) = groups[p]
      BY <2>2, <3>2, MaxIs, Zenon
    <3>4. QED
      BY <1>2, <2>1, <3>1, <3>3
  <2>5. QED
    BY <2>3, <2>4
<1>3. QED
  BY <1>1, <1>2

(* One iteration gathers one more name.                                    *)
LEMMA AddGathers ==
    ASSUME TreeTypeOK, NEW S \in SUBSET Known, NEW sofar, Gathers(S, sofar), NEW n \in Known
    PROVE  Gathers(S \union {n}, Add(sofar, n, states[n]))
<1> DEFINE T == S \union {n}
           path == PathOf(n)
           level == states[n]
           new == Add(sofar, n, level)
<1>1. \A m \in Known : states[m] \in Int
  <2>1. \A m \in Known : states[m] \in StatusLevels
    BY DEF TreeTypeOK, Known
  <2>2. \A l \in StatusLevels : l \in Int
    BY PathLevelsAssumption
  <2>3. QED
    BY <2>1, <2>2
<1>2. level \in Int /\ \A m \in T : states[m] \in Int
  BY <1>1
<1>3. /\ DOMAIN sofar.groups = PathsOf(S)
      /\ \A p \in PathsOf(S) : Worst(S, p, sofar.groups[p])
      /\ DOMAIN sofar.leaves = {PathOf(m) : m \in S}
      /\ \A m \in S : \E o \in S : PathOf(o) = PathOf(m) /\ sofar.leaves[PathOf(m)] = states[o]
  BY DEF Gathers
<1>4. PathsOf(T) = PathsOf(S) \union PrefixesOf(path)
  BY DEF PathsOf
<1>5. /\ new.groups = [p \in PathsOf(T) |->
                          IF p \in PrefixesOf(path) THEN Worse(sofar.groups, p, level) ELSE sofar.groups[p]]
      /\ new.leaves = [p \in {PathOf(m) : m \in S} \union {path} |->
                          IF p = path THEN level ELSE sofar.leaves[p]]
  BY <1>3, <1>4 DEF Add
<1>6. {PathOf(m) : m \in S} \union {path} = {PathOf(m) : m \in T}
  OBVIOUS
<1> HIDE DEF new, path, level
<1>7. ASSUME NEW p \in PathsOf(T) PROVE Worst(T, p, new.groups[p])
  <2>1. p \in PathsOf(S) => Worst(S, p, sofar.groups[p]) /\ sofar.groups[p] \in Int
    BY <1>3 DEF Worst
  <2>2. p \notin PathsOf(S) => \A m \in S : p \notin PrefixesOf(PathOf(m))
    BY DEF PathsOf
  <2>3. CASE p \in PrefixesOf(path)
    <3> DEFINE w == Worse(sofar.groups, p, level)
    <3>1. new.groups[p] = w
      BY <1>5, <2>3
    <3>2. /\ w \in Int /\ level <= w
          /\ p \notin PathsOf(S) => w = level
          /\ p \in PathsOf(S) => sofar.groups[p] <= w /\ w \in {sofar.groups[p], level}
      BY <1>2, <1>3, <2>1, WorseFacts
    <3> HIDE DEF w
    <3>3. \A m \in T : p \in PrefixesOf(PathOf(m)) => states[m] <= w
      <4> SUFFICES ASSUME NEW m \in T, p \in PrefixesOf(PathOf(m)) PROVE states[m] <= w
        OBVIOUS
      <4>1. CASE m = n
        BY <3>2, <4>1 DEF level
      <4>2. CASE m \in S
        <5>1. p \in PathsOf(S)
          BY <2>2, <4>2
        <5>2. states[m] <= sofar.groups[p] /\ sofar.groups[p] <= w /\ sofar.groups[p] \in Int
          BY <2>1, <3>2, <4>2, <5>1 DEF Worst
        <5>3. QED
          BY <1>2, <3>2, <5>2
      <4>3. QED
        BY <4>1, <4>2
    <3>4. \E m \in T : p \in PrefixesOf(PathOf(m)) /\ states[m] = w
      <4>1. CASE w = level
        BY <2>3, <4>1 DEF level, path
      <4>2. CASE w # level
        BY <2>1, <3>2, <4>2 DEF Worst
      <4>3. QED
        BY <4>1, <4>2
    <3>5. QED
      BY <3>1, <3>2, <3>3, <3>4 DEF Worst
  <2>4. CASE p \notin PrefixesOf(path)
    <3>1. p \in PathsOf(S) /\ new.groups[p] = sofar.groups[p]
      BY <1>4, <1>5, <2>4
    <3>2. QED
      BY <2>1, <2>4, <3>1 DEF Worst, path
  <2>5. QED
    BY <2>3, <2>4
<1>8. ASSUME NEW m \in T
      PROVE  \E o \in T : PathOf(o) = PathOf(m) /\ new.leaves[PathOf(m)] = states[o]
  <2>1. CASE PathOf(m) = path
    BY <1>5, <2>1 DEF level, path
  <2>2. CASE PathOf(m) # path
    <3>1. m \in S
      BY <2>2 DEF path
    <3>2. new.leaves[PathOf(m)] = sofar.leaves[PathOf(m)]
      BY <1>5, <2>2, <3>1
    <3>3. QED
      BY <1>3, <3>1, <3>2
  <2>3. QED
    BY <2>1, <2>2
<1>9. DOMAIN new.groups = PathsOf(T) /\ DOMAIN new.leaves = {PathOf(m) : m \in T}
  BY <1>5, <1>6
<1>10. QED
  BY <1>7, <1>8, <1>9 DEF Gathers, new, level

LEMMA TreeInvInit == TreeInit => TreeInv
<1> SUFFICES ASSUME TreeInit PROVE TreeInv
  OBVIOUS
<1>1. TreeTypeOK
  BY NamesFacts DEF TreeInit, TreeTypeOK
<1>2. Known = {}
  BY DEF TreeInit, Known
<1>3. DOMAIN published = {}
  BY DEF TreeInit
<1>4. Reports
  BY <1>2, <1>3 DEF Reports, PathsOf
<1>5. QED
  BY <1>1, <1>4 DEF TreeInv, TreeInit

LEMMA TreeInvStep == TreeInv /\ [TreeNext]_treeVars => TreeInv'
<1> SUFFICES ASSUME TreeInv, [TreeNext]_treeVars PROVE TreeInv'
  OBVIOUS
<1> USE NamesFacts DEF TreeInv
<1>1. ASSUME NEW n \in Range(Names), NEW level \in StatusLevels, BeginArray(n, level)
      PROVE  TreeInv'
  <2>1. TreeTypeOK'
    BY <1>1 DEF BeginArray, TreeTypeOK
  <2>2. turn' = 1 /\ tree' = EmptyTree
    BY <1>1 DEF BeginArray
  <2>3. Visited' = {}
    BY <2>2 DEF Visited
  <2>4. DOMAIN EmptyTree.groups = {} /\ DOMAIN EmptyTree.leaves = {}
    BY DEF EmptyTree
  <2>5. Gathers(Visited, tree)'
    BY <2>2, <2>3, <2>4 DEF Gathers, PathsOf
  <2>6. QED
    BY <2>1, <2>2, <2>5
<1>2. CASE AddState
  <2>1. /\ turn \in 1..Len(Names) /\ turn' = turn + 1 /\ states' = states
        /\ tree' = IF states[Names[turn]] = Absent THEN tree
                   ELSE Add(tree, Names[turn], states[Names[turn]])
    BY <1>2 DEF AddState
  <2>2. TreeTypeOK'
    BY <2>1 DEF TreeTypeOK
  <2>3. Gathers(Visited, tree) /\ Known' = Known /\ Visited \in SUBSET Known
    BY <2>1 DEF Known, Visited
  <2>4. Visited' = {n \in Known : n \in Visited \/ n = Names[turn]}
    <3>1. \A i \in 1..Len(Names) : i < turn' <=> i < turn \/ i = turn
      BY <2>1
    <3>2. QED
      BY <2>1, <2>3, <3>1 DEF Visited
  <2>5. CASE states[Names[turn]] = Absent
    <3>1. Visited' = Visited
      BY <2>3, <2>4, <2>5 DEF Known
    <3>2. Gathers(Visited, tree)'
      BY <2>1, <2>3, <2>5, <3>1 DEF Gathers, Worst
    <3>3. QED
      BY <2>1, <2>2, <3>2
  <2>6. CASE states[Names[turn]] # Absent
    <3>1. Names[turn] \in Known /\ Visited' = Visited \union {Names[turn]}
      BY <2>1, <2>3, <2>4, <2>6 DEF Known
    <3>2. Gathers(Visited', tree')
      BY <2>1, <2>3, <2>6, <3>1, AddGathers
    <3>3. Gathers(Visited, tree)'
      BY <2>1, <3>2 DEF Gathers, Worst
    <3>4. QED
      BY <2>1, <2>2, <3>3
  <2>7. QED
    BY <2>5, <2>6
<1>3. CASE PublishArray
  <2>1. turn = Len(Names) + 1 /\ turn' = 0 /\ published' = StatusesOf(tree) /\ UNCHANGED <<states, tree>>
    BY <1>3 DEF PublishArray
  <2>2. TreeTypeOK'
    BY <2>1 DEF TreeTypeOK
  <2>3. Visited = Known
    BY <2>1 DEF Visited, Known
  <2>4. Gathers(Known, tree)
    BY <2>1, <2>3
  <2>5. /\ DOMAIN published' = PathsOf(Known)
        /\ \A p \in PathsOf(Known) :
               published'[p].level = IF p \in {PathOf(n) : n \in Known} THEN tree.leaves[p] ELSE tree.groups[p]
    BY <2>1, <2>4 DEF StatusesOf, Gathers
  <2>6. ASSUME NEW p \in PathsOf(Known), At(p) = {} PROVE Worst(Known, p, published'[p].level)
    <3>1. p \notin {PathOf(n) : n \in Known}
      BY <2>6 DEF At
    <3>2. QED
      BY <2>4, <2>5, <3>1 DEF Gathers
  <2>7. ASSUME NEW p \in PathsOf(Known), At(p) # {}
        PROVE  \E n \in At(p) : published'[p].level = states[n]
    <3>1. PICK n \in Known : PathOf(n) = p
      BY <2>7 DEF At
    <3>2. PICK m \in Known : PathOf(m) = p /\ tree.leaves[p] = states[m]
      BY <2>4, <3>1 DEF Gathers
    <3>3. QED
      BY <2>5, <3>1, <3>2 DEF At
  <2>8. Reports'
    <3>1. Known' = Known /\ \A p : At(p)' = At(p)
      BY <2>1 DEF Known, At
    <3>2. PathsOf(Known)' = PathsOf(Known)
      BY <3>1 DEF PathsOf
    <3>3. \A p \in PathsOf(Known) : Worst(Known, p, published'[p].level) => Worst(Known, p, published[p].level)'
      BY <2>1, <3>1 DEF Worst
    <3>4. QED
      BY <2>1, <2>5, <2>6, <2>7, <3>1, <3>2, <3>3 DEF Reports
  <2>9. QED
    BY <2>1, <2>2, <2>8
<1>4. CASE UNCHANGED treeVars
  <2>1. UNCHANGED <<states, turn, tree, published>>
    BY <1>4 DEF treeVars
  <2>2. TreeTypeOK'
    BY <2>1 DEF TreeTypeOK
  <2>3. turn = 0 => Reports'
    <3>1. Known' = Known /\ \A p : At(p)' = At(p)
      BY <2>1 DEF Known, At
    <3>2. PathsOf(Known)' = PathsOf(Known)
      BY <3>1 DEF PathsOf
    <3>3. \A p : Worst(Known, p, published[p].level) => Worst(Known, p, published[p].level)'
      BY <2>1, <3>1 DEF Worst
    <3>4. QED
      BY <2>1, <3>1, <3>2, <3>3 DEF Reports
  <2>4. turn # 0 => Gathers(Visited, tree)'
    BY <2>1 DEF Gathers, Visited, Worst, PathsOf, Known
  <2>5. QED
    BY <2>1, <2>2, <2>3, <2>4
<1>5. QED
  BY <1>1, <1>2, <1>3, <1>4 DEF TreeNext

LEMMA TreeInvariance == TreeSpec => []TreeInv
  BY TreeInvInit, TreeInvStep, PTL DEF TreeSpec

(* Whatever the names, the array of a complete call is a tree under the    *)
(* root with nothing in it that does not lead to a node.                   *)
THEOREM ArrayIsTree == TreeSpec => []IsTree
<1>1. TreeInv => IsTree
  <2> SUFFICES ASSUME Reports
               PROVE  /\ Known # {} => <<Root>> \in DOMAIN published
                      /\ \A p \in DOMAIN published :
                             /\ p[1] = Root
                             /\ Len(p) > 1 /\ p[2] = Root =>
                                    \E n \in Below(p) : Len(SegmentsOf[n]) > 1 /\ SegmentsOf[n][2] = Root
                             /\ Len(p) > 1 => Front(p) \in DOMAIN published
                             /\ Below(p) # {}
    BY DEF TreeInv, IsTree, Complete
  <2>1. DOMAIN published = PathsOf(Known) /\ \A n \in Known : n \in Range(Names)
    BY DEF Reports, Known
  <2>2. ASSUME Known # {} PROVE <<Root>> \in PathsOf(Known)
    <3>1. PICK n \in Known : TRUE
      BY <2>2
    <3>2. PathOf(n) \in Seq(STRING) /\ Len(PathOf(n)) > 0 /\ PathOf(n)[1] = Root
      BY <2>1, PathFacts
    <3>3. <<Root>> \in PrefixesOf(PathOf(n))
      BY <3>2, PrefixesOfAPath
    <3>4. QED
      BY <3>3 DEF PathsOf
  <2>3. ASSUME NEW p \in PathsOf(Known)
        PROVE  /\ p[1] = Root
               /\ Len(p) > 1 /\ p[2] = Root =>
                      \E n \in Below(p) : Len(SegmentsOf[n]) > 1 /\ SegmentsOf[n][2] = Root
               /\ Len(p) > 1 => Front(p) \in PathsOf(Known)
               /\ Below(p) # {}
    <3>1. PICK n \in Known : p \in PrefixesOf(PathOf(n))
      BY DEF PathsOf
    <3>2. /\ PathOf(n) \in Seq(STRING) /\ Len(PathOf(n)) \in Nat \ {0} /\ PathOf(n)[1] = Root
          /\ Len(PathOf(n)) > 1 /\ PathOf(n)[2] = Root =>
                 Len(SegmentsOf[n]) > 1 /\ SegmentsOf[n][2] = Root
      BY <2>1, PathFacts
    <3>3. /\ Len(p) \in 1..Len(PathOf(n)) /\ \A i \in 1..Len(p) : p[i] = PathOf(n)[i]
          /\ Len(p) > 1 => Front(p) \in PrefixesOf(PathOf(n))
      BY <3>1, <3>2, PrefixFacts
    <3>4. n \in Below(p)
      BY <3>1 DEF Below
    <3>5. p[1] = Root /\ (Len(p) > 1 => p[2] = PathOf(n)[2] /\ Len(PathOf(n)) > 1)
      BY <3>2, <3>3
    <3>6. Len(p) > 1 => Front(p) \in PathsOf(Known)
      BY <3>3 DEF PathsOf
    <3>7. QED
      BY <3>2, <3>4, <3>5, <3>6
  <2>4. QED
    BY <2>1, <2>2, <2>3
<1>2. QED
  BY <1>1, TreeInvariance, PTL

(* At any depth, a group nobody reports for has the worst level below it.  *)
THEOREM GroupsAreWorst == TreeSpec => []GroupIsWorst
<1>1. TreeInv => GroupIsWorst
  <2> SUFFICES ASSUME TreeInv, turn = 0, NEW p \in DOMAIN published, At(p) = {}
               PROVE  published[p].level = Max({states[n] : n \in Below(p)})
    BY DEF GroupIsWorst, Complete
  <2> DEFINE levels == {states[n] : n \in Below(p)}
             level == published[p].level
  <2>1. Worst(Known, p, level)
    BY DEF TreeInv, Reports
  <2>2. level \in levels /\ \A x \in levels : x <= level
    BY <2>1 DEF Worst, Below
  <2>3. levels \in SUBSET Int
    <3>1. \A n \in Known : states[n] \in StatusLevels
      BY DEF TreeInv, TreeTypeOK, Known
    <3>2. \A l \in StatusLevels : l \in Int
      BY PathLevelsAssumption
    <3>3. QED
      BY <3>1, <3>2 DEF Below
  <2> HIDE DEF levels, level
  <2>4. Max(levels) = level
    BY <2>2, <2>3, MaxIs
  <2>5. QED
    BY <2>4 DEF levels, level
<1>2. QED
  BY <1>1, TreeInvariance, PTL

(* A node whose path no other has is shown with its own level.             *)
THEOREM LeavesAreFaithful == TreeSpec => []LeafIsFaithful
<1>1. TreeInv => LeafIsFaithful
  <2> SUFFICES ASSUME TreeInv, turn = 0, NEW n \in Known, At(PathOf(n)) = {n}
               PROVE  PathOf(n) \in DOMAIN published /\ published[PathOf(n)].level = states[n]
    BY DEF LeafIsFaithful, Complete
  <2>1. PathOf(n) \in PrefixesOf(PathOf(n))
    <3>1. n \in Range(Names)
      BY DEF Known
    <3>2. PathOf(n) \in Seq(STRING) /\ Len(PathOf(n)) > 0
      BY <3>1, PathFacts
    <3>3. QED
      BY <3>2, PrefixesOfAPath
  <2>2. PathOf(n) \in PathsOf(Known)
    BY <2>1 DEF PathsOf
  <2>3. QED
    BY <2>2 DEF TreeInv, Reports
<1>2. QED
  BY <1>1, TreeInvariance, PTL
=============================================================================
