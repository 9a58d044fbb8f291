----------------------------- MODULE InfluxSink -----------------------------
(***************************************************************************)
(* InfluxDBSink: handle_message buffers a point, publish_state writes the  *)
(* buffer as one batch, at most once per _FLUSH_INTERVAL_SEC, and close    *)
(* writes what is left.  A write that fails drops its batch: the buffer is *)
(* emptied before the write, so both leave the sink in the same state.     *)
(***************************************************************************)
EXTENDS SinkBoard, Throttle, Sequences

CONSTANT FlushInterval  \* _FLUSH_INTERVAL_SEC, in ticks

ASSUME FlushAssumption == FlushInterval \in Nat \ {0}

VARIABLES
    open,           \* close() has not been called
    pending,        \* _pending; a point is its number, see owed
    sinceFlush,     \* age of _last_flush
    sinceOldest,    \* history: age of the oldest pending point
    newest,         \* history: level of the newest pending point, or None
    owed            \* history: points handled and neither written nor lost
                    \* with a batch; a new point gets the next number

bufferVars == <<open, pending, sinceFlush, sinceOldest, newest, owed>>

MaxWait == FlushInterval + Deadline
BufferAged(age, limit) == IF age < limit THEN age + 1 ELSE age

BufferTypeOK ==
    /\ open \in BOOLEAN
    /\ pending \in Seq(Nat)
    /\ sinceFlush \in 0..(FlushInterval + 1)
    /\ sinceOldest \in 0..MaxWait
    /\ newest \in Levels \union {None}
    /\ owed \in Nat

(* _last_flush starts at 0 on the monotonic clock: some age, large or not. *)
BufferInit ==
    /\ open = TRUE
    /\ pending = <<>>
    /\ sinceFlush \in 0..(FlushInterval + 1)
    /\ sinceOldest = 0
    /\ newest = None
    /\ owed = 0

Keep_Newest(points) == IF points = <<>> THEN <<>> ELSE <<points[Len(points)]>>
Keep(points) == points

AfterFlush_Kept(points) == points
AfterFlush(points) == <<>>

(* _flush, on the buffer as handle_message left it.                        *)
Flush(points, due, level) ==
    IF points # <<>> /\ MayPublish(sinceFlush, FlushInterval)
    THEN /\ pending' = AfterFlush(points)
         /\ owed' = due - Len(points)
         /\ sinceFlush' = 0
         /\ sinceOldest' = 0
         /\ newest' = None
         /\ UNCHANGED open
    ELSE /\ pending' = Keep(points)
         /\ owed' = due
         /\ newest' = level
         /\ sinceOldest' = IF pending = <<>> THEN 0 ELSE sinceOldest
         /\ UNCHANGED <<open, sinceFlush>>

(* handle_message, then publish_state.                                     *)
BufferAndFlush(level) == Flush(Append(pending, owed + 1), owed + 1, level)

(* publish_state, after a stale check.                                     *)
FlushOnly == Flush(pending, owed, newest)

(* close(): a last write, whatever the time of the previous one.           *)
LastBatch_Throttled == IF MayPublish(sinceFlush, FlushInterval) THEN pending ELSE <<>>
LastBatch == pending

CloseBuffer ==
    /\ open' = FALSE
    /\ owed' = owed - Len(LastBatch)
    /\ UNCHANGED <<pending, sinceFlush, sinceOldest, newest>>

BufferTick ==
    /\ sinceFlush' = BufferAged(sinceFlush, FlushInterval + 1)
    /\ sinceOldest' = BufferAged(sinceOldest, MaxWait)
    /\ UNCHANGED <<open, pending, newest, owed>>

-----------------------------------------------------------------------------
(* Properties.                                                             *)

(* The points that wait are all those handled and neither written nor lost *)
(* with their batch, each once and in the order they were handled in; once *)
(* the sink is closed there are none.                                      *)
EachPointOnce ==
    IF open THEN pending = [i \in 1..owed |-> i] ELSE owed = 0

(* There is no flush timer: points are flushed by later messages and by    *)
(* stale marks.  They wait for longer than a flush interval and the time   *)
(* it takes to notice a silent node only when no node is left that either  *)
(* could come from, each being STALE or never heard of; and then either    *)
(* the newest of them reported STALE itself, which is never marked         *)
(* (aggregator.py, _mark_stale_nodes), or the timeout is shorter than the  *)
(* interval, and the last mark came too soon after a flush.                *)
NoneForgotten ==
    open /\ pending # <<>> /\ sinceOldest >= MaxWait =>
        /\ \A n \in Nodes : board[n] \in {Board!Stale, None}
        /\ newest = Board!Stale \/ Timeout + 1 < FlushInterval
=============================================================================
