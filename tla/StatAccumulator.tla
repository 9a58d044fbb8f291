-------------------------- MODULE StatAccumulator ---------------------------
(***************************************************************************)
(* The accumulator of high-rate metrics (stats_accumulator.h, and          *)
(* stats_accumulator.py which mirrors it): update() folds a sample into a  *)
(* count, a minimum, a maximum and a ring of the newest samples, flush()   *)
(* reports them with percentiles and resets.                               *)
(*                                                                         *)
(* Both are cut at their accesses to the shared fields, so that the same   *)
(* actions serve one thread calling both and, with TwoThreads, a loop that *)
(* updates while a timer flushes: the fields are plain doubles and         *)
(* integers and no lock is taken.  Mean, deviation and rms are floating    *)
(* point and left out.                                                     *)
(***************************************************************************)
EXTENDS Integers, Sequences, FiniteSets, Functions

CONSTANTS
    Values,         \* the samples, whole numbers
    Largest,        \* the largest double: where the minimum starts
    Cap,            \* percentile_capacity
    TwoThreads,     \* update() and flush() run in different threads
    PassesTime,     \* the caller gives flush() the time; otherwise it is 0
    Warnings,       \* warning_thresholds() and error_thresholds(): the limits
    Errors,         \* of the peaks and of the count
    MaxUpdates,     \* bound: samples over a behaviour
    MaxTime         \* bound: the clock

Limits == [peakMin : Int, peakMax : Int, countMin : Int, countMax : Int]

ASSUME AccumulatorAssumption ==
    /\ Largest \in Nat /\ Values \subseteq (-Largest)..Largest /\ Values # {}
    /\ Cap \in Nat
    /\ TwoThreads \in BOOLEAN /\ PassesTime \in BOOLEAN
    /\ Warnings \in Limits /\ Errors \in Limits
    /\ MaxUpdates \in Nat /\ MaxTime \in Nat

VARIABLES
    updater,        \* where update() is, its argument and the value it loaded
    flusher,        \* where flush() is
    count, low, high, ring, writeIdx, initialTime,      \* the fields
    stats,          \* the Stats flush() is building, or built last
    clock,
    added,          \* history: samples since the last report
    lastWindow,     \* history: the samples the last report is about
    total, reported,    \* history: samples added, samples reported
    flushedAt       \* history: the clock at the last flush, 0 before

vars == <<updater, flusher, count, low, high, ring, writeIdx, initialTime, stats, clock,
          added, lastWindow, total, reported, flushedAt>>
fields == <<count, low, high, ring, writeIdx, initialTime>>
history == <<added, lastWindow, total, reported, flushedAt>>

NoPercentiles == <<0, 0, 0>>
Blank == [count |-> 0, low |-> 0, high |-> 0, pct |-> NoPercentiles, duration |-> 0]
Smaller(a, b) == IF a < b THEN a ELSE b

TypeOK ==
    /\ updater \in [pc : {"idle", "loaded", "counted", "ranged", "indexed"},
                    x : Values, reg : 0..MaxUpdates]
    /\ flusher \in {"idle", "range", "percentiles", "reset", "reset range", "reset ring"}
    /\ count \in 0..MaxUpdates
    /\ low \in Values \union {Largest} /\ high \in Values \union {-Largest}
    /\ ring \in [0..(Cap - 1) -> Values \union {0}]
    /\ writeIdx \in 0..MaxUpdates
    /\ {initialTime, clock, flushedAt} \subseteq 0..MaxTime

Init ==
    /\ updater \in [pc : {"idle"}, x : {CHOOSE v \in Values : TRUE}, reg : {0}]
    /\ flusher = "idle"
    /\ count = 0 /\ low = Largest /\ high = -Largest
    /\ ring = [i \in 0..(Cap - 1) |-> 0]
    /\ writeIdx = 0 /\ initialTime = 0
    /\ stats = Blank
    /\ clock = 0
    /\ added = <<>> /\ lastWindow = <<>>
    /\ total = 0 /\ reported = 0 /\ flushedAt = 0

-----------------------------------------------------------------------------
(* update(x)                                                               *)

(* ++_n reads the count ...                                                *)
BeginUpdate(x) ==
    /\ updater.pc = "idle"
    /\ TwoThreads \/ flusher = "idle"
    /\ total < MaxUpdates
    /\ updater' = [pc |-> "loaded", x |-> x, reg |-> count]
    /\ total' = total + 1
    /\ added' = Append(added, x)
    /\ UNCHANGED <<flusher, fields, stats, clock, lastWindow, reported, flushedAt>>

(* ... and writes it back.                                                 *)
StoreCount ==
    /\ updater.pc = "loaded"
    /\ count' = updater.reg + 1
    /\ updater' = [updater EXCEPT !.pc = "counted"]
    /\ UNCHANGED <<flusher, low, high, ring, writeIdx, initialTime, stats, clock, history>>

Widen ==
    /\ updater.pc = "counted"
    /\ low' = Smaller(low, updater.x)
    /\ high' = IF updater.x > high THEN updater.x ELSE high
    /\ updater' = [updater EXCEPT !.pc = IF Cap > 0 THEN "ranged" ELSE "idle"]
    /\ UNCHANGED <<flusher, count, ring, writeIdx, initialTime, stats, clock, history>>

(* _buf[_write_idx++ % _cap] = x: the index is advanced ...                *)
AdvanceIndex ==
    /\ updater.pc = "ranged"
    /\ writeIdx' = writeIdx + 1
    /\ updater' = [updater EXCEPT !.pc = "indexed", !.reg = writeIdx]
    /\ UNCHANGED <<flusher, count, low, high, ring, initialTime, stats, clock, history>>

Slot_NoWrap(index) == index
Slot(index) == index % Cap

(* ... and the slot it pointed to overwritten, whether the ring has it or  *)
(* not.                                                                    *)
StoreSample ==
    /\ updater.pc = "indexed"
    /\ ring' = [i \in DOMAIN ring \union {Slot(updater.reg)} |->
                    IF i = Slot(updater.reg) THEN updater.x ELSE ring[i]]
    /\ updater' = [updater EXCEPT !.pc = "idle"]
    /\ UNCHANGED <<flusher, count, low, high, writeIdx, initialTime, stats, clock, history>>

-----------------------------------------------------------------------------
(* flush(time_ns)                                                          *)

FlushTime_Default == 0
FlushTime == IF PassesTime THEN clock ELSE 0

BeginFlush ==
    /\ flusher = "idle"
    /\ TwoThreads \/ updater.pc = "idle"
    /\ flusher' = "range"
    /\ stats' = [Blank EXCEPT !.count = count, !.duration = FlushTime - initialTime]
    /\ UNCHANGED <<updater, fields, clock, history>>

ReportRange ==
    /\ flusher = "range"
    /\ stats' = IF count > 0 THEN [stats EXCEPT !.low = low, !.high = high] ELSE stats
    /\ flusher' = IF Cap > 0 /\ writeIdx > 0 THEN "percentiles" ELSE "reset"
    /\ UNCHANGED <<updater, fields, clock, history>>

(* std::sort and sorted(): the arrangement that ascends.                   *)
Arrangements(s) == {[i \in DOMAIN s |-> s[f[i]]] : f \in Bijection(DOMAIN s, DOMAIN s)}
Ascending(s) == \A i, j \in DOMAIN s : i < j => s[i] <= s[j]
Sorted(s) == CHOOSE t \in Arrangements(s) : Ascending(t)

(* The slots in use are sorted and read at q * (n - 1), rounded down.      *)
InUse_AllSlots == Cap
InUse == Smaller(writeIdx, Cap)
Index(percent, n) == (percent * (n - 1)) \div 100
ReportPercentiles ==
    /\ flusher = "percentiles"
    /\ LET sorted == Sorted([i \in 1..InUse |-> ring[i - 1]])
       IN  stats' = [stats EXCEPT !.pct = [i \in 1..3 |->
                        sorted[1 + Index(<<5, 50, 95>>[i], InUse)]]]
    /\ flusher' = "reset"
    /\ UNCHANGED <<updater, fields, clock, history>>

AfterReset_Kept == count
AfterReset == 0

Reset ==
    /\ flusher = "reset"
    /\ count' = AfterReset
    /\ flusher' = "reset range"
    /\ UNCHANGED <<updater, low, high, ring, writeIdx, initialTime, stats, clock, history>>

ResetRange ==
    /\ flusher = "reset range"
    /\ low' = Largest /\ high' = -Largest
    /\ flusher' = "reset ring"
    /\ UNCHANGED <<updater, count, ring, writeIdx, initialTime, stats, clock, history>>

ResetRing ==
    /\ flusher = "reset ring"
    /\ writeIdx' = 0
    /\ initialTime' = FlushTime
    /\ flusher' = "idle"
    /\ reported' = reported + stats.count
    /\ lastWindow' = added /\ added' = <<>>
    /\ flushedAt' = clock
    /\ UNCHANGED <<updater, count, low, high, ring, stats, clock, total>>

(* The clock moves between calls.                                          *)
Tick ==
    /\ updater.pc = "idle" /\ flusher = "idle"
    /\ clock < MaxTime
    /\ clock' = clock + 1
    /\ UNCHANGED <<updater, flusher, fields, stats, history>>

(* StatsPublisher and Ros2StatsPublisher give every report a level: the    *)
(* error thresholds are compared first.                                    *)
Exceeds(report, limits) ==
    \/ report.high > limits.peakMax \/ report.low < limits.peakMin
    \/ report.count > limits.countMax \/ report.count < limits.countMin

LevelOf_WarningsFirst(report) ==
    IF Exceeds(report, Warnings) THEN 1 ELSE IF Exceeds(report, Errors) THEN 2 ELSE 0
LevelOf(report) ==
    IF Exceeds(report, Errors) THEN 2 ELSE IF Exceeds(report, Warnings) THEN 1 ELSE 0

UpdateStep == (\E x \in Values : BeginUpdate(x)) \/ StoreCount \/ Widen \/ AdvanceIndex \/ StoreSample
FlushStep == BeginFlush \/ ReportRange \/ ReportPercentiles \/ Reset \/ ResetRange \/ ResetRing

Next == UpdateStep \/ FlushStep \/ Tick

Spec == Init /\ [][Next]_vars

-----------------------------------------------------------------------------
(* Properties.                                                             *)

Quiescent == updater.pc = "idle" /\ flusher = "idle"

(* Every sample is reported by exactly one flush: "Call update() from your *)
(* kHz loop, flush() from a low-rate diagnostics timer".                   *)
CountsAddUp == Quiescent => reported + count = total

(* The reference: the newest Cap samples of a window, and the value that   *)
(* is at an index of them once sorted, found by counting.                  *)
Newest(w) == IF Len(w) <= Cap THEN w ELSE SubSeq(w, Len(w) - Cap + 1, Len(w))
Ranked(s, k, v) ==
    /\ Cardinality({i \in DOMAIN s : s[i] < v}) <= k
    /\ k < Cardinality({i \in DOMAIN s : s[i] <= v})

(* A report is what the samples since the previous one say, however often  *)
(* the ring has wrapped and whatever earlier windows left in it.           *)
ReportIsExact ==
    Quiescent =>
        LET w == lastWindow  newest == Newest(w) IN
        /\ stats.count = Len(w)
        /\ w # <<>> =>
            /\ \A i \in DOMAIN w : stats.low <= w[i] /\ w[i] <= stats.high
            /\ \E i, j \in DOMAIN w : w[i] = stats.low /\ w[j] = stats.high
        /\ newest # <<>> =>
            \A i \in 1..3 : Ranked(newest, Index(<<5, 50, 95>>[i], Len(newest)), stats.pct[i])

(* A published level is about its own window: it is ERROR exactly when a   *)
(* sample of the window, or how many there are, is beyond the error        *)
(* limits, and WARNING when only the warning limits are crossed.  An       *)
(* earlier window's spike never raises the level of a later one, and       *)
(* narrower error limits are not hidden by a warning.                      *)
Crossed(w, limits) ==
    \/ \E i \in DOMAIN w : w[i] > limits.peakMax \/ w[i] < limits.peakMin
    \/ Len(w) > limits.countMax \/ Len(w) < limits.countMin
LevelIsOfItsWindow ==
    Quiescent /\ lastWindow # <<>> =>
        /\ LevelOf(stats) = 2 <=> Crossed(lastWindow, Errors)
        /\ LevelOf(stats) = 0 <=> ~Crossed(lastWindow, Errors) /\ ~Crossed(lastWindow, Warnings)

(* From the second window on, the duration a flush reports is the time     *)
(* since the previous flush.                                               *)
DurationIsElapsed ==
    [][flusher = "reset ring" /\ flushedAt > 0 => stats.duration = clock - flushedAt]_vars
=============================================================================
