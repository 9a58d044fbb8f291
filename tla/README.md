# A formal model of xbot2_diagnostics

TLA+ modules that model the diagnostics pipeline of this repository, the TLC
configurations that check them on small instances, and proofs, checked by TLAPS,
of the theorems that hold for every instance.

- [The system](#the-system): the inventory of its parts
- [Modules](#modules): which module models which part, and how
- [Runs](#runs): what TLC checks, within which bounds, and what it shows
- [What does not hold](#what-does-not-hold): the disagreements found
- [Theorems](#theorems): what is proved and how
- [Not modelled](#not-modelled) and the [plan](#plan)

Paths below are those of the repository; `agg/` stands for
`python/src/pyxbot2_diagnostics/aggregator/` and `host/` for
`python/src/pyxbot2_diagnostics/host_monitor/`.

## The system

    C++ control loop            host monitor (Python)         ROS nodes
     StatAccumulator             collectors                      |
     StatsPublisher              HealthEvaluator                 | /diagnostics
          |                       DiagPublisher                  |
          |  ZMQ PUSH                  |  ZMQ PUSH               |
          +-------------> aggregator <-+-------------------------+
                          state_cache, stale check
                               |
              +----------+-----+------+------------+
           InfluxDB   JSON file    stdout   ROS /diagnostics_agg

| Part | State it keeps | Operations | What is hard | Correct when |
|---|---|---|---|---|
| Aggregator loop, `agg/aggregator.py` | `state_cache`, `_last_seen`, `_last_stale_check`, `_running` | `run`, `poll_once`, `process_message`, `_mark_stale_nodes`, `_publish_state`, `stop`, `close` | messages, time, signals and exceptions come between any two of its steps | a node is STALE when and only when it is silent, every sink is given every change, a stop closes everything |
| ZMQ and ROS sources | socket queue, subscription history, the arrays of one callback | `poll`, `close` | bounded queues, malformed frames, one starving the other | a queued frame is processed |
| InfluxDB sink | `_pending`, `_last_flush` | `handle_message`, `publish_state`, `_flush`, `close` | failed writes, no timer | a point is written at most once, in order, and not forgotten |
| JSON file sink | the file and its backup | `handle_message`, `_roll_if_needed` | the process dies between two calls or in a line | the recent end of the log is on the disk |
| ROS and stdout sinks | instant of the last publication | `publish_state` | withheld states, no timer | what is shown is at most an interval old; a group shows its worst node |
| Publishers, `publisher.h`, `ros2_publisher.h`, `publisher.py` | `_last_publish_time`, the socket | `publish`, `publish_stats`, `update_and_publish` | two checks of the limit, refused sends, NaN, reconnections | no window of samples vanishes, the limit is kept, a live publisher is not silent |
| Accumulator, `stats_accumulator.h`, `.py` | count, range, ring, write index, initial time | `update`, `flush`, `reset` | wrap-around, two threads | a report is what the samples of its window say |
| Health evaluator, `host/health.py` | level, candidate and count per alert | `evaluate` | debounce and hysteresis together | levels change for, and always for, a full run of observations |
| Host monitor, `host/monitor.py` | publishers, paths of each collector, deadline, `_running` | `run`, `sample_once`, `_handle_collector_error`, `stop`, `close` | failing and slow collectors, signals | collectors do not disturb each other, the interval is kept |
| Collectors, `host/collectors.py` | previous counters and their instant, "unsupported" latches, the child process | `sample` | commands that are late, missing or hang; interfaces and quantities that come and go | no child survives its call, a pass is bounded, exceptions are told, a rate spans the time it divides by |
| Configuration, `agg/config.py`, `host/config.py` | none | load and validate, build sources, sinks and collectors | one half of a pair given and the other a default | what loads is what the other parts assume |
| Schema, tegrastats and Xenomai parsers | none | pure functions | - | pure data |

The parts talk by messages only: a publisher pushes frames, the aggregator pulls
them, and its sinks are called in its thread. The aggregator and the host monitor
are single-threaded; their concurrency is that of the world around them. The
accumulator is the one part meant to be called from two threads.
`PROJECT.json` lists every part with its status, and under "hazards" the lines
where something can go wrong that a test would hardly reach, with the properties
about each.

## Modules

Conventions. An action is a whole step of the code: its guard is the code's
conditions, its primed variables the code's assignments. Instants are kept as
*ages*, saturating where no comparison of the code can tell larger ones apart; a
`Tick` makes everything older. A variable marked "history" is not in the code: it
remembers what a property talks about. A constant marked "bound" or "assumption"
limits the model, every other constant is a parameter of the code. An operator
named `X_Something` next to an operator `X` is a variant of `X` with one fault in
it; it is used nowhere in the specifications and serves to validate the
properties: with `X` replaced by it, a property must fail.

**`DiagnosticsBoard`** is the abstract specification: one level per node, changed
by a report, or by an expiry after more than `Timeout` of silence, while time
never passes beyond `Deadline` for a silent node that has not expired.

**`Aggregator`** is the loop of `run()` cut where something can happen between
two of its lines. `BeginPass`/`LeaveLoop` is the `while`; `PollZmq` and `PollRos`
are one `poll` each (at most one frame; one callback, hence one array or
nothing); `ProcessMessage`, `HandleMessage` and `PublishState` are
`process_message`, one sink at a time; `StaleCheck` is the tail of `poll_once`;
`SinkRaises` and `SourceRaises` are the exceptions nothing catches; `Close` and
`CloseRaises` are `close()`. The environment delivers frames and arrays into
bounded queues (`ArriveZmq` blocks at the high-water mark, `ArriveRos` loses the
oldest), sends signals (`Stop`) and lets time pass (`Tick`, at most `MaxPass`
between two evaluations of the check). A message is its node and level;
validation is whether a frame is `Malformed`. ROS levels are bytes no schema
checks: the instance includes a node that reports 3 itself.

**`HealthEvaluator`** takes one observation at a time: `Target` is `_target` with
the two directions folded into `Reaches`, `Debounced` the body of the loop of
`evaluate`. Its properties are stated on the values observed (`recent`), not on
`Target`. **`SampleAlerts`** extends it to whole calls, from the observations a
collector puts into a sample to the level `_publish_sample` publishes: `BeginCall`,
`EvaluateAlert` or `Missing` for each quantity of the sample, `Publish`. Quantities
may be missing and two may share a key. `seen` and `recent` are history.
**`HostAlerts`** lists the quantities, keys and thresholds of each collector's samples.

**`CommandCollector`** is a `sample()` of the `gpu` and `tegrastats` collectors, cut at
every call on the child process: `Start`, then `GpuEnds`/`GpuIsLate`, or
`TegrastatsSelect`, `TegrastatsReadline` and the `finally` block (`TegrastatsPoll`,
`TegrastatsWait`, `Reap`), then `Leave` with its latches. The child writes, exits or
hangs as it likes; time passes only while the thread waits. **`CounterRates`** keeps
the age of each reading in its place, so a difference of counters is the time it
spans. **`HostCollectors`** composes them to the passes of the monitor.

**`HostMonitor`** is `run` and `sample_once`: `Sample`/`SampleRaises` for the call
of a collector, `Publish` for each of its samples, `NextCollector` and
`HandleCollectorError` for the tables kept, `EndPass` and `Wake` for the deadline.
The deadline is kept as `ahead`, its distance from now. A `Stop` before `Run` is
possible, and forgotten, as the handlers are installed before `run()` sets
`_running`.

**`Throttle`** is the rate limit the publishers and the rate-limited sinks share
(`MayPublish`), with the two ways of starting and stamping it.
**`StatsPublisher`** is one publisher of any of four kinds (Python, Python with
`immediate=True`, C++ over ZMQ, C++ over ROS 2) with its transport:
`CheckAndFlush`, the second check of the C++ code (`Recheck`), `Transmit`,
`Refuse` or `Raise`, and Python's `Stamp` after the send. An unconnected
`IMMEDIATE` socket refuses, and loses its queue when its peer goes.

**`StatAccumulator`** cuts `update` and `flush` at their accesses to shared
fields: `BeginUpdate` reads the count, `StoreCount` writes it back, and so on. With
`TwoThreads` the two interleave; without, one runs to its end before the other
starts. The ring is a function that grows when a slot outside it is written, as an
index error would; the window's percentiles would then be wrong. `LevelOf` is
`msg_from_stats`: the level the thresholds on peaks and count give a report.

**`Sinks`** composes **`RateLimitedSink`** (ROS and stdout) and **`InfluxSink`** behind
one aggregator, as every sink is handed every change in one call. **`SinkBoard`**
stands for the aggregator by its abstraction, `DiagnosticsBoard`, which it implements
(`BoardSpec` and `SinksCurrent`, both checked and proved). **`JsonFileSink`** models the
file system calls of a roll and an append; a line carries where it ends in the log.
**`PathAggregation`** is a call of `_build_aggregated_statuses`, cut at the iterations of
its loop over the sorted states: `AddState` puts one state into the leaves and the group
levels gathered so far, which are a variable. The properties compare the complete array
with the set of nodes.

**`Settings`** says what a number or switch of a YAML file is to the loaders (absent,
readable or not, NaN), **`HostMonitorConfig`** and **`AggregatorConfig`** are what they
make of a file: the merge with the defaults, the checks, and the lists of collectors,
sources and sinks built from the result. The instances below take their constants
from them.

Modules named `MC...` only give values to constants.

## Runs

Runs that pass:

| Run | Shows |
|---|---|
| `aggregator` | `StaleSound`: only silent nodes are marked. `StaleTimely`: timeout, check interval and one pass of the loop bound how long a dead node looks alive. `SinksCurrent`: outside a publication every sink has the current cache, unless an exception is ending the loop. `BoardSpec`: the cache implements the board. `SilenceIsPublished`: a silent node ends up STALE at every sink. `QueuedIsProcessed`: a queued frame is processed whatever ROS sends. `StopCloses`: a stop ends in a complete close |
| `sample_alerts` | a level rises only for `Consecutive` values past its threshold and falls only for as many clear of the margin (`ChangesAreJustified`); conversely such a run always sets it (`NothingWithheld`). `TroubleIsShown`: the sample that completes such a run is published at its level, whatever its other quantities are and whichever samples they were missing from. `AlarmHasCause`: the level published is owed to a quantity observed in that very sample |
| `monitor` | `ShownIsCurrent`: a path shows how its collector's last call ended. `Paced`: the interval is kept without drift, and an overrun is not made up for by a burst. `CollectorsAreIsolated`: every collector is sampled for ever whatever the others do, unless a path finds no socket for its publisher, which ends the process. `StopEnds`: so does a signal |
| `publishers` | `NothingVanishes`: a flushed window is always sent, refused or raised on, never discarded by the second check. `Spaced`: the limit holds, in C++ up to the age of the captured instant. `NeverSilent`: the silence of an accepted publisher is bounded by `Interval + 3 * CallPeriod` |
| `collectors` | `NoChildSurvives`: no command outlives the call that started it. `PassIsBounded`: the timeouts and one grace bound a pass, unless the code waits without a limit. `RaisedOrGivenUp`: an exception in a command collector is raised, unless its command is missing, fails or is late and never reported; then, and only then, the collector is given up in silence. An answer without values is no exception, see [below](#what-does-not-hold). `RatesSpanTheirTime`: a rate divides by the time its counters were read apart, also after failures and absences |
| `stats_sequential` | `ReportIsExact`: the count, minimum and maximum of a report are those of its window, its percentiles those of the window's newest samples, across wraps and after longer windows. `LevelIsOfItsWindow`: so is its level. `DurationIsElapsed`: durations are elapsed times from the second window on |
| `sinks` | `WithheldIsYoung`: what a rate-limited sink withholds is at most an interval old. `EachPointOnce`: a point is waiting, written or lost, exactly one of them. `NoneForgotten`: none waits longer than a flush interval and the time to a stale mark, unless every node is STALE and the newest point reported that level itself (or the timeout is shorter than the flush interval, which the instance is not). `SilenceIsShown`: while some node goes on reporting, a silent one is shown as STALE in the end |
| `json_sink` | backup and file are the recent end of the log without a hole, at least `MaxBytes` of it; each file is bounded; a crash spoils at most two messages |
| `ros_tree` | the array is a tree with its root once, its groups have the worst level below them, and every node with a path of its own has its own level |

Bounds, and why they are enough:

- `aggregator`: two nodes and two sinks show every relation between nodes and between
  sinks the properties speak of, as none relates three. `arm` reports over ZMQ and
  over ROS, where a level of 3 is let through; ROS arrays hold one status or two, the
  smallest with something left in the batch while a sink raises. Each queue holds one
  frame or array, so that it is always full or empty. Timeout, interval and pass of
  one tick have both sides of each comparison reachable, ages saturating beyond.
- `sample_alerts` has a value in every zone of both directions (below, inside and
  above each threshold and its margin); a window of two is the first to tell a
  count from a flag. It takes every sample of `HostAlerts` but the link's: with
  quantities that are always there or may be missing, published without any or not, and
  two under one key.
- `sinks` has two nodes, so that one can report while the other is silent, both
  intervals longer than the timeout and shorter than the deadline, so that a stale mark
  can come within an interval and after it; and levels that include 3, which the schema
  and the ROS source let through.
- `collectors` has timeouts of one and two ticks, a grace and a delay of one, and passes
  two or three ticks apart, shorter than a pass can be; two interfaces; readings fail for
  up to four ticks in a row, more than a pass.
- The constants of `sample_alerts`, the collectors of `monitor` and the sources and
  number of sinks of `aggregator` come out of a configuration file and the defaults;
  `FilesLoad` has TLC evaluate that the program accepts the two alert files.
- `monitor` has a pass of up to five ticks against an interval of two, so a pass can
  overrun more than two intervals, which a burst needs; a collector of two paths that
  come and go and one of a single path; and one socket less than there are paths.
- `publishers` has an interval of three and calls two apart, so that a call can come
  just before and just after the limit; a queue of one; three samples.
- `stats_sequential` takes six samples of three values through a ring of three: a
  window can wrap twice, and follow a longer or shorter one.
- `json_sink` allows lines of two sizes, so that the threshold can be hit and
  jumped over, enough of them for two rolls, and two crashes.
- `ros_tree` has five names: two siblings below a name that also reports itself, two
  names of one path, and one that starts with the root.

Fairness. `Aggregator` and `HostMonitor`: the process is scheduled (weak fairness
of its next step, whichever it is) and time passes (weak fairness of `Tick`);
nothing is assumed about messages, failures or signals. `Sinks`: the stale check
runs and time passes, which the aggregator's liveness justifies, and some node goes
on reporting (weak fairness of `ReportAny`), which is an assumption about the
deployment that the next section shows to be needed.

`CHECK_DEADLOCK FALSE` is set for `StatAccumulator`, whose owner may simply stop calling
it, and for `JsonFileSink`, where the bounds on lines and crashes are used up.

## What does not hold

Each of these is a run that ends in a counterexample.

- `health_link`: the required-interface alert (`host/collectors.py:509-512`, value 0
  or 1 against 0.5) is under the same margin as percentages (5.0). Once raised it is
  never cleared: 1 is not above 0.5 + 5.
- `stats_race`: the header invites `update()` from the loop and `flush()` from a timer,
  on fields without synchronisation; a sample is reported by no flush or by two.
- `stats_duration`: `StatsPublisher` flushes without the time, its duration is always 0.

Noted without a run:

- `publisher.py` says it mirrors the C++ publisher. With a throttle the C++ one withholds
  what comes within its first interval and Python does not, and they stamp a refused
  message differently (`Throttle` and `StatsPublisher` have both forms).
- The stdout and ROS sinks have no timer: what they withhold is shown with the next change,
  if there is one. Without the fairness of `ReportAny`, `SilenceIsShown` fails: with
  the default values (printing every 10 s, `agg/config.py:52`, staleness after 5 s,
  `agg/config.py:19`) the last node to fall silent may never be printed as STALE.
- The InfluxDB sink flushes at most once a second and when it is called, and has no timer.
  In two cases its last points wait for the close: when the newest of them came from a
  node that reported level 3 itself, which the schema and the ROS source accept and
  the stale check never marks (`agg/aggregator.py:167`), and when `stale_timeout_sec`
  is below that second, which `agg/config.py` accepts, and the last mark comes too soon
  after a flush. `NoneForgotten` names both and says that there is no third; the first
  is reached in the run `sinks`.
- `immediate` sockets of a process that ends at once (`--once`) are not connected yet:
  everything is dropped. A direct `publish()` under a throttle drops an urgent level
  like any other.
- Several publishers on `/diagnostics` share the subscription's history: arrays that
  come between two polls are lost beyond its depth (`ArriveRos`).
- A node that reports at an inner path hides the level of the nodes below it in
  the published array (`agg/sinks/ros_diagnostics_sink.py:137`); `GroupIsWorst` is about
  the groups no node reports at.
- `tests/test_host_monitor_config_health.py:95` says "ERROR first recovers to WARN, then
  WARN recovers to OK", which is what its values do; the evaluator goes from ERROR to
  OK directly when the values are clear of both thresholds, and `ChangesAreJustified`
  allows it.
- Values that alternate between the warning and the error zone restart the count each
  time and never raise an alert; values that alternate between a zone and being clear
  never clear it (`NothingWithheld` is about values of one zone).
- An alert that is not observed keeps its level: a battery that is unplugged after a
  long charge starts with the level it was plugged in with.
- Two quantities of one key, as two sensors of one chip name and label, or the mount
  points `/` and `/root`, are two observations of one alert: a single sample counts
  twice, or the cool one of the two resets the count of the hot one. `TroubleIsShown`
  and `AlarmHasCause` are about keys of one quantity (`OwnKey`). Two Xenomai entries of
  one name likewise share a path.
- `config/host_monitor.yaml:42` says unavailable commands disable themselves. A command
  that may not be executed raises `PermissionError` on every pass instead, and one that
  is available but late on its first call is given up for good (`GivesUp`).
- A command that exits well but writes nothing usable is not a failure to the collectors:
  a tegrastats that dies before its line makes `sample()` return nothing
  (`host/collectors.py:693-695`), also after it has reported, and so does an `nvidia-smi`
  without a row. The monitor then publishes nothing and nothing is logged; the paths only
  turn STALE at the aggregator, where a collector that raises shows a warning.
  `TegrastatsReadline` and `GpuEnds` have these answers (`values` stays `FALSE`).
- The limits on the time of a collector leave out two waits: `readline` for the rest of a
  line, and the wait for a killed child (`Unlimited`). A command that hangs in one
  stops every other collector too.
- A NaN in a configuration file passes both validators, as every comparison with it is
  false. `HostSettingsFit` and `AggregatorSettingsFit` exclude it.

## Theorems

For every value of the constants that satisfies the named assumptions:

| Module | About | Theorems |
|---|---|---|
| `AggregatorProofs` | `Aggregator`, `AggregatorConfig` | `TypeCorrect`, `StaleIsSound`, `StaleIsTimely`, `EverySinkIsCurrent`, `ImplementsBoard`, `AggregatorSettingsFit` |
| `SampleAlertsProofs` | `HealthEvaluator`, `SampleAlerts`, `HostAlerts` | `TypeCorrect`, `OnlyJustifiedChanges`, `NothingIsWithheld`, `CallsImplementEvaluator`, `TroubleIsAlwaysShown`, `AlarmsHaveCauses`, `SensorLimitsAreOrdered` |
| `HostMonitorProofs` | `HostMonitor`, `HostMonitorConfig` | `TypeCorrect`, `PathsAreCurrent`, `PassesArePaced`, `HostSettingsFit` |
| `HostCollectorsProofs` | `HostCollectors`, `CommandCollector`, `CounterRates` | `ChildrenEndWithTheirCall`, `PassesAreBounded`, `FailuresAreRaisedOrGivenUp`, `RatesAreTimed` |
| `StatsPublisherProofs` | `StatsPublisher`, `Throttle` | `NothingIsLost`, `MessagesAreSpaced`, `SilenceIsShort` |
| `StatAccumulatorProofs` | `StatAccumulator` | `ReportsAreExact`, `LevelsAreOfTheirWindow`, `EverySampleIsCounted`, `DurationsAreElapsed` |
| `SinksProofs` | `Sinks`, `RateLimitedSink`, `InfluxSink`, `PathAggregation` | `TheWithheldIsYoung`, `PointsAreWrittenOnce`, `NoPointIsForgotten`, `ArrayIsTree`, `GroupsAreWorst`, `LeavesAreFaithful` |
| `JsonFileSinkProofs` | `JsonFileSink` | `LogHasNoHole`, `EnoughIsKept`, `FilesAreBounded`, `FewAreSpoiled` |

The assumptions are those the modules name at their constants; TLC evaluates each of them
on the instances. Two more assumptions are in the statements themselves: `ReportsAreExact`,
`LevelsAreOfTheirWindow` and `EverySampleIsCounted` assume that one thread calls the accumulator (`~TwoThreads`), as the
run `stats_race` refutes them for two, and `DurationsAreElapsed` that the caller gives
`flush` the time (`PassesTime`), which the run `stats_duration` shows to be needed.
Every module but `AggregatorProofs` and `SampleAlertsProofs` has one inductive invariant,
`IInv`; `StatAccumulator` has another for its clock and the ROS array one of its own. TLC
checked each of them on the instances above before it was proved.

`Aggregator`. `TypeOK` is not enough for any of the others:

- `Control` relates the program counter to the source index, the batch and the sink
  index: a batch is only left while the source it came from is being worked on.
- `Punctual` gives `StaleTimely`: the age of a node that has not been marked is at most
  the timeout plus the age of the last check that looked at it, and that one is bounded
  by the interval plus the age of the last evaluation, which is at most `MaxPass`. The
  deadline itself says nothing of the interval and is not inductive.
- `Publishing` gives `SinksCurrent`: in the middle of a publication the sinks before the
  current one have the cache, and only those.

`ImplementsBoard` maps `cache` to levels and `sinceSeen` to silence. Each action is a
board step or a stutter: `ProcessMessage` a report, `StaleCheck` an expiry of
`Expired` when there is one, `Tick` the passing of time, whose condition is
`Punctual`.

`HealthEvaluator`. `TypeCorrect` is about this module. The count is related to the history by three invariants: `Counted`
(the last `count` observations all called for the candidate), `Maximal` (the one
before did not, so that a full window cannot be overlooked) and `Settled` (what the
present level says of the last window).

`SampleAlerts`. Every step of a call is an observation of the evaluator or leaves it
alone, so its invariants hold of calls, too. `CallInv` adds where the call is (`Placed`),
that what it has seen lies before its turn, so that no key of a single quantity is
observed twice (`Earlier`), that `active` bounds the levels seen (`Bounded`) and is one
of them (`Attained`), and that the message published shows it (`Told`). `Full` says that a
key that is not OK has been observed `Consecutive` times. `Settled` and `Maximal` of the
evaluator then give the level of a full run, and `Bounded` and `Told` carry it to the
message. `SensorLimitsAreOrdered` discharges the evaluator's assumption on thresholds
for a sensor with limits of its own.

`HostMonitor`. `Paced` compares the age of a pass with the interval, which says nothing of
the deadline the code works with. `Timing` relates the two: from the start of a pass to the
end of its sleep, the age of the pass and the distance of the deadline add up to the
interval, less the delay the pass began with, and that is at most one overshoot. An overrun
moves the deadline to now, so no burst follows. `ShownIsCurrent` follows from `Showing`
(every collector but the one under way shows its last call, and is remembered with the
paths of its last sample) and `Present` (what of the call under way is shown so far).

`HostCollectors`. `Position`: where the thread is determines whose call it is in and
whether a child may be alive; the `finally` block is the only way out of a read, so no child
is alive when `sample()` is left, however it is left. `Budget`: what the pass has spent before the call
it is in, and in that call, never exceeds the limits that are over by then. `Latched`: the
latch of the code is set when and only when the collector has succeeded once, and `Calling`: one that was given up is not called. `Dated`: a
reading was taken during the pass its instant is the start of, so two of them are as far
apart as their instants up to the delay.

`StatsPublisher`. `Held`: a window is between flush and fate only while it is being
published. `Permitted`: once the limit has allowed a publication it goes on allowing it
until this thread records another instant, as time only passes; so the second check of the
C++ code never discards a window that has been flushed, though it reads the clock anew.
`Recorded` relates the instant in use to the last message accepted, and `Prompt` what the
owner has waited to the time since.

`StatAccumulator`. `Gathered`: the fields hold the number and the extremes of the samples of
the window, less the sample `update` has counted but not folded in. `Reporting` follows
the fields through the steps of `flush` and `reset`, and `Counted` the samples into the
reports. `Alone` is the mutual exclusion of a single thread they rest on. `Measured`
needs none of it: the initial time is only touched by `flush`. The percentiles need two
more. `Kept`: the write index is the number of samples stored, and each of the newest is
in the slot of its own index, as indices less than the capacity apart have different slots
(`SlotsDiffer`). So the slots in use are a permutation of the newest samples
(`SlotsAreNewest`), and `Sampled` carries what is read from them to the report. Sorting is
the choice of an ascending arrangement. That there is one needs no induction: the ranks of
the elements, ties broken by place, are a permutation, and its inverse sorts
(`SortExists`). What is at a place of it has that rank in every arrangement, by counting
(`SortedIsRanked`).

`Sinks`. `Withheld`: a state is only withheld within the interval of the one shown.
`NoneForgotten` is about a sink that has no clock of its own. Every node that is not STALE
is one (`Reminded`): its last report flushed, or found the oldest point younger than the
interval, so that point is no older than the interval and the node's silence, which is below
the deadline of the board. So points wait longer only when every node is STALE. `Clocked`
says when that cannot be: if the newest point is from a node that was not STALE, some node
has reported since the last flush and is not STALE yet; marking it will flush if the timeout
covers the interval. Neither levels nor times are restricted. `PointsAreWrittenOnce`
is proved from the same invariant.

`PathAggregation`. During the loop the tree gathers the states visited so far (`Gathers`):
its paths are exactly the prefixes of theirs, a group is the worst of the levels below, a
leaf the level of one of the nodes at its path. `AddGathers` is the step of one more name, on
the lemmas about paths, prefixes and maxima. Between two calls the array `Reports` all states,
from which the three properties follow. The order of the names decides nothing but
which of two nodes of one path is shown.

`JsonFileSink`. `Log`: the two files are two stretches of the log that meet, and the last one
ends with it. A line carries its end, so the size of a
stretch is a difference and needs no sum. `Full` (a file is only renamed when it is full) gives
`EnoughKept`, `Bounded` that only the last line crosses the maximum, and `Spoils` counts two
messages for each crash, less the one that a line still torn at the end has yet to spoil.

Configuration. A setting that can be read and is no NaN is a number (`TakenIsNumber`),
whether given or default; the checks on the merged settings then give what
`ThresholdAssumption`, `DebounceAssumption` and the assumptions of the other modules ask.

Only model-checked is liveness (`SilenceIsPublished`, `QueuedIsProcessed`, `StopCloses`,
`CollectorsAreIsolated`, `StopEnds`, `SilenceIsShown`), as fairness and ENABLED are out of
the prover's reach. Every other property of a run that passes is a theorem.

## Not modelled

- JSON schema validation: a pure function of one frame, whose outcome is in `Malformed`.
  Of the configuration, reading YAML, environment variables, texts and lists.
- Text: summaries, messages, JSON, line protocol, ROS key-values; the tegrastats and
  Xenomai parsers.
- The values psutil, `/proc` and the commands give, and the system and Xenomai
  collectors, which only pass them on and keep nothing. `HostCollectors` leaves the
  battery collector out of a pass, too: it keeps nothing and does not wait; its alerts are
  in `HostAlerts`.
- Floating point: mean, deviation and rms, thresholds on them, and rates.
- Steps of the wall clock (`time.time` in the aggregator and in the stdout sink): ages
  cannot go backwards.
- Passes of the aggregator longer than its stale timeout, as a blocked HTTP write may
  cause. `MaxPass` bounds a pass; with a long one a node whose frames are queued is
  marked STALE.
- Deployment: launch files, services, Docker, scripts. Profiling programs: they measure
  time and keep no state.

## Plan

Modules are written so that they can be proved about: constants with named assumptions,
one action per operation, invariants as conjunctions of named parts, and no RECURSIVE
operator anywhere.

1. Done: the aggregator with its board; evaluator, monitor, publishers, accumulator and
   sinks; the collectors, calls of `evaluate`, and configuration; the composition of
   the sinks behind one board; the proofs of every safety property the passing runs
   check.
2. Left: an abstract specification of a publisher that the C++ and Python kinds both
   implement, and of the log `JsonFileSink` keeps the end of; safety facts behind the
   liveness properties (a stopped loop closes everything it has, in the order of the code),
   stated and proved on their own.
