# Verification of the IoT anomaly-detection pipeline

TLA+ models of the Flink job under `src/src/main/java/com/leejean`, of the Python scripts that prepare and check it
(`src/eda`, `src/m5a`, `src/m5b`, `src/m6a`, `src/m7`), model-checked with TLC and, for seven of its parts, proved
with TLAPS.  Times are event-time seconds unless stated otherwise; Java paths below are relative to that directory.

## 1. The system

A fleet of devices sends raw readings to Kafka (in this repository: a replayer of recorded CSV files).  One Flink job
(`m2/M2Job`) turns them into rounds, normalizes them, and runs two detectors per device; drift layers watch the
detectors and a fleet-level decision operator issues alerts and adaptation commands, which come back to the normalizer
through a command topic.  Most layers exist twice: online in Java, and as a Python script over whole files that
serves as their reference.

```
files -> replayer -> RawLineParser -> RoundAssembler -> RawCache -> AdaptiveScaler(RobustScaler) <- commands
  |                                                                    |                             ^
  +-> run_eda (aggregates)                                          M2Gate -> windows -> Pmcod(MCOD) |
  +-> m5a/m6a/m7_extract (rounds, hours, days)                                             |         |
                                                                    M3Operator(M3Function) |         |
                                                                     |  M3TrainExecutor    |         |
                                                                  M5a, M5b  -------------------->    M7
```

All operators are keyed by device (or a surrogate key for load balance) and process one event at a time in the
task's mailbox.  What interleaves is: the inputs of an operator, event-time and processing-time timers, watermarks,
the threads of the training pool, checkpoints and restarts; and in the scan, a pool of worker processes over a data
directory that may change.  Sinks are at-least-once.

| Component | State | Operations | What is hard | What makes it correct |
|---|---|---|---|---|
| M3 phase machine (`m3/M3Function`) | phase, count, segments, buffer with size and head, task id, failures, model, one timer chain (keyed, checkpointed) | round, timer, apply or retry a training, buffer, drain, score | rounds arriving in every phase; retries; overflow; restart in the middle of a training or a drain | rounds scored once, in order; buffer bounded; one timer chain; training data never lost or mixed |
| M3 executor (`m3/M3TrainExecutor`) | result slots, shared thread pool (transient) | submit, poll, run, close | threads finish at any time; stale results | a device only ever gets the result of the task it waits for |
| M3 operator (`m3/M3Operator`) | hold map, input and emitted watermark (transient) | watermark, forward, restore | output older than an emitted watermark is late downstream | the emitted watermark stays below everything still buffered, and is released at the end |
| Adaptive scaler (`m1/AdaptiveScalerFunction`, `m6/*`) | raw cache, pending commands, version, backfill, timers | round, command, timer, level 0 | two streams; late, repeated and superseded commands; restart | which version and parameters a round gets is a matter of event time only |
| Robust scaler (`m1/RobustScalerFunction`, `m6a/reestimate.py`) | counts, samples, parameters | warm-up, freeze, normalize, install | hand-over from warm-up to commands; eviction from the cache | parameters are those the reference computes from the whole table |
| Point channel (`m2/M2Gate`, windows, `m2/PmcodFunction`) | window contents, MCOD state, version | admit, slide, version switch, cold start | two versions meeting in a window | a window is judged under one normalization, complete and without leftovers |
| MCOD (`m2/McodCore`) | unclustered points, micro-clusters, neighbour counts | insert, expire, dissolve, reinsert | incremental counts | same outliers as the naive detector |
| Raw cache and repeat guard (`m1/RawCacheFunction`, `RepeatRunGuard`, `eda/repeat_run_lengths.py`) | last timestamp, run lengths per channel | mark cold starts and stuck readings | runs across gaps and missing readings; thresholds measured elsewhere | what the guard marks is what the measuring script would count |
| Round assembly (`m1/RoundAssembler`) | partial rounds, timers | reading, close | out-of-order, duplicate, late readings | the rounds are those of the files, as long as the disorder stays in its tolerance |
| Replayer (`source/CsvKafkaReplayer`, `Injector`) | merge, carry-over buffer, offset file | send, save, stop, resume | order across files; stop at any row | a resumed replay sends what the files hold |
| M5b (`m5b/*`) | OPTWIN windows and sums, gate, hour buckets, fallback timer | element, hour close, gate check | persistence check across alarms; hour without elements | a check concludes once; the same events as the offline script |
| M5a (`m5a/*`) | bins, references, day state, bursts | round, day close, version change | the day's end against late rounds and new references | the same day records, transitions and bursts as the offline scripts |
| Fleet decision (`m7`) | evidence per device, cooldowns, ticks | assemble, alert tick, command tick | order of six streams before one tick; restart | decisions depend on event time only; one command per cooldown |
| Dataset scan (`eda/run_eda.py`, `eda/edalib`) | cache of payloads, aggregate | scan, cache, merge, report | workers return in any order; files change; interruption | every file is counted once and as it is now; the figures do not depend on the order |
| Monitoring, tools, offline runners, deployment scripts | counters, files | - | - | outside the models, see section 7 |

The hazards of `PROJECT.json` give the line where each of these bites.

## 2. Modules

| Module | Models | Notes |
|---|---|---|
| `M3AsyncTraining` | `M3Function`, `M3TrainExecutor`, `M3Operator` composed on one subtask | one action per handler, training threads and restarts interleave |
| `OrderedScoring` | what the context channel promises | abstract: per-device queues and a watermark that holds for them |
| `M3AsyncTrainingProofs` | theorems about `M3AsyncTraining` | TLAPS |
| `FiniteSums` | lemmas that all proofs share: induction on numbers, sums over finite sets | TLAPS |
| `MCM3` | instances of the above, refinement mapping | |
| `AdaptiveScaler` | `AdaptiveScalerFunction` with `RobustScalerFunction`, `CompactCache`, the cold-start mark of `RawCacheFunction`, the command topic | one device |
| `Reestimation` | `m6a/reestimate.py`: freeze and level 0 over the whole table | functions only |
| `ScalerReference` | the scaler against `Reestimation`; `m6a/compare_online.py` | |
| `AdaptiveScalerProofs` | theorems about `AdaptiveScaler` | TLAPS |
| `MCAdapt` | instances | |
| `PointChannel` | extends `AdaptiveScaler` by `M2Gate`, the sliding windows, `PmcodFunction.slide` | MCOD itself is a set of points |
| `PointChannelProofs` | theorems about `PointChannel` | TLAPS |
| `MCPoint` | instances: commands that keep their contract (`TimelyCommands`), and one that reaches into the warm-up | |
| `NaiveDetector` | `NaiveOutlierOracle`: the outliers of a window by definition | abstract |
| `Mcod` | `McodCore`, `McodState`, `McodPoint` | one device, points of any metric space |
| `McodProofs` | theorems about `Mcod` | TLAPS |
| `MCMcod` | instance on a line, refinement of `NaiveDetector` | |
| `DataDays` | the two-state day machine of M5a | shared by M5a and M7 |
| `FleetDecision` | local days with clock changes; `FleetDecisionFunction` and `m7/decide.py`: alert ticks, decision ticks, books, review | pure functions of inputs and books |
| `FleetInputs` | `m7/prepare_inputs.py` and `M7InputAssembler`: how the inputs come about, twice | |
| `FleetOnline` | `M7DecisionOperator`: six streams, timers, checkpoints, restart | |
| `DayReports`, `FleetReports`, `FleetTiming` | `m5a/run_offline.py`, `m7/report_tables.py`, `m7/scan_time_params.py`, `m7/latency_table.py`, the ablation of layers | tables over finished runs |
| `FleetProofs` | theorems about `FleetOnline` | TLAPS |
| `MCFleet` | scenarios of two devices over five local days | |
| `OptWin` | `m5b/optwin_offline.py`, `OptWinDetector`, `DriftGate` | exact integer arithmetic |
| `DriftStream` | the streams of `M5bFunction` and `M5aCore.element` through detector and gate | |
| `GridReport`, `DriftReports` | `m5b/run_grid.py`, `m5b/prepare_streams.py`; the rate stream in `m5a/run_offline.py` | in one specification with `DayExtract`: one initial state picks a stream or a day plan |
| `DayLayer`, `DayExtract` | `Injector` → guard → scaler → `M5aCore` days; `eda/m5a_extract.py`, `m5a/compare_online.py` | one channel |
| `MCDrift` | instance of `DriftReports` | |
| `DriftProofs` | theorems about `DriftReports` | TLAPS |
| `EdaScan`, `EdaMerge`, `EdaReport`, `EdaRun` | `eda/edalib/*` and `eda/run_eda.py`, from statistics and one line to the report and the worker pool | each extends the one before |
| `EdaProofs` | theorems about `EdaRun` | TLAPS |
| `Replay`, `RoundExtract`, `RepeatRuns` | replayer, parser and assembler; the extraction scripts with their checks of rounds, gaps and days; the repeat-run guard | extend `EdaScan` |
| `DatasetRuns`, `MCEda` | the scan and the replay in one specification; instance | |

**`M3AsyncTraining`.**  `dev[k]` is the keyed state of a device (`phase`, `count`, the window being filled, the
segments, `pending/size/head` of the buffer, `taskId`, `failures`, `model`, number of registered `timers`),
`slot` and `queue` the executor, `hold` the operator's `holdHeadTs`, `inputWm`/`emittedWm` its watermarks.
`ProcessElement` is a round in each phase, `OnTimer` the processing-time timer (poll, then drain, then re-arm,
then forward the watermark, in one handler as in the code), `ProcessWatermark` a watermark from upstream,
`TrainStart`/`TrainEnd` a pool thread.  `CrashAndRestore` brings back what is checkpointed (`ckpt`), drops the
executor and rebuilds the hold map.  `log` is history: what was accepted, scored and emitted.  A model is the data
it was trained on, so "which data" can be asked of every score.

**`AdaptiveScaler`.**  `scaler` is the keyed state plus event-time timers, `wm` the operator's watermark,
`topic`/`off` the command topic and the consumer's offset.  A round is `[ts, missing, guard]` and, in the instance
that looks at values, the readings `x`; parameters are the set of rounds they were estimated from.  `ProcessRound`,
`ProcessWatermark` (with the timers it fires) and `ProcessCommand` are the three entry points.  Executing all due
commands in order is written as executing the last one: each overwrites everything the one before it installed.
`accepted` is history: stored commands, each with whether the watermark of an earlier incarnation had passed it.
`Reestimation` computes medians, scales and reference histograms as exact fractions over a plain channel and Light
(an order-preserving log table with a censoring value); `EstimatesAreExact` compares what the operator installs and
sends with it.  The relative guard on the scale is switched off there.

**`PointChannel`.**  `FireSlide` is `PmcodFunction.process` on the next non-empty window the watermark has passed.
Slides due go before further scaler steps: what a slide sees depends on event time only, so this loses no
behaviour.  Checkpoints and restarts cover both operators.

**`Mcod`.**  `pd`, `mc` and `mcCounter` are `McodState`; the operators take such a state and return the next one, in
the order in which `processSlide` calls them: insert, report, expire, dissolve, re-insert.  `Slide` is one window,
`SwitchAndSlide` one whose first new point carries a new version, so the state is cleared and refilled with the
window's points at other positions (`Rescale`).  A point's id is its arrival time.  Positions and `Distance` are
constants, the distance a metric with whole values in some unit; the instance takes a line.  Hash maps are gone
through in an order the model leaves open.  `end` and
`elements` are the window operator's, `reported` is what the slide returns.

**`FleetDecision`, `FleetInputs`, `FleetOnline`.**  The books are the keyed state of `FleetDecisionFunction`
(drift book, open episodes, cooldown, sequence numbers); a tick is a function from inputs and books to books and
log lines.  `Prepare` tabulates a scenario as the offline script does, `Accept` takes one element as the assembler
does; the operator (`td`, `asm`, `timer`) accepts the six streams in any interleaving, `Ahead` past the next timer,
and ticks when the watermark allows.  Each stream is FIFO, in event time.  A checkpoint takes state and positions,
and a restart puts the log since then out again.  A data-drift verdict, a burst, a confirmation and a round are
members of the scenario.

**`OptWin`, `DriftStream`, `GridReport`, `DriftReports`.**  Window, cut, sums and alarms are those of the code in
integers (medians doubled, `BETA` infinitely small).  `DriftStream` feeds one device's elements - ten-minute
scores, hourly medians through the hour bucket with its fallback, or the outlier rate with its bursts - through
detector and gate.  `GridReport` runs four combinations of critical values, granularity and `K` over the recorded
stream and counts events per day, device and span, as the script does.

**`DayLayer`, `DayExtract`.**  One channel from injection (step, ramp, stuck) over repeat-run marks and the freeze to
closed days; the script takes the same days from the whole trace, with injections applied or left out.

**`EdaRun`.**  A file has versions; `disk[f]` is the present one.  A worker's `job[f]` takes size and mtime, then
reads the content, then writes the cache entry, and a change of the file may fall between any two.  The main process
adds results in the order they come, `Interrupt` drops everything but the cache, and the next run resumes.  A payload
is kept as the reading it comes from and `Payload` computes it; `EdaMerge` and `EdaReport` compute aggregate and report.
A Python dict is a function, together with the sequence of its keys (`errorKeys`, `segmentKeys`, `gapKeys`) where the report
goes by the order they came in: failures of equal count, the worst device of question 7, the order of stitching.

**`Replay`, `RoundExtract`, `RepeatRuns`.**  The replayer merges files with a carry-over buffer and saves its offset
every `SaveEvery` rows or when it stops; sending and reading a row is one step, watermarks come when they like.
The rounds, hours and marks the job makes are compared with those of the scripts over the same files, and the rounds of
the scripts with what their own checks find.

## 3. Runs

| Run | Instance | Shows |
|---|---|---|
| `m3_deep` | one device, fair, 14 rounds, segments 4+2+2, windows of 2, buffer of 4, batches of 3, retries, one checkpoint and crash | type and bound invariants, one timer chain, hold = heads, slots current, training data = the reference segments, scored in input order, no score behind the emitted watermark; trainings end with a model, held watermarks are released |
| `m3_pair` | two devices, one training thread, 4 rounds each, symmetric | the hold as a minimum over devices, and refinement of `OrderedScoring` (`PromiseSpec`) |
| `m3_buffer_gap` | as `m3_deep`, 15 rounds | **violated**: the buffer need not be contiguous, finding 1 |
| `adapt_commands` | a dense and an absent device with readings of two channels, commands effective in warm-up, in the data and while absent, one of another level; two records on the topic, one checkpoint and crash; fair | version in force, parameters, histograms and backfill exactly those of the reference re-estimation, sent once, every pending command has its timer and is resolved |
| `adapt_restart` | as above, three records | **violated**: finding 2 |
| `adapt_channel` | three devices (dense with incomplete rounds, absent and back with an incomplete round, absent and back), slides of 2 in windows of 4, two commands, one checkpoint and crash | each slide holds exactly the window's admitted rounds, under one normalization, and judges the new ones |
| `adapt_backfill` | a command effective within a window of the freeze | **violated**: finding 3 |
| `mcod_exact` | R = 4, K = 2, windows of three slides of two, six slides, one switch | the outliers are the naive detector's (`NaiveSpec`); each point of the window is held once, clusters stay dense, the safe mark stays justified |
| `fleet_runs` | two devices, five local days (the first for calibration, the third short), 19 scenarios, every interleaving of the streams, one restart | the operator's log is the offline one; commands are apart; episodes and drift book agree; data drift leads to its command; report tables and timing scan agree with the runs they describe |
| `drift_streams` | every stream of up to 10 slots (8 hourly) over two values, three bins for the rate, day plans of one channel with injections, re-estimation and clock change | incremental sums are exact, a persistence check concludes once and not inside a blind span, the grid's counts agree with one another, bursts, hours and days online are those of the scripts |
| `eda_resume` | three files with eleven versions, two workers, two runs, one fault, an interruption; some 150 recordings replayed with up to two stops, each followed by `--resume` | every file accounted for, cache fresh, the aggregate that of one pass, the report independent of the order but where it keeps what came first; a resumed replay loses only rows that later files had overtaken; rounds and repeat marks those of the files |
| `eda_order` | as `eda_resume` | **violated**: the list of the longest gaps depends on the order of arrival, finding 4 |

*Bounds.*  The M3 instances make every branch happen: a segment boundary inside a window, a training window with an
outlier, failure up to the retry limit, overflow, a drain over several batches with rounds arriving meanwhile, a
checkpoint in each phase and a crash in each later one.  One checkpoint and one crash suffice for any restart, since
state after a restore is a state reachable without one except for the transient parts the model resets.  The
adaptive instances have effective times before the freeze, at a round, between rounds and in an absence, boundary
rounds at `eff-D`, `eff-W` and `eff`, and commands that supersede one another before and after a round.
In `mcod_exact` the positions have distances 0, R/2, R, 3R/2 and 2R, every comparison of the code falls on each side and
on its boundary, and six slides let a cluster form, shrink, dissolve, form again from the re-inserted points and expire.
The fleet's scenarios are written one per rule: each attribution label, site condition and common mode at and below
their thresholds, a spell through midnight, one that falls back, one that returns, commands per day and per hour, with
and without the once rule, over the short day.  `Ahead` lets a stream run past the next timer, which is what the
operator has to cope with; further ahead repeats the same situation.  The drift tables mirror the real ones in small:
windows of 4 to 6, cuts that rise and once fall, `K` of 5 and 3.  The EDA files overlap in time, change, vanish, grow too
large, become empty or cannot be read; two of them fail for different reasons, two devices share the longest gap, more
gaps are found than the two listed, and two of them are equally long, so that each place where the report keeps what came
first is reached.  The three upper quantiles are fractions that differ on counts this small.  With two stops an offset
may be older than the one before it.  Times stand for seconds of the code divided by the round period; only comparisons
matter.  `NearBy` (how far a file's name may be from a round), `Margin` (what the gap check reads around the
span) and `Minute` of `RoundExtract` stand for `window_sec`, `--margin` and 60 seconds.

*Preconditions.*  `DaysAreOffline`: the first round after the freeze is on the first day, the day timer is at most
`TimerLag` late, no round comes after its day was closed.  `RoundsAreOffline`: replayer and script see the same files
(`SameFiles`; the replayer goes by name and first row, the script by content), and no row is further behind than
carry-over, out-of-orderness and close delay together - 60 + 55 + 30 s in the code; one more second, and the property
fails.  `GuardIsOffline`: thresholds meet their data at the runs put aside (the multiplier is at most the outlier ratio:
2 and 3 by default).

*Deadlock* is checked in `fleet_runs`, whose specification stutters at the end of the scenario; the other inputs and
bounds are finite and every run ends.

*Proviso.*  `ExecutionIsDeterministic`, `AttachmentsAreSentOnce` and the properties of `PointChannel` hold as long as
no command was stored whose effective time an earlier incarnation's watermark had passed; finding 2 is about the
other case.  The commands of `adapt_channel` satisfy `TimelyCommands`: multiples of the slide, and no window before one
reaches into the warm-up; finding 3 is about the other case.

## 4. Fairness

`M3AsyncTraining!Fairness` is weak fairness of the program's own steps: a processing-time timer that is registered
fires, a queued training starts when a thread is free and ends, the task reads its next round and its next watermark.
A training may fail, but not more often than the code allows before it stops the job.  No fairness is put on
checkpoints or crashes, which are bounded.  `AdaptiveScaler!Fairness` is weak fairness of reading rounds, of the data
watermark (the command source emits the maximum watermark and never holds it back, `m2/M2Job.java:800`), and of
reading commands already published; nothing forces the decision layer to publish.  The other specifications state no
fairness: their properties are about safety.

## 5. Findings

1. `m3_buffer_gap`: `m3/M3Function.java:715` says that dropping the newest round keeps the buffered part contiguous.
   It does until the first partial drain frees room; then rounds are appended behind the dropped ones, and windows are
   scored across the gap.
2. `adapt_restart`: `m1/AdaptiveScalerFunction.java:32` says execution does not depend on the order in which commands
   arrive.  Lateness is judged by the watermark, which a restart takes back.  A command published again by the
   at-least-once sink can then be stored after a later one was executed by its timer, and puts older parameters back.
3. `adapt_backfill`: `m6/Backfill.java:6` describes the backfill as the rounds the point channel admits, and
   `m2/McodCore.java:286` counts the state as the points of the window.  Level 0 does not leave out warm-up rounds, which
   the gate never admits.  They are no window elements, so expiry never finds them, and they stay in the detector until
   the next clear.  This needs a command effective within one window of the freeze.

4. `eda_order`: `eda/edalib/merge.py:263-265` says the key of the heap is content only, so that merging out of order still
   yields a reproducible top-N.  The key is, but a full heap takes a gap only when it is longer than the shortest one
   (`:269`): of two equally long gaps the one that arrived first stays.

Met while modelling, without a run of their own:

- `docs/cluster_runbook.md:194` says `--resume` skips what was sent and sends the rest, for a job that stayed up while the
  data side was interrupted.  `CsvKafkaReplayer.afterResume` compares (file, line) with the last row sent, while rows are
  sent in merged order: where files overlap, rows of an earlier file are still to come when a row of a later one has been
  sent, and the resumed replay skips them.  `LostRowsWereOvertaken`, a part of `RoundsAreOffline`, says that no other row
  is lost.  A resume may also send rows again: a killed replayer leaves an offset up to 50,000 rows old; one that stops
  before sending anything writes an offset that makes the next resume send everything.  A resumed replayer has a new
  `Injector`, so a stuck injection holds another value.  No property compares rounds after such resumes: the other parts
  of `RoundsAreOffline` ask that each resume skipped just what was sent (`exact`).
- `m1/AdaptiveScalerFunction.java:260` bypasses every channel when the window of a re-estimation is empty, and so does
  the script.  `EstimatesAreExact` says nothing about it: both sides use `Calibrate`, and what is compared is which rounds
  an estimate is made of.
- `GlobalMerger` (comment 418) claims a globally non-decreasing order; rows further behind than the carry-over come out
  of order, as the clamp there changes nothing.
- `m7/decide.py:205` and `FleetDecisionFunction:590`: `fallen("perf")` looks only at the confirmation at the tick.  A
  fallback and a new confirmation between two ticks leave the old episode open, so the new spell gets no command,
  though docstring item c ends the segment at the confirmed fallback (`fallen_at` is never used).
- `m7/M7DecisionOperator.java:60`: the first tick is set by the first element to arrive; earlier hours of other devices
  are never ticked.  The model has one of the first hour's rounds arrive first.
- `eda/edalib/report.py`: the table of failure reasons (`:1376`) breaks equal counts, and the "worst device" of question 7
  (`:1596`) equal gaps, by order of arrival; nothing claims otherwise, and `ReportIsOrderFree` names both as exceptions
  beside finding 4 and the accelerometer records cut off at their cap (`merge.py:332-337` says so).  A "read failed" payload
  is cached and reused until `--no-resume`; a failed open counts as no data, against `merge.py:105`.  `write_report` and
  question 1 fail on datasets where every interval is a gap.
- `m5a` online has no gate on the rate stream, `run_offline.run_stream` has one.

## 6. What is proved

Each theorem is about the specification that TLC runs, for every value of its constants that satisfies the named
assumptions.

| Module | Theorems | Assumptions |
|---|---|---|
| `M3AsyncTrainingProofs` | `TypeCorrect`, `SingleTimerChain`, `SlotsAreCurrent`, `BuffersAreHeld`, `NothingScoredLate`, `RoundsScoredInOrder`, `ChannelKeepsPromise` (refinement of `OrderedScoring`), `TrainingsUseReferenceData` | `BoundsAssumption` (positive lengths), `InputAssumption` (record timestamps of a device never decrease, because window results are emitted in window order) |
| `AdaptiveScalerProofs` | `ScalerTypes`, `ScalerPendingWillRun`, `ScalerExecutionIsDeterministic`, `ScalerAttachmentsAreSentOnce` | `ScalerAssumption`, `InputsAssumption` (rounds in increasing time within bounds, a freeze is reached) |
| `PointChannelProofs` | `ChannelKeepsScaler`, `ChannelInvariant`, `ChannelWindowIsExact`, `ChannelOneNormalization`, `ChannelFreshRoundsAreJudged` | the scaler's, `SlideAssumption` (a window is a whole number of slides); all but the first: `TimelyCommands` |
| `McodProofs` | `McodInvariant`, `McodStateIsWindow`, `McodClustersAreDense`, `McodSafeIsEarned`, `McodFindsNaiveOutliers` (refinement of `NaiveDetector`) | `McodAssumption` (a window is a whole number of slides, a slide brings at most as many points as it has time units), `DistanceAssumption` (a metric, whole in some unit) |
| `FleetProofs` | `FleetInvariant`, `FleetBooksAgree`, `FleetCommandsAreApart`, `FleetDriftIsCommanded`, `FleetCommandsAreOffline` | `CalendarAssumption`, `ParamsAssumption`, `ChannelAssumption`, `ScenariosAssumption` (elements are well formed; lead time and decision period at most the shortest day), `TriggerAssumption` (no channel is called "perf") |
| `DriftProofs` | `DriftInvariant`, `BlindIsBlind`, `SumsStayExact`, `ChecksStayConcluded`, `HoursStayOffline`, `BurstsStayOffline` | `OptWinAssumption` (a window has at least two elements on either side of its cut, the check is at least the sliding median long), `StreamAssumption` |
| `EdaProofs` | `DatasetInvariant`, `EdaCacheIsFresh`, `EdaFilesAddedOnce`, `EdaFilesAccounted` | `RunConstants` (a file's versions and the lines of each are finitely many) and those of the modules below it |

**The context channel, types and watermark.**  That no round is scored behind the emitted watermark needs to know
that the emitted watermark is below every buffered round and every round still to come; that needs the hold to be
the heads of the buffers, the heads to be the minimum of the buffers, the buffers to be sorted, and all of it again
for the checkpoint a crash may bring back.  `IInv` is therefore `DevicesInv` (for each device its types, buffer, phase
and timers, and that slots and queue belong to the current task), `WatermarkInv` (the hold is the buffers' heads,
`emittedWm <= inputWm`, and every buffered or future round is above `emittedWm`) and `RecoveryInv` (the device part for
the checkpoint).  There is a lemma per helper operator (what `Buffered`, `Drained`, `Fed`, `Applied`, `Rearmed` ...
preserve), a theorem per action, and `IInvStep` that combines them.  `NoLateScore` is an action property and follows from
`IInv` on the two actions that score.

**The context channel, order and refinement.**  `ScoringInv` says of each device, and of its part of the checkpoint,
how history, buffer and open window belong together: what was accepted is what was scored followed by what is
buffered, both in the order of time, and the emitted windows cut the scored rounds into blocks.  It rests on `IInv`.
`ChannelKeepsPromise` maps the initial states and then each action to a step of `OrderedScoring` or a stutter: the part
of the mapping that is not obvious is that a drain of several rounds is one abstract step, and that a restart maps
to the abstract one.

**The context channel, training data.**  A training gets what the collecting phases gathered, and they gathered it
window by window across two segments, while a restart may take half of it back.  `DataInv` ties the segments and the
open window of each device, and of its checkpoint, to the position in its input (`Gathered`): the full windows before
that position lie in their segments as the reference has them, the rest is in the open window, and no window behind the
end of a segment is in it; every slot and queued task holds the segments of its device as they are (`DataOK`), which by
`IInv` no round touches any more.  The reference is a recursive function of the input, and what it yields (`EachUpTo`,
`UpToFollows`) is shown by the least number for which it would not.

**The adaptive scaler.**  What a round was given must be traced back through commands that came in any order, were
repeated, or were stored by an incarnation that a restart took back.  `IInv` says of the running operator and of its
checkpoint alike: outputs line up with inputs (`Aligned`); stored commands are ahead and have their timers (`Waiting`);
and, while no command was stored that event time had passed, every executed command lies before every waiting one
(`DoneFirst`) and before the next round (`DoneBy`), the version in force is that of the latest executed command
(`Numbered`), and what was sent and what is still to be sent add up to one histogram and one backfill per version
(`VersionsSent`, `SentOnce`, `ToSend`).  Across both: a sequence number names one command (`SeqIsName`).

**The point channel.**  What a slide judges came to the detector by three ways - round by round, from a version's
backfill, or left over from the slide before - and has to be the window all the same.  `ChannelKeepsScaler` first takes over
everything proved of the scaler: its steps in the composition are steps of `AdaptiveScaler`.  `ChannelInv` adds, for the
running job and its checkpoint:

- `Traces`, of the scaler: the cache holds every round younger than its depth (`CacheHolds`); a version's backfill, waiting or
  sent, is exactly the complete input rounds of `[eff - Window, eff)` (`FillsFor`, `FillsSent`); a cold round is further
  than the absence threshold from all before it (`ColdSent`); rounds of one version carry the same parameters (`SameParams`).
- `Channel`, of the detector: behind the window that ended at `f` it holds the admitted rounds from `f - Window + SlideStep`
  to `f`, all under the version of the last of them (`HoldsFrom`), and the last slide judged what it should (`Judges`).

A slide keeps it because the slides skipped were empty, so expiry misses nothing (`NextEndFacts`); because the version does not
change inside a slide, effective times being multiples of it (`SlideHasOneVersion`), so the new rounds either all join the
points or replace them together with a backfill that is the window's older part (`SlideOfNewVersion`); and because
a cold start has nothing to clear but rounds the window no longer holds - also when the cold round itself was not
admitted and the detector is never cleared.  `TimelyCommands` states what this needs: effective times are multiples of the
slide (the contract in `m6/AdaptCommand.java:22`), no window before one reaches into the warm-up (or finding 3 applies), and the
absence threshold is at least a window (`m1/RawCacheFunction.java:93`: cache depth times period, 1000 rounds against an
hour).  `MCPoint` assumes it, so TLC evaluates it on the instance of `adapt_channel`.

**MCOD.**  The counts are incremental, incomplete on purpose (only the newest `K` earlier neighbours are kept, members of
micro-clusters keep none) and all the same exact wherever a judgement reads them.  `SlideInv` says of the state between
slides: every point of the window is held once, at its position, in PD or in one micro-cluster (`Sound`), clusters have
more than `K` members within R/2 of their center (`Dense`); a point of PD has counted its later neighbours and the newest of its
earlier ones among what is held, or among the window if it is not told any more (`Informed`), and remembers the clusters within
3R/2 (`Remembers`); and what makes it safe are `K` later neighbours (`Earned`).  Insertion, expiry, dissolution and the refill after a switch each go once through a finite set in some order; a
lemma per loop carries the invariant from one round of it to the next, the induction being that a set of numbers that
holds 0 and the successor of each of its members holds all of them.  The triangle inequality says that two members of a cluster are within R of each
other and that what is within R of a member is within 3R/2 of the center.  `McodFindsNaiveOutliers`
then maps a slide to a step of `NaiveDetector`.

**The fleet decision operator.**  Decisions must not depend on how six streams interleave nor on a restart.  The proof
constructs, from the scenario alone, a history `H` of books, one per hour (`H[0]` empty, `H[k]` what the tick of hour `k`
makes of `H[k-1]`), in which neither occurs.  The invariant says that the running operator and its checkpoint each stand
at some hour of it: the elements heard so far are those the timer allows, the tables built from them agree with the
offline ones wherever the next tick looks (`SameView`, from the lemmas on days, rounds, contexts and confirmations),
the books are `H`'s, and the commands out are exactly those of `H` up to the furthest tick ever made.  `BooksAgree` is
then a fact about one tick, and `CommandsAreApart` one about `H`: a cooldown set by a command covers the effective day, as lead
time and period are at most the shortest day.

`DriftIsCommanded` is about several ticks: an open episode of a channel has been told in a command or waits behind a
cooldown, a cooldown is there because of a command, and a day that has no record (no round of the
device) cannot be the first of two drifting days - which is why the property asks for a record of the day before.
`CommandsAreOffline` says that the commands that are out are those `decide.py` writes up to the same tick.  It has two halves: the tables
`Prepare` makes at once give each tick the view that the assembler's tables give it (periods of the context channel by a fold
in one, a two-state machine in the other; days and confirmations by filters), and the offline run's stages, a recursive function of the
hours, are those of `H`.  For the alerts and the review, the other parts of `OnlineIsOffline`, this stays with TLC: they read
the log as it stands at the end and what was out before a restart.

**The drift detector and its gate.**  The report takes for granted that a candidate blinds the detector for `WMin`
elements; the detector's code only empties a window.  The invariant ties the two together by the position of
an element in the stream: the window holds at most the elements since the last alarm (`WindowOver`: `a + det.n <= Len(rows)`
for every alarmed element `a`), and tests only with `WMin` of them, so alarms and counted rises follow an alarm at a distance of
`WMin` (`WindowGrows`).  The report looks positions up by time, so the rows must be in strict order of time, which for the
hourly stream is a fact about the open hour, its timers and the clock (`ClockInv`, `HourCloses`, `HoursApart`).  `GateInv` does the same for the
gate: a running check has seen the elements since its candidate and its sliding elements are as many as they should be
(`Running`), so it is concluded once and in time (`Concluded`), with alarms during a check leaving it alone.

`SumsAreExact` says what the detector's running sums add up to after any number of elements, moved boundaries and
alarms.  A sum is a fold of the library over a finite set of positions; the fold has a value, a number, that adds any one
element to the rest (`FoldExists`, `FoldSums`, by induction on the size of the set), from which sums over intervals lose or gain
their first or last term, split and move (`TotalFirst`, `TotalLast`, `TotalMoved`, ...).  `Describes(d, w, n)` says that the ring
holds the window `w` and the two pairs of sums are those of its parts; an appended element, an evicted one and a moved
boundary keep it (`AppendDescribes`, `EvictDescribes`, `SplitDescribes`), and `DetInv` says that the window is the elements
since the last alarm, as far as `WMax`.  `ChecksConcludeOnce` adds what the check compares: every candidate that began
a check keeps the window and the threshold of its element (`Sets`, `AlarmSets`), the running check slides over the newest
elements and has passed every median of them so far (`Ongoing`), and a conclusion is the one these elements settle (`Settled`,
`Ended`).

`HourlyIsOffline` follows from `HourInv`: the rows are the medians of all hours but the open one, the open hour is the
last that came and holds its values, in their order.  An hour that was closed gets no value any more because the values come in the
order of time, and its timer fires only behind it.  `OnlineBurstsAreOffline` compares bursts that grow with the stream to those found
in what has come so far.  `BurstsInv` says of each waiting burst that it has the sum and the maximum of the elements
within its hour (`Counts`), and as its duration the run of nonzero rates around its alarm (`RunTo`), which is open
as long as it reaches the newest element (`Lasts`); and of each burst that is out that it was such a one (`IsOut`) that no later element can change.

**The dataset scan.**  A cached payload is as old as the metadata it was stored under.  The invariant says of each
cache entry, running task, returned and added payload that its size and mtime were taken from a version of the file not
newer than the one whose content was read, and neither newer than the disk (`Reads`, `JobReads`); versions differ in
mtime, so an entry that matches the file was computed from what it holds.  That needs the order stat, open, read in the
worker: stat after the read breaks it.  `EachOnce(added, AddedFiles)` says that the added payloads are one for each
added file; a finished run has added all its tasks.  `EveryFileAccounted` follows by induction on the payloads that were added
(`BooksGrow`): `Books(a, q, n)` says what the `Ledger` of an aggregate holds after the first `n` of them - outcomes, name classes,
patterns and errors whose totals are sums over finite sets, an inventory in their order, the files that match no name - and neither
the data of a payload nor the stitching at the end touches these entries (`MergeKeeps`, `GapsKeep`, `ClosedKeeps`).

*Only model-checked.*

- `OnlineIsOffline` as far as it is about alerts and reviews, `FleetReportAgrees` and the other report properties: they read whole
  logs of finished runs.
- `AggregateIsExact`, `ReportIsOrderFree`, `RoundsAreOffline`, `GuardIsOffline`,
  `DaysAreOffline`, `ReportAgrees`, `EstimatesAreExact`: they compare whole
  results of two computations over data.  Induction over numbers is within reach (by the least number a claim fails for), and
  so are recursive functions of them and the library's folds over sets; its sorts and selections of sequences
  (`SelectSeq`, `SortSeq`, `FoldLeft` over them) are not.
- `TrainingEnds`, `HoldIsReleased`, `PendingIsResolved`: liveness, out of the prover's reach.

## 7. Not modelled

- Numerics: LSTM training and scoring, statistics of the data-drift tests (shift, width, the G statistic; a p-value is a
  bound on the square of the distance), floating-point rounding, magnitudes printed in reports.
- M7: `ctx_max` and `point_rate`, the forms of magnitudes; `p_point` is constant.  An hour has two
  rounds and one context window, a fallback median two elements.  Reports: parameter listings, variants of the common
  ratio, wording; universal-time dates of scale and stable days are taken as local ones.  `FleetReportAgrees` is a fact
  about a scenario and checked once for each.
- M5b: heartbeat records, robustness variants, the HDDM_W baseline (external: when it alarms is free).
- EDA: figures, formats; sums of floats that depend on their order; rows of one gap that two files hold come in the order
  of the heap; a changed file always has another mtime, hash collisions of cache names are excluded, what
  pandas cannot parse is external and free.
- Replayer: pacing, compression of idle spans; several devices (each has its partition).
- Monitoring counters, serialization, option parsing, side scripts, the comparison scripts other than those of section 2 and
  deployment: pure I/O or single-threaded tools around the same classes.

## 8. Plan

1. *Done*: all modules of section 2, with the runs of section 3.
2. *Done*: the proofs of section 6.
3. `DriftReports`, the parts of `ReportAgrees` that follow from `GateInv`: no confirmation without a candidate, nor
   earlier than `K` elements after it.
4. `FleetProofs`, the alerts' part of `OnlineIsOffline`, from the same history `H`.
