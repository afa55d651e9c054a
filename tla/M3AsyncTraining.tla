---------------------------- MODULE M3AsyncTraining ----------------------------
(***************************************************************************)
(* The context channel (M3) of one Flink subtask: the per-device phase     *)
(* machine of M3Function, the training executor of M3TrainExecutor and the *)
(* held output watermark of M3Operator.                                    *)
(*                                                                         *)
(* A device collects three segments of rounds, hands them to a training    *)
(* thread, buffers the rounds that arrive meanwhile, and scores rounds     *)
(* once a model has come back: first the buffered ones, in batches driven  *)
(* by a processing-time timer, then the live ones.  Everything keyed is    *)
(* checkpointed; the executor, the hold map and the watermarks are not.    *)
(*                                                                         *)
(* A round is its number in the device's input stream.  The task thread    *)
(* runs one handler at a time (the mailbox), so a handler is one action;   *)
(* training threads and the environment interleave with it.                *)
(***************************************************************************)
EXTENDS Integers, Sequences, FiniteSets

CONSTANTS
  Keys,           \* the devices (surrogate keys) of this subtask
  TrainDays, EarlyStopDays, ThreshDays, RoundsPerDay,
  WindowLength,
  DrainBatch,     \* rounds drained per timer
  Threads,        \* training threads of the TaskManager
  NRounds,        \* bound: rounds in each device's input
  RoundTs,        \* record timestamp of each round, per device
  IsOutlier,      \* M2's outlier flag of each round, per device
  MaxCheckpoints, \* bound
  MaxCrashes      \* bound

ASSUME BoundsAssumption ==
  /\ WindowLength \in Nat \ {0} /\ DrainBatch \in Nat \ {0} /\ Threads \in Nat \ {0}
  /\ TrainDays \in Nat /\ EarlyStopDays \in Nat /\ ThreshDays \in Nat
  /\ RoundsPerDay \in Nat \ {0}
  /\ NRounds \in Nat /\ MaxCheckpoints \in Nat /\ MaxCrashes \in Nat

\* The sliding windows of M2 fire in event-time order, so the record
\* timestamps of a device never decrease; the rounds of one slide share one.
ASSUME InputAssumption ==
  /\ RoundTs \in [Keys -> [1..NRounds -> Nat \ {0}]]
  /\ IsOutlier \in [Keys -> [1..NRounds -> BOOLEAN]]
  /\ \A k \in Keys : \A m, n \in 1..NRounds : m <= n => RoundTs[k][m] <= RoundTs[k][n]

VARIABLES
  dev,        \* keyed, checkpointed state and timers of each device
  log,        \* history: rounds accepted after training started, scored, windows emitted
  slot,       \* result slots of the executor
  queue,      \* the thread pool's queue of submitted tasks
  hold,       \* holdHeadTs: record timestamp of each non-empty buffer's head
  inputWm, emittedWm,
  ckpt,       \* last completed checkpoint
  nCkpt, nCrash

vars == <<dev, log, slot, queue, hold, inputWm, emittedWm, ckpt, nCkpt, nCrash>>

Collecting == 0
Training == 1
Online == 3     \* phase 2 (CALIBRATING) is never visible between two handlers

MaxFailures == 2
NoTs == 0
NoModel == {}   \* modelBytes is null; otherwise the set holds the one model

TrainRounds == TrainDays * RoundsPerDay
EsRounds == EarlyStopDays * RoundsPerDay
ThRounds == ThreshDays * RoundsPerDay
CollectRounds == TrainRounds + EsRounds + ThRounds
BufferCap == (ThreshDays + 2) * RoundsPerDay

Round(k, n) == [n |-> n, ts |-> RoundTs[k][n]]

EmptySegments == [train |-> <<>>, es |-> <<>>, th |-> <<>>]

NoTask == [id |-> 0, data |-> EmptySegments, status |-> "none"]

InitDevice ==
  [phase |-> Collecting, count |-> 0, win |-> <<>>, segs |-> EmptySegments, excluded |-> 0,
   pending |-> <<>>, size |-> 0, head |-> NoTs, taskId |-> 0, failures |-> 0,
   model |-> NoModel, timers |-> 0]

InitLog == [accepted |-> <<>>, scored |-> <<>>, records |-> <<>>]

--------------------------------------------------------------------------------
(* Collecting: windows of consecutive rounds are routed by the round count. *)

SegmentOf(count) ==
  CASE count <= TrainRounds -> "train"
    [] count > TrainRounds /\ count <= TrainRounds + EsRounds -> "es"
    [] count > TrainRounds + EsRounds /\ count <= CollectRounds -> "th"
    [] OTHER -> "none"

HasOutlier(k, w) == \E i \in 1..Len(w) : IsOutlier[k][w[i]]

\* Training windows with an outlier round are left out and counted.
Routed(k, d, w) ==
  LET s == SegmentOf(d.count)
  IN  CASE s = "train" /\ HasOutlier(k, w) -> [d EXCEPT !.excluded = @ + 1]
        [] s = "train" /\ ~HasOutlier(k, w) -> [d EXCEPT !.segs.train = Append(@, w)]
        [] s = "es" -> [d EXCEPT !.segs.es = Append(@, w)]
        [] s = "th" -> [d EXCEPT !.segs.th = Append(@, w)]
        [] s = "none" -> d

Counted(d) == [d EXCEPT !.count = @ + 1]

Collected(k, d) ==
  LET w == Append(d.win, d.count)
  IN  IF Len(w) < WindowLength THEN [d EXCEPT !.win = w]
      ELSE [Routed(k, d, w) EXCEPT !.win = <<>>]

--------------------------------------------------------------------------------
(* Training tasks. *)

Submitted(d) == [d EXCEPT !.phase = Training, !.taskId = @ + 1]

TaskOf(d) == [id |-> d.taskId, data |-> d.segs, status |-> "queued"]

\* The model is a deterministic function of the data it was trained on, and
\* stands for it; the segments are released once it is in state.
Applied(d, task) ==
  [d EXCEPT !.model = {task.data}, !.segs = EmptySegments, !.phase = Online]

\* Mutant: a failed run drops the segments it was given.
FailedDropsData(d) == [d EXCEPT !.failures = @ + 1, !.segs = EmptySegments]

Failed(d) == [d EXCEPT !.failures = @ + 1]

\* Mutant: an empty slot is taken for a task still on its way.
PollNeverResubmits(k, d) ==
  LET t == slot[k]
      ok == t.status = "done" /\ t.id = d.taskId
      ended == t.status \in {"done", "failed"}
  IN  CASE ~ended -> "pending"
        [] ended /\ ok -> "apply"
        [] ended /\ ~ok /\ d.failures + 1 < MaxFailures -> "retry"
        [] ended /\ ~ok /\ d.failures + 1 >= MaxFailures -> "giveUp"

\* What pollTraining finds in the slot of device k.
PollResult(k, d) ==
  LET t == slot[k]
      bad == t.status = "failed" \/ t.id # d.taskId
      ended == t.status \in {"done", "failed"}
      mayRun == d.model = NoModel /\ d.failures < MaxFailures
      lastTry == d.failures + 1 >= MaxFailures
  IN  CASE t.status = "none" /\ mayRun -> "resubmit"
        [] t.status = "none" /\ ~mayRun -> "idle"
        [] t.status \in {"queued", "running"} -> "pending"
        [] ended /\ bad /\ ~lastTry -> "retry"
        [] ended /\ bad /\ lastTry -> "giveUp"
        [] ended /\ ~bad -> "apply"

Polled(k, d) ==
  LET r == PollResult(k, d)
  IN  CASE r = "resubmit" -> Submitted(d)
        [] r = "retry" -> Submitted(Failed(d))
        [] r = "giveUp" -> Failed(d)
        [] r = "apply" -> Applied(d, slot[k])
        [] r \in {"idle", "pending"} -> d

\* The executor after the poll: a collected result empties the slot, and a
\* (re)submission puts a new task at the end of the pool's queue.
PollExecutor(k, d) ==
  LET r == PollResult(k, d)
      submits == r \in {"resubmit", "retry"}
  IN  /\ slot' = [slot EXCEPT ![k] = CASE submits -> TaskOf(Polled(k, d))
                                       [] r \in {"giveUp", "apply"} -> NoTask
                                       [] r \in {"idle", "pending"} -> @]
      /\ queue' = IF submits THEN Append(queue, k) ELSE queue

--------------------------------------------------------------------------------
(* The bounded buffer and its drain. *)

\* Mutant: off by one at the buffer's limit.
HasRoomOffByOne(d) == d.size <= BufferCap

HasRoom(d) == d.size < BufferCap

\* Mutant: a full buffer drops its oldest round.
BufferedDropsOldest(d, r) ==
  IF HasRoom(d)
    THEN [d EXCEPT !.pending = Append(@, r), !.size = @ + 1,
                   !.head = IF d.size = 0 THEN r.ts ELSE @]
    ELSE [d EXCEPT !.pending = Append(Tail(@), r), !.head = Append(Tail(d.pending), r)[1].ts]

Buffered(d, r) ==
  IF ~HasRoom(d) THEN d
  ELSE [d EXCEPT !.pending = Append(@, r), !.size = @ + 1,
                 !.head = IF d.size = 0 THEN r.ts ELSE @]

BufferLog(k, r) ==
  log' = [log EXCEPT ![k].accepted = IF HasRoom(dev[k]) THEN Append(@, r) ELSE @]

\* Mutant: every buffered round moves the hold to itself.
BufferHoldLatest(k, r) ==
  IF HasRoom(dev[k]) THEN [hold EXCEPT ![k] = r.ts] ELSE hold

BufferHold(k, r) ==
  IF HasRoom(dev[k]) /\ dev[k].size = 0 THEN [hold EXCEPT ![k] = r.ts] ELSE hold

\* Feeding a batch of rounds to handleOnline: every full window is emitted
\* and the buffer starts again.
Fed(d, batch) == d.win \o [i \in 1..Len(batch) |-> batch[i].n]
FullWindows(all) == Len(all) \div WindowLength
Leftover(all) == SubSeq(all, FullWindows(all) * WindowLength + 1, Len(all))
Windows(all) ==
  [i \in 1..FullWindows(all) |-> SubSeq(all, (i - 1) * WindowLength + 1, i * WindowLength)]

ScoreOnline(d, batch) == [d EXCEPT !.win = Leftover(Fed(d, batch))]

ScoreLog(l, d, batch) ==
  [l EXCEPT !.scored = @ \o batch,
            !.records = IF d.model = NoModel THEN @ ELSE @ \o Windows(Fed(d, batch))]

NextBatch(d) ==
  SubSeq(d.pending, 1, IF DrainBatch < Len(d.pending) THEN DrainBatch ELSE Len(d.pending))

Drained(d) ==
  LET batch == NextBatch(d)
      rest == SubSeq(d.pending, Len(batch) + 1, Len(d.pending))
  IN  [ScoreOnline(d, batch) EXCEPT
         !.pending = rest, !.size = Len(rest),
         !.head = IF rest = <<>> THEN NoTs ELSE rest[1].ts]

--------------------------------------------------------------------------------
(* The output watermark: min(input watermark, earliest buffered round - 1), *)
(* never moving back.                                                       *)

\* Mutant: the watermark is held at the head's timestamp, not below it.
WatermarkLimitsAtHead(h, wm) == {wm} \cup {h[k] : k \in {j \in Keys : h[j] # NoTs}}

WatermarkLimits(h, wm) == {wm} \cup {h[k] - 1 : k \in {j \in Keys : h[j] # NoTs}}

ForwardWatermark(h, wm) ==
  \E target \in WatermarkLimits(h, wm) :
    /\ \A x \in WatermarkLimits(h, wm) : target <= x
    /\ emittedWm' = IF target > emittedWm THEN target ELSE emittedWm

--------------------------------------------------------------------------------
Init ==
  /\ dev = [k \in Keys |-> InitDevice]
  /\ log = [k \in Keys |-> InitLog]
  /\ slot = [k \in Keys |-> NoTask]
  /\ queue = <<>>
  /\ hold = [k \in Keys |-> NoTs]
  /\ inputWm = 0 /\ emittedWm = 0
  /\ ckpt = [dev |-> [k \in Keys |-> InitDevice], log |-> [k \in Keys |-> InitLog]]
  /\ nCkpt = 0 /\ nCrash = 0

Arrives(k, phase) ==
  /\ dev[k].phase = phase
  /\ dev[k].count < NRounds
  /\ UNCHANGED <<inputWm, ckpt, nCkpt, nCrash>>

\* processElement in COLLECTING.  The round that closes the last segment also
\* submits the training task and starts the device's timer chain.
CollectRound(k) ==
  LET d == Collected(k, Counted(dev[k]))
      submits == d.win = <<>> /\ d.count >= CollectRounds
      s == Submitted(d)
  IN  /\ Arrives(k, Collecting)
      /\ dev' = [dev EXCEPT ![k] = IF submits THEN [s EXCEPT !.timers = @ + 1] ELSE d]
      /\ slot' = IF submits THEN [slot EXCEPT ![k] = TaskOf(s)] ELSE slot
      /\ queue' = IF submits THEN Append(queue, k) ELSE queue
      /\ ForwardWatermark(hold, inputWm)
      /\ UNCHANGED <<log, hold>>

\* processElement in TRAINING: buffer the round, then poll the slot once.
BufferWhileTraining(k) ==
  LET r == Round(k, dev[k].count + 1)
      d == Buffered(Counted(dev[k]), r)
  IN  /\ Arrives(k, Training)
      /\ dev' = [dev EXCEPT ![k] = Polled(k, d)]
      /\ PollExecutor(k, d)
      /\ BufferLog(k, r)
      /\ hold' = BufferHold(k, r)
      /\ ForwardWatermark(hold', inputWm)

\* processElement in ONLINE while the buffer is not empty: append only.
BufferWhileDraining(k) ==
  LET r == Round(k, dev[k].count + 1)
  IN  /\ Arrives(k, Online) /\ dev[k].size > 0
      /\ dev' = [dev EXCEPT ![k] = Buffered(Counted(dev[k]), r)]
      /\ BufferLog(k, r)
      /\ hold' = BufferHold(k, r)
      /\ ForwardWatermark(hold', inputWm)
      /\ UNCHANGED <<slot, queue>>

\* processElement in ONLINE with an empty buffer: score the round at once.
ScoreDirectly(k) ==
  LET r == Round(k, dev[k].count + 1)
      d == Counted(dev[k])
  IN  /\ Arrives(k, Online) /\ ~(dev[k].size > 0)
      /\ dev' = [dev EXCEPT ![k] = ScoreOnline(d, <<r>>)]
      /\ log' = [log EXCEPT ![k] = ScoreLog([log[k] EXCEPT !.accepted = Append(@, r)], d, <<r>>)]
      /\ ForwardWatermark(hold, inputWm)
      /\ UNCHANGED <<slot, queue, hold>>

\* onTimer / advance: poll while training, then drain a batch if the device is
\* online with a buffer, then re-register the timer if there is work left.
TimerPolls(k) == dev[k].phase = Training
Fired(k) == [dev[k] EXCEPT !.timers = @ - 1]
AfterTimerPoll(k) == IF TimerPolls(k) THEN Polled(k, Fired(k)) ELSE Fired(k)
Draining(d) == d.phase = Online /\ d.size > 0
\* Mutant: the timer is re-registered only while training.
RearmedInTraining(d) ==
  IF d.phase = Training THEN [d EXCEPT !.timers = @ + 1] ELSE d
\* Mutant: the timer is re-registered only while draining.
RearmedInDrain(d) == IF Draining(d) THEN [d EXCEPT !.timers = @ + 1] ELSE d

Rearmed(d) ==
  IF d.phase = Training \/ Draining(d) THEN [d EXCEPT !.timers = @ + 1] ELSE d

OnTimer(k) ==
  LET d == AfterTimerPoll(k)
      e == IF Draining(d) THEN Drained(d) ELSE d
  IN  /\ dev[k].timers > 0
      /\ dev' = [dev EXCEPT ![k] = Rearmed(e)]
      /\ IF TimerPolls(k) THEN PollExecutor(k, Fired(k)) ELSE UNCHANGED <<slot, queue>>
      /\ log' = [log EXCEPT ![k] = IF Draining(d) THEN ScoreLog(@, d, NextBatch(d)) ELSE @]
      /\ hold' = [hold EXCEPT ![k] = IF Draining(d) THEN e.head ELSE @]
      /\ ForwardWatermark(hold', inputWm)
      /\ UNCHANGED <<inputWm, ckpt, nCkpt, nCrash>>

\* Watermarks reach M3 after the rounds they cover (M2's windows emit before
\* the watermark that fired them is forwarded).
OnTime(w) == \A k \in Keys : dev[k].count < NRounds => w < RoundTs[k][dev[k].count + 1]

ProcessWatermark(w) ==
  /\ w > inputWm
  /\ OnTime(w)
  /\ inputWm' = w
  /\ ForwardWatermark(hold, w)
  /\ UNCHANGED <<dev, log, slot, queue, hold, ckpt, nCkpt, nCrash>>

--------------------------------------------------------------------------------
(* Training threads: a fixed pool serving its queue in submission order. *)

Running == {k \in Keys : slot[k].status = "running"}

TrainStart(k) ==
  /\ queue # <<>> /\ Head(queue) = k
  /\ Cardinality(Running) < Threads
  /\ queue' = Tail(queue)
  /\ slot' = [slot EXCEPT ![k].status = "running"]
  /\ UNCHANGED <<dev, log, hold, inputWm, emittedWm, ckpt, nCkpt, nCrash>>

\* A run ends with a model and a scorer, or with whatever it threw.
TrainEnd(k, result) ==
  /\ slot[k].status = "running"
  /\ slot' = [slot EXCEPT ![k].status = result]
  /\ UNCHANGED <<dev, log, queue, hold, inputWm, emittedWm, ckpt, nCkpt, nCrash>>

--------------------------------------------------------------------------------
(* Checkpoints and restarts. *)

Checkpoint ==
  /\ nCkpt < MaxCheckpoints
  /\ nCkpt' = nCkpt + 1
  /\ ckpt' = [dev |-> dev, log |-> log]
  /\ UNCHANGED <<dev, log, slot, queue, hold, inputWm, emittedWm, nCrash>>

\* Mutant: the hold map starts empty, as it does after construction.
RestoredHoldEmpty(d) == NoTs

\* The buffer heads are refilled key by key from pendingHeadTs.
RestoredHold(d) == IF d.size > 0 /\ d.head # NoTs THEN d.head ELSE NoTs

\* Mutant: the pool outlives the job and its result slots are kept.
CrashKeepsSlots ==
  /\ nCrash < MaxCrashes
  /\ nCrash' = nCrash + 1
  /\ dev' = ckpt.dev /\ log' = ckpt.log
  /\ hold' = [k \in Keys |-> RestoredHold(ckpt.dev[k])]
  /\ inputWm' = 0 /\ emittedWm' = 0
  /\ UNCHANGED <<slot, queue, ckpt, nCkpt>>

\* The job fails and restarts from the last checkpoint: the executor is closed
\* (its tasks are interrupted and its slots cleared), watermarks start again.
CrashAndRestore ==
  /\ nCrash < MaxCrashes
  /\ nCrash' = nCrash + 1
  /\ dev' = ckpt.dev /\ log' = ckpt.log
  /\ slot' = [k \in Keys |-> NoTask]
  /\ queue' = <<>>
  /\ hold' = [k \in Keys |-> RestoredHold(ckpt.dev[k])]
  /\ inputWm' = 0 /\ emittedWm' = 0
  /\ UNCHANGED <<ckpt, nCkpt>>

Timestamps == {RoundTs[k][n] : k \in Keys, n \in 1..NRounds}

ProcessElement(k) ==
  CollectRound(k) \/ BufferWhileTraining(k) \/ BufferWhileDraining(k) \/ ScoreDirectly(k)

Next ==
  \/ \E k \in Keys : ProcessElement(k)
  \/ \E k \in Keys : OnTimer(k)
  \/ \E w \in Timestamps : ProcessWatermark(w)
  \/ \E k \in Keys : TrainStart(k)
  \/ \E k \in Keys, result \in {"done", "failed"} : TrainEnd(k, result)
  \/ Checkpoint
  \/ CrashAndRestore

Spec == Init /\ [][Next]_vars

\* The task thread takes the next round of its (finite) input and runs a due
\* timer sooner or later, and the pool serves its queue; nothing forces a
\* watermark, a checkpoint or a crash to happen, or a training run to succeed.
Fairness ==
  \A k \in Keys :
    /\ WF_vars(ProcessElement(k))
    /\ WF_vars(OnTimer(k))
    /\ WF_vars(TrainStart(k))
    /\ WF_vars(\E result \in {"done", "failed"} : TrainEnd(k, result))

FairSpec == Spec /\ Fairness

--------------------------------------------------------------------------------
RoundSet == [n : 1..NRounds, ts : Nat]
Window == Seq(1..NRounds)
Segments == [train : Seq(Window), es : Seq(Window), th : Seq(Window)]

DeviceType ==
  [phase : {Collecting, Training, Online}, count : 0..NRounds, win : Window,
   segs : Segments, excluded : Nat, pending : Seq(RoundSet), size : 0..BufferCap,
   head : Nat, taskId : Nat, failures : 0..MaxFailures, model : SUBSET Segments,
   timers : Nat]

LogType == [accepted : Seq(RoundSet), scored : Seq(RoundSet), records : Seq(Window)]

TaskType ==
  [id : Nat, data : Segments, status : {"none", "queued", "running", "done", "failed"}]

\* Every variable has its type; a buffer never exceeds bufferCap() and a
\* device never fails more often than MAX_FAILURES.
TypeOK ==
  /\ dev \in [Keys -> DeviceType]
  /\ log \in [Keys -> LogType]
  /\ slot \in [Keys -> TaskType]
  /\ queue \in Seq(Keys)
  /\ hold \in [Keys -> Nat]
  /\ inputWm \in Nat /\ emittedWm \in Nat
  /\ ckpt \in [dev : [Keys -> DeviceType], log : [Keys -> LogType]]
  /\ nCkpt \in 0..MaxCheckpoints /\ nCrash \in 0..MaxCrashes

\* Each device hangs on exactly one timer while it trains or drains, and on
\* none otherwise: with no timer the training result or the buffer would wait
\* for ever, with two the drain would run on two chains.
OneTimerChain ==
  \A k \in Keys :
    dev[k].timers = IF dev[k].phase = Training \/ dev[k].pending # <<>> THEN 1 ELSE 0

\* The hold map, which restarts empty and is refilled from keyed state, names
\* the head of every non-empty buffer, and the emitted watermark stays below
\* every round still buffered: none of them can be scored late.
HoldCoversBuffer ==
  \A k \in Keys :
    /\ hold[k] = IF dev[k].pending = <<>> THEN NoTs ELSE dev[k].pending[1].ts
    /\ \A i \in 1..Len(dev[k].pending) : dev[k].pending[i].ts > emittedWm

\* A result slot belongs to the training its device waits for: at most one
\* task per device is in flight, and "stale task id" never happens, whatever
\* retries and restarts did before.
SlotIsCurrent ==
  \A k \in Keys :
    slot[k].status # "none" =>
      /\ dev[k].phase = Training
      /\ slot[k].id = dev[k].taskId
      /\ slot[k].data = dev[k].segs

\* What the three segments of a device are, from its input alone: its windows
\* that end after round lo and not after round hi.
NthWindow(i) == [j \in 1..WindowLength |-> (i - 1) * WindowLength + j]
InputWindows(k, lo, hi, clean) ==
  LET inside(w) == w[WindowLength] > lo /\ w[WindowLength] <= hi
      wanted(w) == inside(w) /\ (clean => ~HasOutlier(k, w))
      upTo[i \in 0..(NRounds \div WindowLength)] ==
        IF i = 0 THEN <<>>
        ELSE IF wanted(NthWindow(i)) THEN Append(upTo[i - 1], NthWindow(i)) ELSE upTo[i - 1]
  IN  upTo[NRounds \div WindowLength]

ReferenceSegments(k) ==
  [train |-> InputWindows(k, 0, TrainRounds, TRUE),
   es |-> InputWindows(k, TrainRounds, TrainRounds + EsRounds, FALSE),
   th |-> InputWindows(k, TrainRounds + EsRounds, CollectRounds, FALSE)]

\* Every training run of a device, the first, a retry or one resubmitted
\* after a restart, gets the same windows, and the model in state was trained
\* on them: a restart cannot change the scores.
TrainsOnReferenceData ==
  \A k \in Keys :
    /\ slot[k].status # "none" => slot[k].data = ReferenceSegments(k)
    /\ dev[k].phase = Online <=> dev[k].model = {ReferenceSegments(k)}

\* From the end of collecting on, the rounds a device accepted are its scored
\* rounds followed by its buffered ones: none is lost, repeated or overtaken,
\* across buffering, batches, live scoring and restarts.  The emitted windows
\* are the scored rounds cut into blocks.
ScoredInOrder ==
  \A k \in Keys :
    LET l == log[k]
        done == Len(l.records) * WindowLength
    IN  /\ l.accepted = l.scored \o dev[k].pending
        /\ \A i \in 1..Len(l.records) :
              l.records[i] = [j \in 1..WindowLength |-> l.scored[(i - 1) * WindowLength + j].n]
        /\ dev[k].phase = Online =>
              dev[k].win = [j \in 1..(Len(l.scored) - done) |-> l.scored[done + j].n]

\* A round is scored, and its score record stamped, strictly above every
\* watermark already emitted downstream.
NoLateScore ==
  [][\A k \in Keys :
       \A i \in Len(log[k].scored) + 1 .. Len(log'[k].scored) :
         /\ log'[k].scored[i].ts > emittedWm
         /\ log'[k].scored[i].ts = RoundTs[k][log'[k].scored[i].n]]_vars

\* The claim of bufferRound's comment: by dropping the newest round, what is
\* buffered stays contiguous from the end of collecting on.
BufferContiguous ==
  \A k \in Keys : \A i \in 1..Len(dev[k].pending) - 1 :
    dev[k].pending[i + 1].n = dev[k].pending[i].n + 1

\* A device in TRAINING gets its model, unless training failed twice: also when
\* the task in flight was lost in a restart, and when no further round arrives.
TrainingEnds ==
  \A k \in Keys :
    dev[k].phase = Training ~> (dev[k].phase = Online \/ dev[k].failures = MaxFailures)

\* The output watermark catches up with the input watermark once no device of
\* the subtask has given up.
HoldIsReleased ==
  [](emittedWm < inputWm =>
       <>(emittedWm = inputWm \/ \E k \in Keys : dev[k].failures = MaxFailures))

--------------------------------------------------------------------------------
\* The refinement mapping: the accepted and the scored rounds of each device,
\* the emitted watermark, and their part of the last checkpoint.
Accepted(l) == [k \in Keys |-> l[k].accepted]
Served(l) == [k \in Keys |-> l[k].scored]

Promise == INSTANCE OrderedScoring WITH
  accepted <- Accepted(log), scored <- Served(log), wm <- emittedWm,
  saved <- [accepted |-> Accepted(ckpt.log), scored |-> Served(ckpt.log)]

\* M3 with its training threads, buffers, batches and restarts behaves as the
\* per-device queues with a held watermark.
PromiseSpec == Promise!Spec
================================================================================
