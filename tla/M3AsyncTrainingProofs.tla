------------------------- MODULE M3AsyncTrainingProofs -------------------------
(***************************************************************************)
(* Theorems about the context channel for every set of devices, every      *)
(* input and every bound: its type invariant, the single timer chain, the  *)
(* result slots and the held watermark; then that its rounds are scored in *)
(* the order in which they were accepted, none lost and none twice, and    *)
(* that it implements OrderedScoring; last, the data of the trainings.     *)
(*                                                                         *)
(* The invariant ScoringInv says of each device, and of its part of the    *)
(* last checkpoint, how its history, its buffer and its window belong      *)
(* together.  It rests on IInv.                                            *)
(***************************************************************************)
EXTENDS M3AsyncTraining, FiniteSums, SequenceTheorems

--------------------------------------------------------------------------------
(* Sequences and the arithmetic of windows. *)

\* The i-th of the a \div w full windows of length w lies within the sequence.
LEMMA DivBound ==
  ASSUME NEW a \in Nat, NEW w \in Nat \ {0}
  PROVE  /\ a \div w \in Nat /\ (a \div w) * w \in Nat /\ (a \div w) * w <= a
         /\ \A i \in 1..(a \div w) :
              /\ (i - 1) * w \in Nat /\ i * w \in Nat
              /\ (i - 1) * w + 1 <= i * w /\ i * w <= a
<1>1. a \div w \in Nat /\ (a \div w) * w \in Nat /\ (a \div w) * w <= a
  OBVIOUS
<1>2. ASSUME NEW i \in 1..(a \div w)
      PROVE  /\ (i - 1) * w \in Nat /\ i * w \in Nat
             /\ (i - 1) * w + 1 <= i * w /\ i * w <= a
  OBVIOUS
<1>. QED
  BY <1>1, <1>2

\* A part of a sequence, and a function on 1..n, are sequences.
LEMMA SubSeqType ==
  ASSUME NEW S, NEW s \in Seq(S), NEW m \in Nat \ {0}, NEW n \in Nat, n <= Len(s)
  PROVE  SubSeq(s, m, n) \in Seq(S)
<1>1. \A i \in m..n : i \in 1..Len(s)
  BY LenProperties
<1>2. \A i \in m..n : s[i] \in S
  BY <1>1, ElementOfSeq
<1>. QED
  BY <1>2, SubSeqProperties

\* A function from 1..n to S is a sequence of S.
LEMMA FunctionIsSeq ==
  ASSUME NEW S, NEW n \in Nat, NEW f \in [1..n -> S]
  PROVE  f \in Seq(S) /\ Len(f) = n
BY SeqDef

\* The lengths of the segments and of the buffer are natural numbers.
LEMMA Lengths ==
  /\ TrainRounds \in Nat /\ EsRounds \in Nat /\ ThRounds \in Nat
  /\ CollectRounds \in Nat /\ BufferCap \in Nat
<1>1. \A a, b \in Nat : a * b \in Nat
  OBVIOUS
<1>. QED
  BY <1>1, BoundsAssumption DEF TrainRounds, EsRounds, ThRounds, CollectRounds, BufferCap

\* Record timestamps are positive, so none is mistaken for NoTs.
LEMMA RoundTsPositive ==
  \A k \in Keys : \A n \in 1..NRounds : RoundTs[k][n] \in Nat /\ RoundTs[k][n] > 0
<1>1. ASSUME NEW k \in Keys, NEW n \in 1..NRounds
      PROVE  RoundTs[k][n] \in Nat \ {0}
  BY InputAssumption
<1>. QED
  BY <1>1

\* A round of the input has its type, and earlier rounds are not later in time.
LEMMA RoundType ==
  ASSUME NEW k \in Keys, NEW n \in 1..NRounds
  PROVE  /\ Round(k, n) \in RoundSet
         /\ Round(k, n).n = n /\ Round(k, n).ts = RoundTs[k][n] /\ Round(k, n).ts > 0
         /\ \A m \in 1..n : RoundTs[k][m] <= RoundTs[k][n]
BY InputAssumption, BoundsAssumption DEF Round, RoundSet

--------------------------------------------------------------------------------
(* What the handlers' parts do to a device's state keeps its type. *)

\* Setting a field to a value of its type.
LEMMA FieldUpdate ==
  ASSUME NEW d \in DeviceType
  PROVE  /\ \A n \in 0..NRounds : [d EXCEPT !.count = n] \in DeviceType
         /\ \A n \in Nat : [d EXCEPT !.timers = n] \in DeviceType
         /\ \A n \in 0..MaxFailures : [d EXCEPT !.failures = n] \in DeviceType
         /\ \A w \in Window : [d EXCEPT !.win = w] \in DeviceType
         /\ \A p \in Seq(RoundSet), n \in 0..BufferCap, h \in Nat :
              [d EXCEPT !.pending = p, !.size = n, !.head = h] \in DeviceType
         /\ \A m \in SUBSET Segments, s \in Segments :
              [d EXCEPT !.model = m, !.segs = s, !.phase = Online] \in DeviceType
BY DEF DeviceType

\* Setting the segments to a record of segments.
LEMMA SegmentUpdate ==
  ASSUME NEW d \in DeviceType, NEW s \in Seq(Window)
  PROVE  /\ [d EXCEPT !.segs.train = s] \in DeviceType
         /\ [d EXCEPT !.segs.es = s] \in DeviceType
         /\ [d EXCEPT !.segs.th = s] \in DeviceType
  BY  DEF DeviceType, Segments

\* Counting a round of the input keeps the device typed.
LEMMA CountedType ==
  ASSUME NEW d \in DeviceType, d.count < NRounds
  PROVE  Counted(d) \in DeviceType /\ Counted(d).count = d.count + 1
<1>1. d.count + 1 \in 0..NRounds
  BY BoundsAssumption DEF DeviceType
<1>. QED
  BY <1>1 DEF Counted, DeviceType

\* A submission keeps the device typed.
LEMMA SubmittedType ==
  ASSUME NEW d \in DeviceType
  PROVE  Submitted(d) \in DeviceType /\ TaskOf(d) \in TaskType
<1>1. d.taskId + 1 \in Nat /\ Training \in {Collecting, Training, Online}
  BY DEF DeviceType
<1>2. Submitted(d) \in DeviceType
  BY <1>1 DEF DeviceType, Submitted
<1>3. d.taskId \in Nat /\ d.segs \in Segments
  BY DEF DeviceType
<1>4. TaskOf(d) \in TaskType
  BY <1>3 DEF TaskOf, TaskType
<1>. QED
  BY <1>2, <1>4

\* Routing a full window to its segment keeps the device typed.
LEMMA RoutedType ==
  ASSUME NEW k \in Keys, NEW d \in DeviceType, NEW w \in Window
  PROVE  Routed(k, d, w) \in DeviceType
<1>1. /\ Append(d.segs.train, w) \in Seq(Window)
      /\ Append(d.segs.es, w) \in Seq(Window)
      /\ Append(d.segs.th, w) \in Seq(Window)
  BY AppendProperties DEF DeviceType, Segments
<1>2. /\ [d EXCEPT !.segs.train = Append(@, w)] \in DeviceType
      /\ [d EXCEPT !.segs.es = Append(@, w)] \in DeviceType
      /\ [d EXCEPT !.segs.th = Append(@, w)] \in DeviceType
  BY <1>1, SegmentUpdate
<1>3. d.excluded + 1 \in Nat
  BY DEF DeviceType
<1>4. [d EXCEPT !.excluded = @ + 1] \in DeviceType
  BY <1>3 DEF DeviceType
<1>5. SegmentOf(d.count) \in {"train", "es", "th", "none"}
  BY Lengths DEF SegmentOf, DeviceType, CollectRounds
<1>. QED
  BY <1>2, <1>4, <1>5 DEF Routed

\* Collecting a round keeps the device typed.
LEMMA CollectedType ==
  ASSUME NEW k \in Keys, NEW d \in DeviceType, d.count > 0
  PROVE  Collected(k, d) \in DeviceType
<1>. DEFINE w == Append(d.win, d.count)
<1>1. w \in Window /\ <<>> \in Window
  <2>1. d.win \in Seq(1..NRounds) /\ d.count \in 1..NRounds
    BY BoundsAssumption DEF DeviceType, Window
  <2>. QED
    BY <2>1, AppendProperties DEF Window
<1>2. \A e \in DeviceType : \A v \in Window : [e EXCEPT !.win = v] \in DeviceType
  BY DEF DeviceType
<1>. QED
  BY <1>1, <1>2, RoutedType DEF Collected

\* The full windows and the leftover of a list of rounds are windows.
LEMMA WindowsType ==
  ASSUME NEW all \in Window
  PROVE  /\ Windows(all) \in Seq(Window) /\ Leftover(all) \in Window
<1>1. Len(all) \in Nat /\ all \in Seq(1..NRounds)
  BY LenProperties DEF Window
<1>2. FullWindows(all) \in Nat /\ FullWindows(all) * WindowLength \in Nat
  BY <1>1, BoundsAssumption, DivBound DEF FullWindows
<1>3. Leftover(all) \in Window
  <2>1. \A m \in Nat \ {0} : SubSeq(all, m, Len(all)) \in Seq(1..NRounds)
    <3>1. Len(all) <= Len(all)
      BY <1>1
    <3>. QED
      BY <1>1, <3>1, SubSeqType
  <2>2. FullWindows(all) * WindowLength + 1 \in Nat \ {0}
    BY <1>2
  <2>. QED
    BY <2>1, <2>2 DEF Leftover, Window
<1>4. ASSUME NEW i \in 1..FullWindows(all)
      PROVE  SubSeq(all, (i - 1) * WindowLength + 1, i * WindowLength) \in Window
  <2>1. /\ (i - 1) * WindowLength \in Nat /\ i * WindowLength \in Nat
        /\ i * WindowLength <= Len(all)
    BY <1>1, <1>4, BoundsAssumption, DivBound DEF FullWindows
  <2>2. (i - 1) * WindowLength + 1 \in Nat \ {0}
    BY <2>1
  <2>. HIDE DEF FullWindows
  <2>3. SubSeq(all, (i - 1) * WindowLength + 1, i * WindowLength) \in Seq(1..NRounds)
    BY <1>1, <2>1, <2>2, SubSeqType
  <2>. QED
    BY <2>3 DEF Window
<1>5. Windows(all) \in Seq(Window)
  BY <1>2, <1>4, FunctionIsSeq DEF Windows
<1>. QED
  BY <1>3, <1>5

\* A batch taken from the buffer, and the window it is fed into.
LEMMA BatchType ==
  ASSUME NEW d \in DeviceType
  PROVE  /\ NextBatch(d) \in Seq(RoundSet) /\ Len(NextBatch(d)) <= Len(d.pending)
         /\ \A i \in 1..Len(NextBatch(d)) : NextBatch(d)[i] = d.pending[i]
<1>. DEFINE n == IF DrainBatch < Len(d.pending) THEN DrainBatch ELSE Len(d.pending)
<1>1. d.pending \in Seq(RoundSet) /\ Len(d.pending) \in Nat
  BY LenProperties DEF DeviceType
<1>2. n \in Nat /\ n <= Len(d.pending)
  BY <1>1, BoundsAssumption
<1>. QED
  BY <1>1, <1>2, SubSeqType, SubSeqProperties DEF NextBatch

\* The rounds fed to handleOnline are rounds of the input.
LEMMA FedType ==
  ASSUME NEW d \in DeviceType, NEW batch \in Seq(RoundSet)
  PROVE  Fed(d, batch) \in Window
<1>. Len(batch) \in Nat /\ \A i \in 1..Len(batch) : batch[i] \in RoundSet
  BY LenProperties, ElementOfSeq
<1>1. \A i \in 1..Len(batch) : batch[i].n \in 1..NRounds
  BY DEF RoundSet
<1>2. [i \in 1..Len(batch) |-> batch[i].n] \in Seq(1..NRounds)
  BY <1>1, FunctionIsSeq
<1>3. d.win \in Seq(1..NRounds)
  BY DEF DeviceType, Window
<1>. QED
  BY <1>2, <1>3, ConcatProperties DEF Fed, Window

\* Scoring a batch keeps the device and its history typed.
LEMMA ScoreType ==
  ASSUME NEW d \in DeviceType, NEW l \in LogType, NEW batch \in Seq(RoundSet)
  PROVE  /\ ScoreOnline(d, batch) \in DeviceType
         /\ ScoreLog(l, d, batch) \in LogType
         /\ ScoreLog(l, d, batch).scored = l.scored \o batch
<1>1. /\ Fed(d, batch) \in Window
      /\ Windows(Fed(d, batch)) \in Seq(Window) /\ Leftover(Fed(d, batch)) \in Window
  BY FedType, WindowsType
<1>2. ScoreOnline(d, batch) \in DeviceType
  BY <1>1, FieldUpdate DEF ScoreOnline
<1>3. /\ l.scored \o batch \in Seq(RoundSet)
      /\ l.records \o Windows(Fed(d, batch)) \in Seq(Window)
  BY <1>1, ConcatProperties DEF LogType
<1>4. ScoreLog(l, d, batch) \in LogType /\ ScoreLog(l, d, batch).scored = l.scored \o batch
  BY <1>3 DEF ScoreLog, LogType
<1>. QED
  BY <1>2, <1>4

\* Appending to the buffer within its limit.
LEMMA BufferedType ==
  ASSUME NEW d \in DeviceType, NEW r \in RoundSet
  PROVE  Buffered(d, r) \in DeviceType
<1>1. Append(d.pending, r) \in Seq(RoundSet) /\ r.ts \in Nat /\ d.head \in Nat
  BY AppendProperties DEF DeviceType, RoundSet
<1>2. HasRoom(d) => d.size + 1 \in 0..BufferCap
  BY Lengths DEF DeviceType, HasRoom
<1>. QED
  BY <1>1, <1>2, FieldUpdate DEF Buffered

\* Draining a batch, as long as the size counts the buffer.
LEMMA DrainedType ==
  ASSUME NEW d \in DeviceType, d.size = Len(d.pending)
  PROVE  Drained(d) \in DeviceType
<1>. DEFINE batch == NextBatch(d)
            rest == SubSeq(d.pending, Len(batch) + 1, Len(d.pending))
<1>1. /\ batch \in Seq(RoundSet) /\ Len(batch) \in Nat /\ Len(batch) <= Len(d.pending)
      /\ d.pending \in Seq(RoundSet) /\ Len(d.pending) \in 0..BufferCap
  BY BatchType, LenProperties DEF DeviceType
<1>2. /\ rest \in Seq(RoundSet) /\ Len(rest) \in 0..BufferCap
      /\ rest # <<>> => rest[1] \in RoundSet
  BY <1>1, SubSeqType, SubSeqProperties, Lengths, ElementOfSeq, LenProperties, EmptySeq
<1>3. (IF rest = <<>> THEN NoTs ELSE rest[1].ts) \in Nat
  BY <1>2 DEF RoundSet, NoTs
<1>4. ScoreOnline(d, batch) \in DeviceType
  <2>1. Leftover(Fed(d, batch)) \in Window
    BY <1>1, FedType, WindowsType
  <2>. QED
    BY <2>1, FieldUpdate DEF ScoreOnline
<1>. QED
  BY <1>2, <1>3, <1>4, FieldUpdate DEF Drained

\* What pollTraining finds, and when.
LEMMA PollCases ==
  ASSUME NEW k \in Keys, NEW d \in DeviceType, slot[k] \in TaskType
  PROVE  LET r == PollResult(k, d)
             t == slot[k]
         IN  /\ r \in {"resubmit", "idle", "pending", "retry", "giveUp", "apply"}
             /\ r = "resubmit" => t.status = "none" /\ d.model = NoModel /\ d.failures < MaxFailures
             /\ r = "idle" => t.status = "none"
             /\ r = "retry" => t.status \in {"done", "failed"} /\ d.failures + 1 < MaxFailures
             /\ r = "giveUp" => t.status \in {"done", "failed"}
             /\ r = "apply" => t.status = "done" /\ t.id = d.taskId
<1>1. slot[k].status \in {"none", "queued", "running", "done", "failed"} /\ d.failures \in Nat
  BY DEF TaskType, DeviceType, MaxFailures
<1>. QED
  BY <1>1 DEF PollResult, MaxFailures

\* Taking a training result over keeps the device typed.
LEMMA AppliedType ==
  ASSUME NEW d \in DeviceType, NEW t \in TaskType
  PROVE  Applied(d, t) \in DeviceType
<1>1. t.data \in Segments /\ {t.data} \in SUBSET Segments
  BY DEF TaskType
<1>2. EmptySegments \in Segments
  <2>1. <<>> \in Seq(Window)
    BY EmptySeq
  <2>. QED
    BY <2>1 DEF EmptySegments, Segments
<1>. QED
  BY <1>1, <1>2, FieldUpdate DEF Applied

\* Counting a failure below MAX_FAILURES keeps the device typed.
LEMMA FailedType ==
  ASSUME NEW d \in DeviceType, d.failures < MaxFailures
  PROVE  Failed(d) \in DeviceType
<1>1. d.failures + 1 \in 0..MaxFailures
  BY DEF DeviceType, MaxFailures
<1>. QED
  BY <1>1, FieldUpdate DEF Failed

--------------------------------------------------------------------------------
(* The inductive invariant. *)

\* The buffer's size and head describe it; its rounds came from the input, no
\* later than the last one counted, and their timestamps never decrease.
BufferOK(k, d) ==
  LET p == d.pending
  IN  /\ d.size = Len(p)
      /\ d.head = IF p = <<>> THEN NoTs ELSE p[1].ts
      /\ \A i \in 1..Len(p) : p[i].n <= d.count /\ p[i].ts = RoundTs[k][p[i].n]
      /\ \A i, j \in 1..Len(p) : i <= j => p[i].ts <= p[j].ts

\* Nothing is buffered or has failed before training starts, a model is there
\* from the moment the device is online, and the timer chain is single.
PhaseOK(d) ==
  /\ d.phase = Collecting => d.pending = <<>> /\ d.failures = 0
  /\ d.phase = Online <=> d.model # NoModel
  /\ d.timers = IF d.phase = Training \/ d.pending # <<>> THEN 1 ELSE 0

DeviceOK(k, d) == d \in DeviceType /\ BufferOK(k, d) /\ PhaseOK(d)

\* A task in the slot is the one the device waits for, and only devices that
\* have not given up have one.
SlotOK(d, t) ==
  /\ t \in TaskType
  /\ t.status # "none" =>
       d.phase = Training /\ t.id = d.taskId /\ t.data = d.segs /\ d.failures < MaxFailures

\* The buffered rounds are above the emitted watermark, the rounds to come
\* above the input watermark.
Above(k, d) ==
  /\ \A i \in 1..Len(d.pending) : d.pending[i].ts > emittedWm
  /\ d.count < NRounds => RoundTs[k][d.count + 1] > inputWm

\* The pool's queue holds the queued tasks, each of them once.
QueueOK ==
  /\ queue \in Seq(Keys)
  /\ \A i \in 1..Len(queue) : slot[queue[i]].status = "queued"
  /\ \A i, j \in 1..Len(queue) : i # j => queue[i] # queue[j]

DevicesInv ==
  /\ dev \in [Keys -> DeviceType] /\ \A k \in Keys : DeviceOK(k, dev[k])
  /\ slot \in [Keys -> TaskType] /\ \A k \in Keys : SlotOK(dev[k], slot[k])
  /\ QueueOK

WatermarkInv ==
  /\ inputWm \in Nat /\ emittedWm \in Nat /\ emittedWm <= inputWm
  /\ hold = [k \in Keys |-> dev[k].head]
  /\ \A k \in Keys : Above(k, dev[k])

RecoveryInv ==
  /\ log \in [Keys -> LogType]
  /\ ckpt \in [dev : [Keys -> DeviceType], log : [Keys -> LogType]]
  /\ \A k \in Keys : DeviceOK(k, ckpt.dev[k])
  /\ \A k \in Keys : Len(ckpt.log[k].scored) <= Len(log[k].scored)
  /\ nCkpt \in 0..MaxCheckpoints /\ nCrash \in 0..MaxCrashes

IInv == DevicesInv /\ WatermarkInv /\ RecoveryInv

--------------------------------------------------------------------------------
(* How the parts of the handlers move the invariant's parts. *)

\* A device that has seen no round satisfies the invariant.
LEMMA InitialDevice ==
  ASSUME NEW k \in Keys
  PROVE  DeviceOK(k, InitDevice) /\ InitLog \in LogType /\ NoTask \in TaskType
<1>1. EmptySegments \in Segments
  <2>1. <<>> \in Seq(Window)
    BY EmptySeq
  <2>. QED
    BY <2>1 DEF EmptySegments, Segments
<1>2. <<>> \in Window /\ <<>> \in Seq(RoundSet) /\ <<>> \in Seq(Window) /\ Len(<<>>) = 0
  BY EmptySeq DEF Window
<1>3. InitDevice \in DeviceType
  BY <1>1, <1>2, Lengths, BoundsAssumption
     DEF InitDevice, DeviceType, NoTs, NoModel, MaxFailures
<1>4. BufferOK(k, InitDevice) /\ PhaseOK(InitDevice)
  BY <1>2 DEF InitDevice, BufferOK, PhaseOK, NoTs, NoModel, Collecting, Training, Online
<1>5. InitLog \in LogType /\ NoTask \in TaskType
  BY <1>1, <1>2 DEF InitLog, LogType, NoTask, TaskType
<1>. QED
  BY <1>3, <1>4, <1>5 DEF DeviceOK

\* The invariant holds when the operator opens for the first time: no device
\* has seen a round, no task exists and nothing is held.
THEOREM IInvInitially == Init => IInv
<1>. SUFFICES ASSUME Init PROVE IInv
  OBVIOUS
<1>1. \A k \in Keys : DeviceOK(k, InitDevice) /\ InitDevice \in DeviceType
  BY InitialDevice DEF DeviceOK
<1>2. (InitLog \in LogType /\ NoTask \in TaskType) \/ Keys = {}
  BY InitialDevice
<1>3. <<>> \in Seq(Keys) /\ Len(<<>>) = 0
  BY EmptySeq
<1>4. DevicesInv
  BY <1>1, <1>2, <1>3 DEF Init, DevicesInv, QueueOK, SlotOK, NoTask
<1>5. WatermarkInv
  <2>1. \A k \in Keys : Above(k, InitDevice)
    BY <1>3, BoundsAssumption, InputAssumption DEF Above, Init, InitDevice
  <2>2. \A k \in Keys : InitDevice.head = NoTs
    BY DEF InitDevice
  <2>. QED
    BY <2>1, <2>2 DEF Init, WatermarkInv, Above
<1>6. RecoveryInv
  BY <1>1, <1>2, <1>3, BoundsAssumption DEF Init, RecoveryInv, InitLog
<1>. QED
  BY <1>4, <1>5, <1>6 DEF IInv

\* Appending the newest round to the buffer.
LEMMA BufferedOK ==
  ASSUME NEW k \in Keys, NEW d \in DeviceType, BufferOK(k, d), d.count < NRounds
  PROVE  LET r == Round(k, d.count + 1)
             e == Buffered(Counted(d), r)
         IN  /\ e \in DeviceType /\ BufferOK(k, e)
             /\ e.count = d.count + 1
             /\ e.phase = d.phase /\ e.model = d.model /\ e.timers = d.timers
             /\ e.taskId = d.taskId /\ e.segs = d.segs /\ e.failures = d.failures
             /\ e.head = IF HasRoom(d) /\ d.size = 0 THEN r.ts ELSE d.head
             /\ \A i \in 1..Len(e.pending) : e.pending[i] = r \/ \E j \in 1..Len(d.pending) : e.pending[i] = d.pending[j]
             /\ (e.pending # <<>>) <=> (d.pending # <<>> \/ HasRoom(d))
<1>. DEFINE r == Round(k, d.count + 1)
            c == Counted(d)
            e == Buffered(c, r)
<1>1. d.count + 1 \in 1..NRounds
  BY BoundsAssumption DEF DeviceType
<1>2. /\ r \in RoundSet /\ r.n = d.count + 1 /\ r.ts = RoundTs[k][d.count + 1] /\ r.ts \in Nat
      /\ \A m \in 1..d.count + 1 : RoundTs[k][m] <= r.ts
  BY <1>1, RoundType DEF RoundSet
<1>3. c \in DeviceType /\ c = [d EXCEPT !.count = d.count + 1]
  BY CountedType DEF Counted
<1>4. e \in DeviceType
  BY <1>2, <1>3, BufferedType
<1>5. /\ c.count = d.count + 1 /\ c.phase = d.phase /\ c.model = d.model /\ c.timers = d.timers
      /\ c.taskId = d.taskId /\ c.segs = d.segs /\ c.failures = d.failures
      /\ c.pending = d.pending /\ c.size = d.size /\ c.head = d.head
  BY <1>3 DEF DeviceType
<1>6. HasRoom(c) = HasRoom(d)
  BY <1>5 DEF HasRoom
<1>7. /\ d.pending \in Seq(RoundSet) /\ Len(d.pending) \in Nat /\ d.count \in Nat
      /\ \A i \in 1..Len(d.pending) : d.pending[i] \in RoundSet
  BY LenProperties, ElementOfSeq DEF DeviceType
<1>8. CASE ~HasRoom(d)
  <2>1. e = c
    BY <1>6, <1>8 DEF Buffered
  <2>. HIDE DEF c, r, e
  <2>2. BufferOK(k, c)
    BY SMTT(40), <1>5, <1>7 DEF BufferOK, RoundSet
  <2>3. /\ e \in DeviceType /\ BufferOK(k, e)
        /\ e.count = d.count + 1
        /\ e.phase = d.phase /\ e.model = d.model /\ e.timers = d.timers
        /\ e.taskId = d.taskId /\ e.segs = d.segs /\ e.failures = d.failures
        /\ e.head = d.head /\ e.pending = d.pending
    BY <1>3, <1>5, <2>1, <2>2
  <2>. QED
    BY <1>8, <2>3 DEF c, r, e
<1>9. CASE HasRoom(d)
  <2>. DEFINE p == Append(d.pending, r)
              h == IF d.size = 0 THEN r.ts ELSE d.head
  <2>. HIDE DEF r
  <2>1. /\ e.pending = p /\ e.size = d.size + 1 /\ e.head = h
        /\ e.count = d.count + 1 /\ e.phase = d.phase /\ e.model = d.model /\ e.timers = d.timers
        /\ e.taskId = d.taskId /\ e.segs = d.segs /\ e.failures = d.failures
    <3>. HIDE DEF c
    <3>1. e = [c EXCEPT !.pending = p, !.size = d.size + 1, !.head = h]
      BY <1>5, <1>6, <1>9 DEF Buffered
    <3>. HIDE DEF e, p, h
    <3>. QED
      BY <1>3, <1>5, <3>1 DEF DeviceType
  <2>2. /\ Len(p) = Len(d.pending) + 1 /\ p # <<>>
        /\ \A i \in 1..Len(d.pending) : p[i] = d.pending[i]
        /\ p[Len(d.pending) + 1] = r
    BY <1>2, <1>7, AppendProperties
  <2>. HIDE DEF p, e, c, r
  <2>3. \A i \in 1..Len(p) : p[i] = r \/ \E j \in 1..Len(d.pending) : p[i] = d.pending[j]
    BY <1>7, <2>2
  <2>4. \A i \in 1..Len(p) : p[i].n <= d.count + 1 /\ p[i].ts = RoundTs[k][p[i].n]
    <3>1. \A i \in 1..Len(d.pending) :
            d.pending[i].n <= d.count + 1 /\ d.pending[i].ts = RoundTs[k][d.pending[i].n]
      BY <1>7 DEF BufferOK, RoundSet
    <3>2. r.n <= d.count + 1 /\ r.ts = RoundTs[k][r.n]
      BY <1>2, <1>7
    <3>3. \A i \in 1..Len(p) : i \in 1..Len(d.pending) \/ i = Len(d.pending) + 1
      BY <1>7, <2>2
    <3>. QED
      BY <2>2, <3>1, <3>2, <3>3
  <2>5. \A i, j \in 1..Len(p) : i <= j => p[i].ts <= p[j].ts
    <3>1. ASSUME NEW i \in 1..Len(d.pending) PROVE d.pending[i].ts <= r.ts
      <4>1. d.pending[i].n \in 1..d.count + 1 /\ d.pending[i].ts = RoundTs[k][d.pending[i].n]
        BY SMTT(40), <1>7 DEF BufferOK, RoundSet
      <4>. QED
        BY <1>2, <4>1
    <3>2. \A i, j \in 1..Len(d.pending) : i <= j => d.pending[i].ts <= d.pending[j].ts
      BY DEF BufferOK
    <3>3. \A i \in 1..Len(p) : i \in 1..Len(d.pending) \/ i = Len(d.pending) + 1
      BY <1>7, <2>2
    <3>4. SUFFICES ASSUME NEW i \in 1..Len(p), NEW j \in 1..Len(p), i <= j
                   PROVE  p[i].ts <= p[j].ts
      OBVIOUS
    <3>5. CASE i = Len(d.pending) + 1
      BY <1>2, <1>7, <2>2, <3>3, <3>4, <3>5
    <3>6. CASE i \in 1..Len(d.pending) /\ j = Len(d.pending) + 1
      BY <2>2, <3>1, <3>6
    <3>7. CASE i \in 1..Len(d.pending) /\ j \in 1..Len(d.pending)
      BY <2>2, <3>2, <3>4, <3>7
    <3>. QED
      BY <3>3, <3>5, <3>6, <3>7
  <2>6. e.size = Len(p)
    BY <2>1, <2>2 DEF BufferOK
  <2>7. e.head = p[1].ts
    <3>1. d.size = Len(d.pending) /\ (d.pending # <<>> => d.head = d.pending[1].ts)
      BY DEF BufferOK
    <3>2. CASE d.size = 0
      BY <2>1, <2>2, <3>1, <3>2
    <3>3. CASE d.size # 0
      <4>1. d.pending # <<>> /\ 1 \in 1..Len(d.pending)
        BY <1>7, <3>1, <3>3, EmptySeq
      <4>. QED
        BY <2>1, <2>2, <3>1, <3>3, <4>1
    <3>. QED
      BY <3>2, <3>3
  <2>8. BufferOK(k, e)
    BY <2>1, <2>2, <2>4, <2>5, <2>6, <2>7 DEF BufferOK
  <2>. QED
    BY <1>4, <1>9, <2>1, <2>2, <2>3, <2>8 DEF e, r, c
<1>. QED
  BY <1>8, <1>9

\* Draining the head of the buffer leaves its tail.
LEMMA DrainedOK ==
  ASSUME NEW k \in Keys, NEW d \in DeviceType, BufferOK(k, d)
  PROVE  LET e == Drained(d)
         IN  /\ e \in DeviceType /\ BufferOK(k, e)
             /\ e.count = d.count /\ e.phase = d.phase /\ e.model = d.model
             /\ e.timers = d.timers /\ e.taskId = d.taskId /\ e.segs = d.segs
             /\ e.failures = d.failures
             /\ \A i \in 1..Len(e.pending) : \E j \in 1..Len(d.pending) : e.pending[i] = d.pending[j]
             /\ (e.pending # <<>>) => d.pending # <<>>
<1>. DEFINE e == Drained(d)
            batch == NextBatch(d)
            lo == Len(batch) + 1
            p == SubSeq(d.pending, lo, Len(d.pending))
            c == ScoreOnline(d, batch)
            h == IF p = <<>> THEN NoTs ELSE p[1].ts
<1>1. d.size = Len(d.pending)
  BY DEF BufferOK
<1>2. e \in DeviceType
  BY <1>1, DrainedType
<1>3. /\ batch \in Seq(RoundSet) /\ Len(batch) \in Nat /\ Len(batch) <= Len(d.pending)
      /\ d.pending \in Seq(RoundSet) /\ Len(d.pending) \in Nat
      /\ \A i \in 1..Len(d.pending) : d.pending[i] \in RoundSet
  BY BatchType, LenProperties, ElementOfSeq DEF DeviceType
<1>4. c \in DeviceType /\ c = [d EXCEPT !.win = Leftover(Fed(d, batch))]
  BY <1>3, FedType, WindowsType, FieldUpdate DEF ScoreOnline
<1>5. /\ c.count = d.count /\ c.phase = d.phase /\ c.model = d.model /\ c.timers = d.timers
      /\ c.taskId = d.taskId /\ c.segs = d.segs /\ c.failures = d.failures
  <2>. HIDE DEF batch
  <2>. QED
    BY <1>4 DEF DeviceType
<1>6. /\ e.pending = p /\ e.size = Len(p) /\ e.head = h
      /\ e.count = d.count /\ e.phase = d.phase /\ e.model = d.model
      /\ e.timers = d.timers /\ e.taskId = d.taskId /\ e.segs = d.segs
      /\ e.failures = d.failures
  <2>1. e = [c EXCEPT !.pending = p, !.size = Len(p), !.head = h]
    BY DEF Drained
  <2>. HIDE DEF c, e, p, h
  <2>. QED
    BY <1>4, <1>5, <2>1 DEF DeviceType
<1>. HIDE DEF batch, c, e
<1>7. /\ p \in Seq(RoundSet) /\ Len(p) \in Nat /\ Len(p) = Len(d.pending) - Len(batch)
      /\ \A i \in 1..Len(p) : p[i] = d.pending[Len(batch) + i]
  <2>1. lo \in Nat \ {0} /\ Len(d.pending) <= Len(d.pending)
    BY <1>3
  <2>2. p \in Seq(RoundSet)
    BY <1>3, <2>1, SubSeqType
  <2>3. \A i \in lo..Len(d.pending) : d.pending[i] \in RoundSet
    BY <1>3
  <2>4. /\ Len(p) = IF lo <= Len(d.pending) THEN Len(d.pending) - lo + 1 ELSE 0
        /\ \A i \in 1 .. Len(d.pending) - lo + 1 : p[i] = d.pending[lo + i - 1]
    BY <1>3, <2>1, <2>3, SubSeqProperties
  <2>. QED
    BY <1>3, <2>2, <2>4
<1>. HIDE DEF p, lo
<1>8. \A i \in 1..Len(p) : Len(batch) + i \in 1..Len(d.pending)
  BY <1>3, <1>7
<1>9. BufferOK(k, e)
  <2>1. \A i \in 1..Len(p) : p[i].n <= d.count /\ p[i].ts = RoundTs[k][p[i].n]
    BY <1>7, <1>8 DEF BufferOK
  <2>2. ASSUME NEW i \in 1..Len(p), NEW j \in 1..Len(p), i <= j
        PROVE  p[i].ts <= p[j].ts
    <3>1. Len(batch) + i <= Len(batch) + j
      BY <1>3, <1>7, <2>2
    <3>. QED
      BY <1>7, <1>8, <3>1 DEF BufferOK
  <2>. QED
    BY <1>6, <2>1, <2>2 DEF BufferOK
<1>10. (p # <<>>) => d.pending # <<>>
  <2>1. p # <<>> => Len(p) # 0
    BY <1>7, EmptySeq
  <2>2. d.pending = <<>> => Len(d.pending) = 0
    BY EmptySeq
  <2>. QED
    BY <1>3, <1>7, <2>1, <2>2
<1>. QED
  BY <1>2, <1>6, <1>7, <1>8, <1>9, <1>10 DEF e

\* What a handler of device k, whose slot becomes t, may do to the queue.
QueueStep(k, t) ==
  \/ queue' = queue /\ (slot[k].status = "queued" => t = slot[k])
  \/ queue' = Append(queue, k) /\ t.status = "queued" /\ slot[k].status # "queued"

\* A step that submits at most one task leaves the pool's queue consistent.
LEMMA QueueStepOK ==
  ASSUME QueueOK, NEW k \in Keys, NEW t, slot \in [Keys -> TaskType],
         slot' = [slot EXCEPT ![k] = t], QueueStep(k, t)
  PROVE  QueueOK'
<1>1. /\ queue \in Seq(Keys) /\ Len(queue) \in Nat
      /\ \A i \in 1..Len(queue) : queue[i] \in Keys /\ slot[queue[i]].status = "queued"
      /\ \A i, j \in 1..Len(queue) : i # j => queue[i] # queue[j]
  BY LenProperties, ElementOfSeq DEF QueueOK
<1>2. \A j \in Keys : slot'[j] = IF j = k THEN t ELSE slot[j]
  OBVIOUS
<1>3. CASE queue' = queue /\ (slot[k].status = "queued" => t = slot[k])
  BY <1>1, <1>2, <1>3 DEF QueueOK
<1>4. CASE queue' = Append(queue, k) /\ t.status = "queued" /\ slot[k].status # "queued"
  <2>1. /\ queue' \in Seq(Keys) /\ Len(queue') = Len(queue) + 1
        /\ \A i \in 1..Len(queue) : queue'[i] = queue[i] /\ queue'[i] # k
        /\ queue'[Len(queue) + 1] = k
    BY <1>1, <1>4, AppendProperties
  <2>2. \A i \in 1..Len(queue') : i \in 1..Len(queue) \/ i = Len(queue) + 1
    BY <1>1, <2>1
  <2>3. \A i \in 1..Len(queue') : slot'[queue'[i]].status = "queued"
    BY <1>1, <1>2, <1>4, <2>1, <2>2
  <2>4. \A i, j \in 1..Len(queue') : i # j => queue'[i] # queue'[j]
    BY <1>1, <2>1, <2>2
  <2>. QED
    BY <2>1, <2>3, <2>4 DEF QueueOK
<1>. QED
  BY <1>3, <1>4 DEF QueueStep

\* Polling a device whose slot is its own: what changes, and that the slot
\* stays its own.
LEMMA PolledOK ==
  ASSUME NEW k \in Keys, NEW d \in DeviceType, d.phase = Training, SlotOK(d, slot[k]),
         d.model = NoModel, slot \in [Keys -> TaskType], PollExecutor(k, d)
  PROVE  LET e == Polled(k, d)
         IN  /\ e \in DeviceType /\ SlotOK(e, slot'[k])
             /\ e.count = d.count /\ e.timers = d.timers
             /\ e.pending = d.pending /\ e.size = d.size /\ e.head = d.head
             /\ e.phase \in {Training, Online} /\ (e.phase = Online <=> e.model # NoModel)
             /\ slot' = [slot EXCEPT ![k] = slot'[k]] /\ QueueStep(k, slot'[k])
<1>. DEFINE e == Polled(k, d)
            t == slot[k]
            r == PollResult(k, d)
<1>1. /\ r \in {"resubmit", "idle", "pending", "retry", "giveUp", "apply"}
      /\ r = "resubmit" => t.status = "none" /\ d.model = NoModel /\ d.failures < MaxFailures
      /\ r = "idle" => t.status = "none"
      /\ r = "retry" => t.status \in {"done", "failed"} /\ d.failures + 1 < MaxFailures
      /\ r = "giveUp" => t.status \in {"done", "failed"}
      /\ r = "apply" => t.status = "done" /\ t.id = d.taskId
  BY PollCases
<1>2. t \in TaskType /\ d.failures \in Nat /\ NoTask \in TaskType
  BY InitialDevice DEF DeviceType, MaxFailures
<1>3. t.status # "none" => t.id = d.taskId /\ t.data = d.segs /\ d.failures < MaxFailures
  BY DEF SlotOK
<1>5. /\ r \in {"resubmit", "retry"} => slot'[k] = TaskOf(e)
      /\ r \in {"giveUp", "apply"} => slot'[k] = NoTask
      /\ r \in {"idle", "pending"} => slot'[k] = t
      /\ slot' = [slot EXCEPT ![k] = slot'[k]]
  BY <1>1 DEF PollExecutor
<1>4. QueueStep(k, slot'[k])
  <2>1. CASE r \in {"resubmit", "retry"}
    <3>1. queue' = Append(queue, k) /\ slot'[k] = TaskOf(e) /\ t.status # "queued"
      BY <1>1, <1>5, <2>1 DEF PollExecutor
    <3>. HIDE DEF e
    <3>. QED
      BY <3>1 DEF QueueStep, TaskOf
  <2>2. CASE r \in {"idle", "pending"}
    BY <1>5, <2>2 DEF PollExecutor, QueueStep
  <2>3. CASE r \in {"giveUp", "apply"}
    BY <1>1, <1>5, <2>3 DEF PollExecutor, QueueStep
  <2>. QED
    BY <1>1, <2>1, <2>2, <2>3
<1>6. ASSUME NEW f \in DeviceType, f.failures < MaxFailures
      PROVE  /\ Submitted(f) \in DeviceType /\ SlotOK(Submitted(f), TaskOf(Submitted(f)))
             /\ Submitted(f) = [f EXCEPT !.phase = Training, !.taskId = f.taskId + 1]
  <2>1. Submitted(f) \in DeviceType /\ TaskOf(Submitted(f)) \in TaskType
    BY SubmittedType
  <2>2. Submitted(f).phase = Training /\ Submitted(f).failures = f.failures
    BY DEF Submitted, DeviceType
  <2>. QED
    BY <1>6, <2>1, <2>2 DEF SlotOK, TaskOf, Submitted
<1>7. CASE r \in {"idle", "pending"}
  <2>1. e = d /\ slot'[k] = t
    BY <1>5, <1>7 DEF Polled
  <2>2. d.phase # Online
    BY DEF Training, Online
  <2>. QED
    BY <1>4, <1>5, <2>1, <2>2
<1>8. CASE r = "resubmit"
  <2>1. e = Submitted(d) /\ slot'[k] = TaskOf(e)
    BY <1>5, <1>8 DEF Polled
  <2>2. e \in DeviceType /\ SlotOK(e, slot'[k]) /\ e = [d EXCEPT !.phase = Training, !.taskId = d.taskId + 1]
    BY <1>1, <1>6, <1>8, <2>1
  <2>3. /\ e.count = d.count /\ e.timers = d.timers
        /\ e.pending = d.pending /\ e.size = d.size /\ e.head = d.head
        /\ e.phase = Training /\ e.model = d.model
    <3>. HIDE DEF e
    <3>. QED
      BY <2>2 DEF DeviceType
  <2>4. e.phase # Online
    BY <2>3 DEF Training, Online
  <2>. QED
    BY <1>4, <1>5, <2>2, <2>3, <2>4
<1>9. CASE r = "retry"
  <2>. DEFINE f == Failed(d)
  <2>1. f \in DeviceType /\ f = [d EXCEPT !.failures = d.failures + 1]
    BY <1>1, <1>3, <1>9, FailedType DEF Failed
  <2>2. e = Submitted(f) /\ slot'[k] = TaskOf(e)
    BY <1>5, <1>9 DEF Polled
  <2>3. /\ f.count = d.count /\ f.timers = d.timers /\ f.failures = d.failures + 1
        /\ f.pending = d.pending /\ f.size = d.size /\ f.head = d.head /\ f.model = d.model
    <3>. HIDE DEF f
    <3>. QED
      BY <2>1 DEF DeviceType
  <2>. HIDE DEF f
  <2>4. e \in DeviceType /\ SlotOK(e, slot'[k]) /\ e = [f EXCEPT !.phase = Training, !.taskId = f.taskId + 1]
    BY <1>1, <1>6, <1>9, <2>1, <2>2, <2>3
  <2>5. /\ e.count = d.count /\ e.timers = d.timers
        /\ e.pending = d.pending /\ e.size = d.size /\ e.head = d.head
        /\ e.phase = Training /\ e.model = d.model
    <3>. HIDE DEF e
    <3>. QED
      BY <2>1, <2>3, <2>4 DEF DeviceType
  <2>6. e.phase # Online
    BY <2>5 DEF Training, Online
  <2>. QED
    BY <1>4, <1>5, <2>4, <2>5, <2>6
<1>10. CASE r = "giveUp"
  <2>1. e \in DeviceType /\ e = [d EXCEPT !.failures = d.failures + 1] /\ slot'[k] = NoTask
    BY <1>1, <1>3, <1>5, <1>10, FailedType DEF Polled, Failed
  <2>2. /\ e.count = d.count /\ e.timers = d.timers
        /\ e.pending = d.pending /\ e.size = d.size /\ e.head = d.head
        /\ e.phase = Training /\ e.model = d.model
    <3>. HIDE DEF e
    <3>. QED
      BY <2>1 DEF DeviceType
  <2>3. e.phase # Online /\ SlotOK(e, slot'[k])
    BY <1>2, <2>1, <2>2 DEF Training, Online, SlotOK, NoTask
  <2>. QED
    BY <1>4, <1>5, <2>1, <2>2, <2>3
<1>11. CASE r = "apply"
  <2>1. e = [d EXCEPT !.model = {t.data}, !.segs = EmptySegments, !.phase = Online] /\ slot'[k] = NoTask
    BY <1>5, <1>11 DEF Polled, Applied
  <2>2. e \in DeviceType
    BY <1>2, <2>1, AppliedType DEF Applied
  <2>3. /\ e.count = d.count /\ e.timers = d.timers
        /\ e.pending = d.pending /\ e.size = d.size /\ e.head = d.head
        /\ e.phase = Online /\ e.model = {t.data}
    <3>. HIDE DEF e
    <3>. QED
      BY <2>1 DEF DeviceType
  <2>4. SlotOK(e, slot'[k]) /\ e.model # NoModel
    BY <1>2, <2>1, <2>3 DEF SlotOK, NoTask, NoModel
  <2>. QED
    BY <1>4, <1>5, <2>1, <2>2, <2>3, <2>4
<1>. QED
  BY <1>1, <1>7, <1>8, <1>9, <1>10, <1>11

\* The emitted watermark follows its limits and never moves back.
LEMMA ForwardOK ==
  ASSUME NEW h \in [Keys -> Nat], NEW wm \in Nat, emittedWm \in Nat, emittedWm <= wm,
         ForwardWatermark(h, wm)
  PROVE  /\ emittedWm' \in Nat /\ emittedWm' >= emittedWm /\ emittedWm' <= wm
         /\ \A k \in Keys : h[k] # NoTs => emittedWm' < h[k] \/ emittedWm' = emittedWm
<1>1. PICK target \in WatermarkLimits(h, wm) :
        /\ \A x \in WatermarkLimits(h, wm) : target <= x
        /\ emittedWm' = IF target > emittedWm THEN target ELSE emittedWm
  BY DEF ForwardWatermark
<1>2. wm \in WatermarkLimits(h, wm)
  BY DEF WatermarkLimits
<1>3. \A k \in Keys : h[k] # NoTs => h[k] - 1 \in WatermarkLimits(h, wm)
  BY DEF WatermarkLimits
<1>4. target \in Nat
  BY <1>1 DEF WatermarkLimits, NoTs
<1>5. \A k \in Keys : h[k] # NoTs => target <= h[k] - 1
  BY <1>1, <1>3
<1>6. target <= wm
  BY <1>1, <1>2
<1>. QED
  BY <1>1, <1>4, <1>5, <1>6

\* A buffer above the emitted watermark stays above it when it is forwarded.
LEMMA BufferStaysAbove ==
  ASSUME NEW k \in Keys, NEW d \in DeviceType, BufferOK(k, d),
         \A i \in 1..Len(d.pending) : d.pending[i].ts > emittedWm,
         emittedWm \in Nat, emittedWm' \in Nat,
         d.head # NoTs => emittedWm' < d.head \/ emittedWm' = emittedWm
  PROVE  \A i \in 1..Len(d.pending) : d.pending[i].ts > emittedWm'
<1>1. SUFFICES ASSUME NEW i \in 1..Len(d.pending)
               PROVE  d.pending[i].ts > emittedWm'
  OBVIOUS
<1>2. /\ d.pending \in Seq(RoundSet) /\ Len(d.pending) \in Nat /\ d.pending # <<>>
      /\ 1 \in 1..Len(d.pending) /\ 1 <= i
      /\ \A j \in 1..Len(d.pending) : d.pending[j] \in RoundSet
  BY LenProperties, ElementOfSeq, EmptySeq DEF DeviceType
<1>3. d.head = d.pending[1].ts /\ d.head <= d.pending[i].ts /\ d.head > emittedWm
  BY <1>2 DEF BufferOK
<1>4. d.head \in Nat /\ d.pending[i].ts \in Nat
  BY <1>2, <1>3 DEF RoundSet
<1>. QED
  BY <1>3, <1>4 DEF NoTs

\* What every handler of device k has in common: it changes the state, the
\* slot, the log and the hold of k alone and then forwards the watermark.
HandlerOf(k, d, t, l) ==
  /\ dev' = [dev EXCEPT ![k] = d]
  /\ slot' = [slot EXCEPT ![k] = t]
  /\ log' = [log EXCEPT ![k] = l]
  /\ hold' = [hold EXCEPT ![k] = d.head]
  /\ QueueStep(k, t)
  /\ ForwardWatermark(hold', inputWm)
  /\ UNCHANGED <<inputWm, ckpt, nCkpt, nCrash>>

\* A handler of one device preserves the invariant if it keeps that device, its
\* slot, the queue, the hold and the watermark right.
LEMMA HandlerPreservesIInv ==
  ASSUME IInv, NEW k \in Keys, NEW d, NEW t, NEW l,
         HandlerOf(k, d, t, l),
         DeviceOK(k, d), SlotOK(d, t),
         d.count >= dev[k].count,
         \A i \in 1..Len(d.pending) : d.pending[i].ts > emittedWm,
         l \in LogType, Len(l.scored) >= Len(log[k].scored)
  PROVE  IInv'
<1>. USE DEF HandlerOf
<1>1. d \in DeviceType /\ t \in TaskType
  BY DEF DeviceOK, SlotOK
<1>2. /\ dev \in [Keys -> DeviceType] /\ slot \in [Keys -> TaskType] /\ log \in [Keys -> LogType]
      /\ hold = [j \in Keys |-> dev[j].head]
      /\ \A j \in Keys : DeviceOK(j, dev[j]) /\ SlotOK(dev[j], slot[j]) /\ Above(j, dev[j])
      /\ inputWm \in Nat /\ emittedWm \in Nat /\ emittedWm <= inputWm
  BY DEF IInv, DevicesInv, WatermarkInv, RecoveryInv
<1>3. dev' \in [Keys -> DeviceType] /\ \A j \in Keys : dev'[j] = IF j = k THEN d ELSE dev[j]
  BY <1>1, <1>2
<1>4. slot' \in [Keys -> TaskType] /\ \A j \in Keys : slot'[j] = IF j = k THEN t ELSE slot[j]
  BY <1>1, <1>2
<1>5. log' \in [Keys -> LogType] /\ \A j \in Keys : log'[j] = IF j = k THEN l ELSE log[j]
  BY <1>2
<1>6. DevicesInv'
  <2>1. QueueOK'
    BY <1>2, QueueStepOK DEF IInv, DevicesInv
  <2>. QED
    BY <1>2, <1>3, <1>4, <2>1 DEF DevicesInv
<1>7. WatermarkInv'
  <2>1. hold' = [j \in Keys |-> dev'[j].head]
    BY <1>2, <1>3
  <2>2. hold' \in [Keys -> Nat]
    BY <1>3, <2>1 DEF DeviceType
  <2>3. /\ emittedWm' \in Nat /\ emittedWm' >= emittedWm /\ emittedWm' <= inputWm
        /\ \A j \in Keys : hold'[j] # NoTs => emittedWm' < hold'[j] \/ emittedWm' = emittedWm
    BY <1>2, <2>2, ForwardOK
  <2>4. ASSUME NEW j \in Keys
        PROVE  /\ \A i \in 1..Len(dev'[j].pending) : dev'[j].pending[i].ts > emittedWm
               /\ dev'[j].count < NRounds => RoundTs[j][dev'[j].count + 1] > inputWm
    <3>1. CASE j # k
      BY <1>2, <1>3, <3>1 DEF Above
    <3>2. CASE j = k
      <4>1. dev[k].count \in 0..NRounds /\ d.count \in 0..NRounds
        BY <1>1, <1>2 DEF DeviceType
      <4>2. dev[k].count < NRounds => RoundTs[k][dev[k].count + 1] > inputWm
        BY <1>2 DEF Above
      <4>3. d.count < NRounds => RoundTs[k][d.count + 1] > inputWm
        <5>1. SUFFICES ASSUME d.count < NRounds PROVE RoundTs[k][d.count + 1] > inputWm
          OBVIOUS
        <5>2. /\ dev[k].count + 1 \in 1..NRounds /\ d.count + 1 \in 1..NRounds
              /\ dev[k].count + 1 <= d.count + 1 /\ dev[k].count < NRounds
          BY <4>1, <5>1, BoundsAssumption
        <5>3. /\ RoundTs[k][dev[k].count + 1] <= RoundTs[k][d.count + 1]
              /\ RoundTs[k][dev[k].count + 1] \in Nat /\ RoundTs[k][d.count + 1] \in Nat
          BY <5>2, InputAssumption
        <5>. QED
          BY <1>2, <4>2, <5>2, <5>3
      <4>. QED
        BY <1>3, <3>2, <4>3
    <3>. QED
      BY <3>1, <3>2
  <2>5. ASSUME NEW j \in Keys
        PROVE  \A i \in 1..Len(dev'[j].pending) : dev'[j].pending[i].ts > emittedWm'
    <3>1. dev'[j] \in DeviceType /\ BufferOK(j, dev'[j])
      BY <1>6 DEF DevicesInv, DeviceOK
    <3>2. dev'[j].head # NoTs => emittedWm' < dev'[j].head \/ emittedWm' = emittedWm
      BY <2>1, <2>3
    <3>. QED
      BY <1>2, <2>3, <2>4, <3>1, <3>2, BufferStaysAbove
  <2>. QED
    BY <1>2, <2>1, <2>3, <2>4, <2>5 DEF WatermarkInv, Above
<1>8. RecoveryInv'
  <2>1. \A j \in Keys : Len(ckpt.log[j].scored) <= Len(log'[j].scored)
    <3>1. /\ \A j \in Keys : Len(ckpt.log[j].scored) <= Len(log[j].scored)
          /\ Len(ckpt.log[k].scored) \in Nat /\ Len(log[k].scored) \in Nat /\ Len(l.scored) \in Nat
      BY <1>2, LenProperties DEF IInv, RecoveryInv, LogType
    <3>. QED
      BY <1>5, <3>1
  <2>. QED
    BY <1>5, <2>1 DEF IInv, RecoveryInv
<1>. QED
  BY <1>6, <1>7, <1>8 DEF IInv

\* The buffer has room for a round: bufferCap() is at least two days.
LEMMA CapPositive == BufferCap > 0
<1>1. \A a, b \in Nat \ {0} : a * b \in Nat \ {0}
  OBVIOUS
<1>. QED
  BY <1>1, BoundsAssumption DEF BufferCap

\* The empty history has its type.
LEMMA InitialLogType == InitLog \in LogType
<1>1. <<>> \in Seq(RoundSet) /\ <<>> \in Seq(Window)
  BY EmptySeq
<1>. QED
  BY <1>1 DEF InitLog, LogType

\* Collecting touches the window, the segments and the exclusion counter alone.
SameDevice(c, d) ==
  /\ d.phase = c.phase /\ d.count = c.count /\ d.pending = c.pending /\ d.size = c.size
  /\ d.head = c.head /\ d.taskId = c.taskId /\ d.failures = c.failures
  /\ d.model = c.model /\ d.timers = c.timers

\* Collecting leaves the phase, the buffer, the task and the timers alone.
LEMMA CollectedSame ==
  ASSUME NEW k \in Keys, NEW c \in DeviceType, c.count > 0
  PROVE  SameDevice(c, Collected(k, c))
<1>. DEFINE w == Append(c.win, c.count)
            q == Routed(k, c, w)
<1>1. w \in Window
  <2>1. c.win \in Seq(1..NRounds) /\ c.count \in 1..NRounds
    BY BoundsAssumption DEF DeviceType, Window
  <2>. QED
    BY <2>1, AppendProperties DEF Window
<1>2. q \in DeviceType
  BY <1>1, RoutedType
<1>3. SegmentOf(c.count) \in {"train", "es", "th", "none"}
  BY Lengths DEF SegmentOf, DeviceType, CollectRounds
<1>4. SameDevice(c, q)
  <2>. HIDE DEF w
  <2>. QED
    BY <1>3 DEF Routed, SameDevice, DeviceType
<1>5. SameDevice(c, [q EXCEPT !.win = <<>>]) /\ SameDevice(c, [c EXCEPT !.win = w])
  <2>. HIDE DEF w, q
  <2>. QED
    BY <1>2, <1>4 DEF SameDevice, DeviceType
<1>. QED
  BY <1>5 DEF Collected

--------------------------------------------------------------------------------
(* Every step preserves the invariant. *)

\* What the invariant says of one device, unfolded once for all handlers.
LEMMA Unfolded ==
  ASSUME IInv, NEW k \in Keys
  PROVE  /\ dev \in [Keys -> DeviceType] /\ dev[k] \in DeviceType
         /\ BufferOK(k, dev[k]) /\ PhaseOK(dev[k])
         /\ slot \in [Keys -> TaskType] /\ SlotOK(dev[k], slot[k]) /\ queue \in Seq(Keys) /\ QueueOK
         /\ log \in [Keys -> LogType] /\ log[k] \in LogType /\ Len(log[k].scored) \in Nat
         /\ hold = [j \in Keys |-> dev[j].head] /\ hold[k] = dev[k].head
         /\ Above(k, dev[k])
         /\ inputWm \in Nat /\ emittedWm \in Nat /\ emittedWm <= inputWm
         /\ dev[k].count \in Nat /\ Len(dev[k].pending) \in Nat
<1>1. /\ dev \in [Keys -> DeviceType] /\ dev[k] \in DeviceType
      /\ BufferOK(k, dev[k]) /\ PhaseOK(dev[k])
      /\ slot \in [Keys -> TaskType] /\ SlotOK(dev[k], slot[k]) /\ queue \in Seq(Keys) /\ QueueOK
      /\ log \in [Keys -> LogType] /\ log[k] \in LogType
      /\ hold = [j \in Keys |-> dev[j].head] /\ hold[k] = dev[k].head
      /\ Above(k, dev[k])
      /\ inputWm \in Nat /\ emittedWm \in Nat /\ emittedWm <= inputWm
  BY DEF IInv, DevicesInv, WatermarkInv, RecoveryInv, DeviceOK, QueueOK
<1>2. Len(log[k].scored) \in Nat /\ dev[k].count \in Nat /\ Len(dev[k].pending) \in Nat
  BY <1>1, LenProperties DEF LogType, DeviceType
<1>. QED
  BY <1>1, <1>2

\* The next round is above the emitted watermark.
LEMMA NextRoundAbove ==
  ASSUME IInv, NEW k \in Keys, dev[k].count < NRounds
  PROVE  LET r == Round(k, dev[k].count + 1)
         IN  r \in RoundSet /\ r.ts > emittedWm /\ r.ts = RoundTs[k][r.n]
<1>1. dev[k].count + 1 \in 1..NRounds
  BY Unfolded, BoundsAssumption DEF DeviceType
<1>2. RoundTs[k][dev[k].count + 1] > inputWm /\ RoundTs[k][dev[k].count + 1] \in Nat
  BY <1>1, Unfolded, InputAssumption DEF Above
<1>. QED
  BY <1>1, <1>2, RoundType, Unfolded

\* A round collected, or the round that ends collecting and submits, keeps IInv.
LEMMA CollectRoundStep ==
  ASSUME IInv, NEW k \in Keys, CollectRound(k)
  PROVE  IInv'
<1>. DEFINE c == Counted(dev[k])
            d == Collected(k, c)
            submits == d.win = <<>> /\ d.count >= CollectRounds
            s == Submitted(d)
            e == IF submits THEN [s EXCEPT !.timers = @ + 1] ELSE d
            t == IF submits THEN TaskOf(s) ELSE slot[k]
<1>1. /\ dev[k].phase = Collecting /\ dev[k].count < NRounds
      /\ dev[k] \in DeviceType /\ BufferOK(k, dev[k]) /\ PhaseOK(dev[k])
      /\ SlotOK(dev[k], slot[k]) /\ slot \in [Keys -> TaskType] /\ queue \in Seq(Keys)
      /\ hold = [j \in Keys |-> dev[j].head] /\ hold[k] = dev[k].head
      /\ log \in [Keys -> LogType] /\ log[k] \in LogType /\ Len(log[k].scored) \in Nat
      /\ dev[k].count \in Nat
  BY Unfolded DEF CollectRound, Arrives
<1>2. /\ dev[k].pending = <<>> /\ dev[k].failures = 0 /\ dev[k].timers = 0
      /\ dev[k].model = NoModel /\ dev[k].head = NoTs /\ dev[k].size = 0
      /\ slot[k].status = "none"
  <2>1. dev[k].pending = <<>> /\ dev[k].failures = 0 /\ dev[k].timers = 0 /\ dev[k].model = NoModel
    BY <1>1 DEF PhaseOK, Collecting, Training, Online
  <2>2. dev[k].head = NoTs /\ dev[k].size = 0
    BY <1>1, <2>1, EmptySeq DEF BufferOK
  <2>3. slot[k].status = "none"
    BY <1>1 DEF SlotOK, Collecting, Training
  <2>. QED
    BY <2>1, <2>2, <2>3
<1>3. /\ c \in DeviceType /\ c.count = dev[k].count + 1 /\ c.count > 0
      /\ c = [dev[k] EXCEPT !.count = dev[k].count + 1]
  BY <1>1, CountedType DEF Counted
<1>4. d \in DeviceType
  BY <1>3, CollectedType
<1>5. SameDevice(c, d)
  BY <1>3, CollectedSame
<1>. HIDE DEF d
<1>6. /\ d.pending = <<>> /\ d.failures = 0 /\ d.timers = 0 /\ d.model = NoModel
      /\ d.head = NoTs /\ d.size = 0 /\ d.count = dev[k].count + 1 /\ d.phase = Collecting
  <2>. HIDE DEF c
  <2>. QED
    BY <1>1, <1>2, <1>3, <1>5 DEF SameDevice, DeviceType
<1>7. s \in DeviceType /\ TaskOf(s) \in TaskType /\ s = [d EXCEPT !.phase = Training, !.taskId = d.taskId + 1]
  BY <1>4, SubmittedType DEF Submitted
<1>8. e \in DeviceType /\ DeviceOK(k, e) /\ SlotOK(e, t) /\ e.head = NoTs /\ e.pending = <<>>
      /\ e.count = dev[k].count + 1
  <2>1. CASE ~submits
    <3>1. e = d /\ t = slot[k]
      BY <2>1
    <3>2. BufferOK(k, d) /\ PhaseOK(d)
      BY <1>6, EmptySeq DEF BufferOK, PhaseOK, Collecting, Training, Online
    <3>3. SlotOK(d, slot[k])
      BY <1>1, <1>2 DEF SlotOK
    <3>. QED
      BY <1>4, <1>6, <3>1, <3>2, <3>3 DEF DeviceOK
  <2>2. CASE submits
    <3>1. e = [s EXCEPT !.timers = @ + 1] /\ t = TaskOf(s)
      BY <2>2
    <3>2. /\ s.phase = Training /\ s.pending = <<>> /\ s.failures = 0 /\ s.timers = 0
          /\ s.model = NoModel /\ s.head = NoTs /\ s.size = 0 /\ s.count = dev[k].count + 1
      <4>. HIDE DEF s
      <4>. QED
        BY <1>4, <1>6, <1>7 DEF DeviceType
    <3>3. e \in DeviceType
      <4>1. e = [s EXCEPT !.timers = 1]
        BY <3>1, <3>2
      <4>. HIDE DEF s, e
      <4>. QED
        BY <1>7, <4>1, FieldUpdate
    <3>4. /\ e.phase = Training /\ e.pending = <<>> /\ e.failures = 0 /\ e.timers = 1
          /\ e.model = NoModel /\ e.head = NoTs /\ e.size = 0 /\ e.count = dev[k].count + 1
          /\ e.taskId = s.taskId /\ e.segs = s.segs
      <4>. HIDE DEF s, e
      <4>. QED
        BY <1>7, <3>1, <3>2 DEF DeviceType
    <3>5. BufferOK(k, e) /\ PhaseOK(e)
      <4>. HIDE DEF e
      <4>. QED
        BY <3>4, EmptySeq DEF BufferOK, PhaseOK, Collecting, Training, Online
    <3>6. SlotOK(e, t)
      <4>1. t.id = s.taskId /\ t.data = s.segs
        BY <3>1 DEF TaskOf
      <4>. HIDE DEF e, s, t
      <4>. QED
        BY <1>7, <3>1, <3>4, <4>1 DEF SlotOK, MaxFailures
    <3>. QED
      BY <3>3, <3>4, <3>5, <3>6 DEF DeviceOK
  <2>. QED
    BY <2>1, <2>2
<1>9. HandlerOf(k, e, t, log[k])
  <2>1. dev' = [dev EXCEPT ![k] = e]
    BY DEF CollectRound, d
  <2>2. slot' = [slot EXCEPT ![k] = t]
    BY <1>1 DEF CollectRound, d
  <2>3. hold' = hold /\ log' = log /\ ForwardWatermark(hold', inputWm)
    BY DEF CollectRound
  <2>4. hold' = [hold EXCEPT ![k] = e.head]
    <3>. HIDE DEF e
    <3>. QED
      BY <1>1, <1>2, <1>8, <2>3
  <2>5. log' = [log EXCEPT ![k] = log[k]]
    BY <1>1, <2>3
  <2>6. QueueStep(k, t)
    <3>1. CASE submits
      <4>1. queue' = Append(queue, k)
        BY <3>1 DEF CollectRound, d
      <4>2. t = TaskOf(s)
        BY <3>1
      <4>. QED
        BY <1>2, <4>1, <4>2 DEF QueueStep, TaskOf
    <3>2. CASE ~submits
      <4>1. queue' = queue
        BY <3>2 DEF CollectRound, d
      <4>. QED
        BY <3>2, <4>1 DEF QueueStep
    <3>. QED
      BY <3>1, <3>2
  <2>7. UNCHANGED <<inputWm, ckpt, nCkpt, nCrash>>
    BY DEF CollectRound, Arrives
  <2>. QED
    BY <2>1, <2>2, <2>3, <2>4, <2>5, <2>6, <2>7 DEF HandlerOf
<1>10. \A i \in 1..Len(e.pending) : e.pending[i].ts > emittedWm
  <2>1. Len(e.pending) = 0
    BY <1>8, EmptySeq
  <2>. QED
    BY <2>1
<1>. HIDE DEF e, t
<1>11. e.count >= dev[k].count /\ Len(log[k].scored) >= Len(log[k].scored)
  BY <1>1, <1>8
<1>. QED
  BY <1>1, <1>8, <1>9, <1>10, <1>11, HandlerPreservesIInv


\* A round buffered and the slot polled once keeps IInv.
LEMMA BufferWhileTrainingStep ==
  ASSUME IInv, NEW k \in Keys, BufferWhileTraining(k)
  PROVE  IInv'
<1>. DEFINE r == Round(k, dev[k].count + 1)
            d == Buffered(Counted(dev[k]), r)
            e == Polled(k, d)
            l == [log[k] EXCEPT !.accepted = IF HasRoom(dev[k]) THEN Append(@, r) ELSE @]
<1>1. /\ dev[k].phase = Training /\ dev[k].count < NRounds
      /\ dev[k] \in DeviceType /\ BufferOK(k, dev[k]) /\ PhaseOK(dev[k])
      /\ SlotOK(dev[k], slot[k]) /\ slot \in [Keys -> TaskType] /\ queue \in Seq(Keys)
      /\ hold = [j \in Keys |-> dev[j].head] /\ hold[k] = dev[k].head
      /\ log \in [Keys -> LogType] /\ log[k] \in LogType /\ Len(log[k].scored) \in Nat
      /\ dev[k].count \in Nat /\ Above(k, dev[k])
  BY Unfolded DEF BufferWhileTraining, Arrives
<1>2. r \in RoundSet /\ r.ts > emittedWm
  BY <1>1, NextRoundAbove
<1>3. /\ d \in DeviceType /\ BufferOK(k, d)
      /\ d.count = dev[k].count + 1
      /\ d.phase = dev[k].phase /\ d.model = dev[k].model /\ d.timers = dev[k].timers
      /\ d.taskId = dev[k].taskId /\ d.segs = dev[k].segs /\ d.failures = dev[k].failures
      /\ d.head = IF HasRoom(dev[k]) /\ dev[k].size = 0 THEN r.ts ELSE dev[k].head
      /\ \A i \in 1..Len(d.pending) : d.pending[i] = r \/ \E j \in 1..Len(dev[k].pending) : d.pending[i] = dev[k].pending[j]
  BY <1>1, BufferedOK
<1>4. /\ dev' = [dev EXCEPT ![k] = e] /\ PollExecutor(k, d) /\ hold' = BufferHold(k, r)
      /\ log' = [log EXCEPT ![k].accepted = IF HasRoom(dev[k]) THEN Append(@, r) ELSE @]
      /\ ForwardWatermark(hold', inputWm)
      /\ UNCHANGED <<inputWm, ckpt, nCkpt, nCrash>>
  BY DEF BufferWhileTraining, BufferLog, Arrives
<1>. HIDE DEF d, e, r
<1>5. d.model = NoModel /\ d.timers = 1 /\ SlotOK(d, slot[k]) /\ d.phase = Training
  BY <1>1, <1>3 DEF PhaseOK, SlotOK, Training, Online
<1>6. /\ e \in DeviceType /\ SlotOK(e, slot'[k])
      /\ e.count = d.count /\ e.timers = d.timers
      /\ e.pending = d.pending /\ e.size = d.size /\ e.head = d.head
      /\ e.phase \in {Training, Online} /\ (e.phase = Online <=> e.model # NoModel)
      /\ slot' = [slot EXCEPT ![k] = slot'[k]] /\ QueueStep(k, slot'[k])
  BY <1>1, <1>3, <1>4, <1>5, PolledOK DEF e
<1>7. BufferOK(k, e)
  BY <1>3, <1>6 DEF BufferOK
<1>8. d.pending # <<>>
  <2>1. CASE HasRoom(dev[k])
    BY <1>1, <2>1, BufferedOK DEF d, r
  <2>2. CASE ~HasRoom(dev[k])
    <3>1. dev[k].size > 0
      BY <1>1, <2>2, CapPositive DEF HasRoom, DeviceType
    <3>2. dev[k].pending # <<>>
      BY <1>1, <3>1, EmptySeq DEF BufferOK
    <3>. QED
      BY <1>1, <3>2, BufferedOK DEF d, r
  <2>. QED
    BY <2>1, <2>2
<1>9. PhaseOK(e)
  BY <1>5, <1>6, <1>8 DEF PhaseOK, Collecting, Training, Online
<1>10. /\ l \in LogType /\ l.scored = log[k].scored
       /\ log' = [log EXCEPT ![k] = l]
  <2>1. (IF HasRoom(dev[k]) THEN Append(log[k].accepted, r) ELSE log[k].accepted) \in Seq(RoundSet)
    BY <1>1, <1>2, AppendProperties DEF LogType
  <2>. QED
    BY <1>1, <1>4, <2>1 DEF LogType
<1>11. hold' = [hold EXCEPT ![k] = e.head]
  BY <1>1, <1>3, <1>4, <1>6 DEF BufferHold
<1>12. HandlerOf(k, e, slot'[k], l)
  <2>. HIDE DEF l
  <2>. QED
    BY <1>4, <1>6, <1>10, <1>11 DEF HandlerOf
<1>13. \A i \in 1..Len(e.pending) : e.pending[i].ts > emittedWm
  <2>1. \A i \in 1..Len(d.pending) : d.pending[i].ts > emittedWm
    BY <1>1, <1>2, <1>3 DEF Above
  <2>. QED
    BY <1>6, <2>1
<1>. HIDE DEF l
<1>14. DeviceOK(k, e) /\ e.count >= dev[k].count /\ Len(l.scored) >= Len(log[k].scored)
  BY <1>1, <1>3, <1>6, <1>7, <1>9, <1>10 DEF DeviceOK
<1>. QED
  BY <1>6, <1>10, <1>12, <1>13, <1>14, HandlerPreservesIInv

\* A round appended behind a draining buffer keeps IInv.
LEMMA BufferWhileDrainingStep ==
  ASSUME IInv, NEW k \in Keys, BufferWhileDraining(k)
  PROVE  IInv'
<1>. DEFINE r == Round(k, dev[k].count + 1)
            d == Buffered(Counted(dev[k]), r)
            l == [log[k] EXCEPT !.accepted = IF HasRoom(dev[k]) THEN Append(@, r) ELSE @]
<1>1. /\ dev[k].phase = Online /\ dev[k].count < NRounds /\ dev[k].size > 0
      /\ dev[k] \in DeviceType /\ BufferOK(k, dev[k]) /\ PhaseOK(dev[k])
      /\ SlotOK(dev[k], slot[k]) /\ slot \in [Keys -> TaskType] /\ queue \in Seq(Keys)
      /\ hold = [j \in Keys |-> dev[j].head] /\ hold[k] = dev[k].head
      /\ log \in [Keys -> LogType] /\ log[k] \in LogType /\ Len(log[k].scored) \in Nat
      /\ dev[k].count \in Nat /\ Above(k, dev[k])
  BY Unfolded DEF BufferWhileDraining, Arrives
<1>2. r \in RoundSet /\ r.ts > emittedWm
  BY <1>1, NextRoundAbove
<1>3. /\ d \in DeviceType /\ BufferOK(k, d)
      /\ d.count = dev[k].count + 1
      /\ d.phase = dev[k].phase /\ d.model = dev[k].model /\ d.timers = dev[k].timers
      /\ d.taskId = dev[k].taskId /\ d.segs = dev[k].segs /\ d.failures = dev[k].failures
      /\ d.head = IF HasRoom(dev[k]) /\ dev[k].size = 0 THEN r.ts ELSE dev[k].head
      /\ \A i \in 1..Len(d.pending) : d.pending[i] = r \/ \E j \in 1..Len(dev[k].pending) : d.pending[i] = dev[k].pending[j]
      /\ (d.pending # <<>>) <=> (dev[k].pending # <<>> \/ HasRoom(dev[k]))
  BY <1>1, BufferedOK
<1>4. /\ dev' = [dev EXCEPT ![k] = d] /\ hold' = BufferHold(k, r)
      /\ log' = [log EXCEPT ![k].accepted = IF HasRoom(dev[k]) THEN Append(@, r) ELSE @]
      /\ ForwardWatermark(hold', inputWm)
      /\ UNCHANGED <<slot, queue, inputWm, ckpt, nCkpt, nCrash>>
  BY DEF BufferWhileDraining, BufferLog, Arrives
<1>. HIDE DEF d, r
<1>5. dev[k].pending # <<>> /\ d.pending # <<>>
  BY <1>1, <1>3, EmptySeq DEF BufferOK
<1>6. PhaseOK(d) /\ SlotOK(d, slot[k])
  BY <1>1, <1>3, <1>5 DEF PhaseOK, SlotOK, Collecting, Training, Online
<1>7. /\ l \in LogType /\ l.scored = log[k].scored
      /\ log' = [log EXCEPT ![k] = l]
  <2>1. (IF HasRoom(dev[k]) THEN Append(log[k].accepted, r) ELSE log[k].accepted) \in Seq(RoundSet)
    BY <1>1, <1>2, AppendProperties DEF LogType
  <2>. QED
    BY <1>1, <1>4, <2>1 DEF LogType
<1>8. hold' = [hold EXCEPT ![k] = d.head]
  BY <1>1, <1>3, <1>4 DEF BufferHold
<1>9. HandlerOf(k, d, slot[k], l)
  <2>. HIDE DEF l
  <2>. QED
    BY <1>1, <1>4, <1>7, <1>8 DEF HandlerOf, QueueStep
<1>10. \A i \in 1..Len(d.pending) : d.pending[i].ts > emittedWm
  BY <1>1, <1>2, <1>3 DEF Above
<1>. HIDE DEF l
<1>11. DeviceOK(k, d) /\ d.count >= dev[k].count /\ Len(l.scored) >= Len(log[k].scored)
  BY <1>1, <1>3, <1>6, <1>7 DEF DeviceOK
<1>. QED
  BY <1>6, <1>7, <1>9, <1>10, <1>11, HandlerPreservesIInv

\* Scoring leaves everything but the window of the device alone.
LEMMA ScoredSame ==
  ASSUME NEW d \in DeviceType, NEW batch \in Seq(RoundSet)
  PROVE  LET e == ScoreOnline(d, batch)
         IN  SameDevice(d, e) /\ e.segs = d.segs /\ e \in DeviceType
<1>. DEFINE w == Leftover(Fed(d, batch))
<1>1. ScoreOnline(d, batch) \in DeviceType /\ ScoreOnline(d, batch) = [d EXCEPT !.win = w]
  BY ScoreType, InitialLogType DEF ScoreOnline
<1>. HIDE DEF w
<1>. QED
  BY <1>1 DEF SameDevice, DeviceType

\* A round scored at once keeps IInv.
LEMMA ScoreDirectlyStep ==
  ASSUME IInv, NEW k \in Keys, ScoreDirectly(k)
  PROVE  IInv'
<1>. DEFINE r == Round(k, dev[k].count + 1)
            c == Counted(dev[k])
            e == ScoreOnline(c, <<r>>)
            m == [log[k] EXCEPT !.accepted = Append(@, r)]
            l == ScoreLog(m, c, <<r>>)
<1>1. /\ dev[k].phase = Online /\ dev[k].count < NRounds /\ ~(dev[k].size > 0)
      /\ dev[k] \in DeviceType /\ BufferOK(k, dev[k]) /\ PhaseOK(dev[k])
      /\ SlotOK(dev[k], slot[k]) /\ slot \in [Keys -> TaskType] /\ queue \in Seq(Keys)
      /\ hold = [j \in Keys |-> dev[j].head] /\ hold[k] = dev[k].head
      /\ log \in [Keys -> LogType] /\ log[k] \in LogType /\ Len(log[k].scored) \in Nat
      /\ dev[k].count \in Nat /\ Len(dev[k].pending) \in Nat /\ Above(k, dev[k])
  BY Unfolded DEF ScoreDirectly, Arrives
<1>2. r \in RoundSet /\ <<r>> \in Seq(RoundSet) /\ Len(<<r>>) = 1
  BY <1>1, NextRoundAbove
<1>3. c \in DeviceType /\ c = [dev[k] EXCEPT !.count = dev[k].count + 1]
  BY <1>1, CountedType DEF Counted
<1>4. /\ m \in LogType /\ m.scored = log[k].scored
  <2>1. Append(log[k].accepted, r) \in Seq(RoundSet)
    BY <1>1, <1>2, AppendProperties DEF LogType
  <2>. QED
    BY <1>1, <2>1 DEF LogType
<1>5. /\ dev' = [dev EXCEPT ![k] = e] /\ log' = [log EXCEPT ![k] = l]
      /\ ForwardWatermark(hold, inputWm)
      /\ UNCHANGED <<slot, queue, hold, inputWm, ckpt, nCkpt, nCrash>>
  BY DEF ScoreDirectly, Arrives
<1>. HIDE DEF c, r, m
<1>6. l \in LogType /\ l.scored = log[k].scored \o <<r>>
  BY <1>2, <1>3, <1>4, ScoreType
<1>7. Len(l.scored) >= Len(log[k].scored)
  BY <1>1, <1>2, <1>6, ConcatProperties DEF LogType
<1>8. SameDevice(c, e) /\ e.segs = c.segs /\ e \in DeviceType
  BY <1>2, <1>3, ScoredSame
<1>. HIDE DEF e, l
<1>9. /\ e.phase = Online /\ e.count = dev[k].count + 1 /\ e.pending = dev[k].pending
      /\ e.size = dev[k].size /\ e.head = dev[k].head /\ e.model = dev[k].model
      /\ e.timers = dev[k].timers /\ e.taskId = dev[k].taskId /\ e.segs = dev[k].segs
      /\ e.failures = dev[k].failures
  BY <1>1, <1>3, <1>8 DEF SameDevice, DeviceType
<1>10. Len(dev[k].pending) = 0 /\ dev[k].pending = <<>> /\ dev[k].head = NoTs
  BY <1>1, EmptySeq DEF BufferOK, DeviceType
<1>11. BufferOK(k, e) /\ PhaseOK(e) /\ SlotOK(e, slot[k])
  <2>1. BufferOK(k, e)
    BY <1>1, <1>9, <1>10 DEF BufferOK
  <2>2. PhaseOK(e) /\ SlotOK(e, slot[k])
    BY <1>1, <1>9 DEF PhaseOK, SlotOK, Collecting, Training, Online
  <2>. QED
    BY <2>1, <2>2
<1>12. HandlerOf(k, e, slot[k], l)
  <2>1. hold' = [hold EXCEPT ![k] = e.head]
    BY <1>1, <1>5, <1>9
  <2>. QED
    BY <1>1, <1>5, <2>1 DEF HandlerOf, QueueStep
<1>13. \A i \in 1..Len(e.pending) : e.pending[i].ts > emittedWm
  BY <1>1, <1>9 DEF Above
<1>14. DeviceOK(k, e) /\ e.count >= dev[k].count
  BY <1>1, <1>8, <1>9, <1>11 DEF DeviceOK
<1>. QED
  BY <1>6, <1>7, <1>11, <1>12, <1>13, <1>14, HandlerPreservesIInv

\* A timer that fires takes the chain's one timer.
LEMMA FiredOK ==
  ASSUME IInv, NEW k \in Keys, dev[k].timers > 0
  PROVE  LET d == Fired(k)
         IN  /\ d \in DeviceType /\ SlotOK(d, slot[k]) /\ BufferOK(k, d)
             /\ d.timers = 0 /\ d.count = dev[k].count /\ d.phase = dev[k].phase
             /\ d.pending = dev[k].pending /\ d.size = dev[k].size /\ d.head = dev[k].head
             /\ d.phase \in {Training, Online} /\ (d.phase = Online <=> d.model # NoModel)
<1>. DEFINE d == Fired(k)
<1>1. dev[k] \in DeviceType /\ BufferOK(k, dev[k]) /\ PhaseOK(dev[k]) /\ SlotOK(dev[k], slot[k])
  BY Unfolded
<1>2. dev[k].timers = 1
  BY <1>1 DEF PhaseOK
<1>3. d = [dev[k] EXCEPT !.timers = 0]
  BY <1>2 DEF Fired
<1>4. d \in DeviceType
  BY ZenonT(40), <1>1, <1>3, FieldUpdate
<1>5. /\ d.timers = 0 /\ d.count = dev[k].count /\ d.phase = dev[k].phase
      /\ d.pending = dev[k].pending /\ d.size = dev[k].size /\ d.head = dev[k].head
      /\ d.taskId = dev[k].taskId /\ d.segs = dev[k].segs /\ d.failures = dev[k].failures
      /\ d.model = dev[k].model
  <2>. HIDE DEF d
  <2>. QED
    BY <1>1, <1>3 DEF DeviceType
<1>. HIDE DEF d
<1>6. d.phase \in {Training, Online} /\ (d.phase = Online <=> d.model # NoModel)
  BY <1>1, <1>2, <1>5 DEF PhaseOK, DeviceType, Collecting, Training, Online
<1>7. SlotOK(d, slot[k]) /\ BufferOK(k, d)
  BY <1>1, <1>5 DEF SlotOK, BufferOK
<1>. QED
  BY <1>4, <1>5, <1>6, <1>7 DEF d

\* After the poll the device waits or is online, with its buffer untouched.
LEMMA TimerPollOK ==
  ASSUME IInv, NEW k \in Keys, OnTimer(k)
  PROVE  LET d == AfterTimerPoll(k)
         IN  /\ d \in DeviceType /\ SlotOK(d, slot'[k]) /\ BufferOK(k, d)
             /\ d.timers = 0 /\ d.count = dev[k].count
             /\ d.pending = dev[k].pending /\ d.size = dev[k].size /\ d.head = dev[k].head
             /\ d.phase \in {Training, Online} /\ (d.phase = Online <=> d.model # NoModel)
             /\ slot' = [slot EXCEPT ![k] = slot'[k]] /\ QueueStep(k, slot'[k])
<1>. DEFINE c == Fired(k)
            d == AfterTimerPoll(k)
<1>1. /\ c \in DeviceType /\ SlotOK(c, slot[k]) /\ BufferOK(k, c)
      /\ c.timers = 0 /\ c.count = dev[k].count /\ c.phase = dev[k].phase
      /\ c.pending = dev[k].pending /\ c.size = dev[k].size /\ c.head = dev[k].head
      /\ c.phase \in {Training, Online} /\ (c.phase = Online <=> c.model # NoModel)
  BY FiredOK DEF OnTimer
<1>2. slot \in [Keys -> TaskType] /\ queue \in Seq(Keys)
  BY Unfolded
<1>3. CASE TimerPolls(k)
  <2>1. d = Polled(k, c) /\ PollExecutor(k, c) /\ c.phase = Training /\ c.model = NoModel
    BY <1>1, <1>3 DEF AfterTimerPoll, OnTimer, TimerPolls, Training, Online
  <2>. HIDE DEF d, c
  <2>2. /\ d \in DeviceType /\ SlotOK(d, slot'[k])
        /\ d.count = c.count /\ d.timers = c.timers
        /\ d.pending = c.pending /\ d.size = c.size /\ d.head = c.head
        /\ d.phase \in {Training, Online} /\ (d.phase = Online <=> d.model # NoModel)
        /\ slot' = [slot EXCEPT ![k] = slot'[k]] /\ QueueStep(k, slot'[k])
    BY <1>1, <1>2, <2>1, PolledOK
  <2>3. BufferOK(k, d)
    BY <1>1, <2>2 DEF BufferOK
  <2>. QED
    BY <1>1, <2>2, <2>3 DEF d
<1>4. CASE ~TimerPolls(k)
  <2>1. d = c /\ UNCHANGED <<slot, queue>>
    BY <1>4 DEF AfterTimerPoll, OnTimer
  <2>. HIDE DEF d, c
  <2>2. slot' = [slot EXCEPT ![k] = slot'[k]] /\ QueueStep(k, slot'[k]) /\ slot'[k] = slot[k]
    BY <1>2, <2>1 DEF QueueStep
  <2>. QED
    BY <1>1, <2>1, <2>2 DEF d
<1>. QED
  BY <1>3, <1>4

\* A timer that polls, drains and re-registers itself keeps IInv.
LEMMA OnTimerStep ==
  ASSUME IInv, NEW k \in Keys, OnTimer(k)
  PROVE  IInv'
<1>. DEFINE d == AfterTimerPoll(k)
            e == IF Draining(d) THEN Drained(d) ELSE d
            f == Rearmed(e)
            l == IF Draining(d) THEN ScoreLog(log[k], d, NextBatch(d)) ELSE log[k]
<1>1. /\ d \in DeviceType /\ SlotOK(d, slot'[k]) /\ BufferOK(k, d)
      /\ d.timers = 0 /\ d.count = dev[k].count
      /\ d.pending = dev[k].pending /\ d.size = dev[k].size /\ d.head = dev[k].head
      /\ d.phase \in {Training, Online} /\ (d.phase = Online <=> d.model # NoModel)
      /\ slot' = [slot EXCEPT ![k] = slot'[k]] /\ QueueStep(k, slot'[k])
  BY TimerPollOK
<1>2. /\ hold = [j \in Keys |-> dev[j].head] /\ hold[k] = dev[k].head
      /\ log \in [Keys -> LogType] /\ log[k] \in LogType /\ Len(log[k].scored) \in Nat
      /\ dev[k].count \in Nat /\ Above(k, dev[k])
  BY Unfolded
<1>3. /\ dev' = [dev EXCEPT ![k] = f]
      /\ log' = [log EXCEPT ![k] = IF Draining(d) THEN ScoreLog(@, d, NextBatch(d)) ELSE @]
      /\ hold' = [hold EXCEPT ![k] = IF Draining(d) THEN e.head ELSE @]
      /\ ForwardWatermark(hold', inputWm)
      /\ UNCHANGED <<inputWm, ckpt, nCkpt, nCrash>>
  BY DEF OnTimer
<1>. HIDE DEF d
<1>4. /\ e \in DeviceType /\ BufferOK(k, e)
      /\ e.count = d.count /\ e.phase = d.phase /\ e.model = d.model
      /\ e.timers = d.timers /\ e.taskId = d.taskId /\ e.segs = d.segs
      /\ e.failures = d.failures
      /\ \A i \in 1..Len(e.pending) : \E j \in 1..Len(d.pending) : e.pending[i] = d.pending[j]
  BY <1>1, DrainedOK
<1>5. hold' = [hold EXCEPT ![k] = e.head]
  BY <1>1, <1>2, <1>3
<1>6. l \in LogType /\ Len(l.scored) >= Len(log[k].scored) /\ log' = [log EXCEPT ![k] = l]
  <2>1. CASE Draining(d)
    <3>1. NextBatch(d) \in Seq(RoundSet)
      BY <1>1, BatchType
    <3>2. l \in LogType /\ l.scored = log[k].scored \o NextBatch(d)
      BY <1>1, <1>2, <2>1, <3>1, ScoreType
    <3>3. Len(l.scored) = Len(log[k].scored) + Len(NextBatch(d)) /\ Len(NextBatch(d)) \in Nat
      BY ZenonT(40), <1>2, <3>1, <3>2, ConcatProperties, LenProperties DEF LogType
    <3>. QED
      BY <1>2, <1>3, <2>1, <3>2, <3>3
  <2>2. CASE ~Draining(d)
    BY <1>2, <1>3, <2>2
  <2>. QED
    BY <2>1, <2>2
<1>. HIDE DEF e, l
<1>7. Len(e.pending) \in Nat /\ e.size = Len(e.pending) /\ (Len(e.pending) > 0 <=> e.pending # <<>>)
  BY <1>4, LenProperties, EmptySeq DEF BufferOK, DeviceType
<1>8. f = [e EXCEPT !.timers = IF e.phase = Training \/ e.pending # <<>> THEN 1 ELSE 0]
  <2>1. (e.phase = Training \/ Draining(e)) <=> (e.phase = Training \/ e.pending # <<>>)
    BY <1>1, <1>4, <1>7 DEF Draining
  <2>2. e.timers + 1 = 1 /\ e = [e EXCEPT !.timers = 0]
    BY <1>1, <1>4 DEF DeviceType
  <2>. QED
    BY <2>1, <2>2 DEF Rearmed
<1>9. f \in DeviceType
  <2>. DEFINE n == IF e.phase = Training \/ e.pending # <<>> THEN 1 ELSE 0
  <2>1. n \in Nat /\ f = [e EXCEPT !.timers = n]
    BY <1>8
  <2>. HIDE DEF n, f
  <2>. QED
    BY <1>4, <2>1, FieldUpdate
<1>. HIDE DEF f
<1>10. /\ f.count = e.count /\ f.phase = e.phase /\ f.model = e.model
       /\ f.taskId = e.taskId /\ f.segs = e.segs /\ f.failures = e.failures
       /\ f.pending = e.pending /\ f.size = e.size /\ f.head = e.head
       /\ f.timers = IF e.phase = Training \/ e.pending # <<>> THEN 1 ELSE 0
  BY <1>4, <1>8 DEF DeviceType
<1>11. BufferOK(k, f)
  BY <1>4, <1>10 DEF BufferOK
<1>12. PhaseOK(f) /\ SlotOK(f, slot'[k])
  BY <1>1, <1>4, <1>10 DEF PhaseOK, SlotOK, Collecting, Training, Online
<1>13. HandlerOf(k, f, slot'[k], l)
  BY <1>1, <1>3, <1>5, <1>6, <1>10 DEF HandlerOf
<1>14. \A i \in 1..Len(f.pending) : f.pending[i].ts > emittedWm
  <2>1. \A i \in 1..Len(d.pending) : d.pending[i].ts > emittedWm
    BY <1>1, <1>2 DEF Above
  <2>2. \A i \in 1..Len(e.pending) : e.pending[i].ts > emittedWm
    BY <1>4, <2>1
  <2>. QED
    BY <1>10, <2>2
<1>15. DeviceOK(k, f) /\ f.count >= dev[k].count
  BY <1>1, <1>2, <1>4, <1>9, <1>10, <1>11, <1>12 DEF DeviceOK
<1>. QED
  BY <1>6, <1>12, <1>13, <1>14, <1>15, HandlerPreservesIInv


\* A watermark from M2, held or forwarded, keeps IInv.
LEMMA ProcessWatermarkStep ==
  ASSUME IInv, NEW w \in Timestamps, ProcessWatermark(w)
  PROVE  IInv'
<1>1. w \in Nat
  BY RoundTsPositive DEF Timestamps
<1>2. /\ w > inputWm /\ OnTime(w) /\ inputWm' = w /\ ForwardWatermark(hold, w)
      /\ UNCHANGED <<dev, log, slot, queue, hold, ckpt, nCkpt, nCrash>>
  BY DEF ProcessWatermark
<1>3. /\ inputWm \in Nat /\ emittedWm \in Nat /\ emittedWm <= inputWm
      /\ hold = [k \in Keys |-> dev[k].head] /\ dev \in [Keys -> DeviceType]
      /\ \A k \in Keys : DeviceOK(k, dev[k]) /\ Above(k, dev[k])
  BY DEF IInv, WatermarkInv, DevicesInv
<1>4. hold \in [Keys -> Nat] /\ emittedWm <= w
  BY <1>1, <1>2, <1>3 DEF DeviceType
<1>5. /\ emittedWm' \in Nat /\ emittedWm' <= w
      /\ \A k \in Keys : hold[k] # NoTs => emittedWm' < hold[k] \/ emittedWm' = emittedWm
  BY <1>1, <1>2, <1>3, <1>4, ForwardOK
<1>6. ASSUME NEW k \in Keys
      PROVE  Above(k, dev[k])'
  <2>1. \A i \in 1..Len(dev[k].pending) : dev[k].pending[i].ts > emittedWm'
    <3>1. dev[k] \in DeviceType /\ BufferOK(k, dev[k]) /\ Above(k, dev[k])
      BY <1>3 DEF DeviceOK
    <3>2. dev[k].head # NoTs => emittedWm' < dev[k].head \/ emittedWm' = emittedWm
      BY <1>3, <1>5
    <3>. QED
      BY <1>3, <1>5, <3>1, <3>2, BufferStaysAbove DEF Above
  <2>2. dev[k].count < NRounds => RoundTs[k][dev[k].count + 1] > w
    <3>1. dev[k].count < NRounds => /\ w < RoundTs[k][dev[k].count + 1]
                                    /\ dev[k].count + 1 \in 1..NRounds
      BY <1>2, <1>3, BoundsAssumption DEF OnTime, DeviceType
    <3>. QED
      BY <1>1, <3>1, InputAssumption
  <2>. QED
    BY <1>2, <2>1, <2>2 DEF Above
<1>7. WatermarkInv'
  BY <1>1, <1>2, <1>3, <1>5, <1>6 DEF WatermarkInv
<1>8. DevicesInv' /\ RecoveryInv'
  BY <1>2 DEF IInv, DevicesInv, QueueOK, RecoveryInv
<1>. QED
  BY <1>7, <1>8 DEF IInv

\* The training threads touch their slots and the queue alone.
LEMMA TrainingStep ==
  ASSUME IInv, NEW k \in Keys, NEW result \in {"done", "failed"},
         TrainStart(k) \/ TrainEnd(k, result)
  PROVE  IInv'
<1>. DEFINE status == slot'[k].status
<1>1. /\ slot \in [Keys -> TaskType] /\ \A j \in Keys : SlotOK(dev[j], slot[j])
      /\ queue \in Seq(Keys) /\ QueueOK
  BY DEF IInv, DevicesInv, QueueOK
<1>2. UNCHANGED <<dev, log, hold, inputWm, emittedWm, ckpt, nCkpt, nCrash>>
  BY DEF TrainStart, TrainEnd
<1>4. slot[k].status # "none" =>
        /\ dev[k].phase = Training /\ slot[k].id = dev[k].taskId
        /\ slot[k].data = dev[k].segs /\ dev[k].failures < MaxFailures
  BY <1>1 DEF SlotOK
<1>5. PICK s \in {"running", "done", "failed"} :
        slot[k].status # "none" /\ slot' = [slot EXCEPT ![k].status = s]
  <2>1. CASE TrainEnd(k, result)
    BY <2>1 DEF TrainEnd
  <2>2. CASE TrainStart(k)
    <3>1. queue[1] = k /\ 1 \in 1..Len(queue)
      BY <1>1, <2>2, HeadTailProperties, LenProperties, EmptySeq DEF TrainStart
    <3>2. slot[k].status = "queued"
      BY <1>1, <3>1 DEF QueueOK
    <3>. QED
      BY <2>2, <3>2 DEF TrainStart
  <2>. QED
    BY <2>1, <2>2
<1>3. QueueOK'
  <2>1. \A j \in Keys : j # k => slot'[j] = slot[j]
    BY <1>5
  <2>2. CASE TrainEnd(k, result)
    <3>1. \A i \in 1..Len(queue) : queue[i] \in Keys /\ queue[i] # k
      BY <1>1, <2>2, LenProperties, ElementOfSeq DEF TrainEnd, QueueOK
    <3>2. queue' = queue
      BY <2>2 DEF TrainEnd
    <3>. QED
      BY <1>1, <2>1, <3>1, <3>2 DEF QueueOK
  <2>3. CASE TrainStart(k)
    <3>1. queue' = Tail(queue) /\ queue # <<>> /\ Head(queue) = k
      BY <2>3 DEF TrainStart
    <3>2. /\ queue' \in Seq(Keys) /\ Len(queue) \in Nat \ {0} /\ Len(queue') = Len(queue) - 1
          /\ \A i \in 1..Len(queue') : queue'[i] = queue[i + 1]
          /\ queue[1] = k
      BY <1>1, <3>1, HeadTailProperties, EmptySeq
    <3>3. \A i \in 1..Len(queue') : i + 1 \in 1..Len(queue) /\ i + 1 # 1 /\ 1 \in 1..Len(queue)
      BY <3>2
    <3>4. \A i \in 1..Len(queue') : queue'[i] \in Keys /\ queue'[i] # k
      BY <1>1, <3>2, <3>3, LenProperties, ElementOfSeq DEF QueueOK
    <3>5. \A i, j \in 1..Len(queue') : i # j => queue'[i] # queue'[j]
      <4>1. \A i, j \in 1..Len(queue') : i # j => i + 1 # j + 1
        OBVIOUS
      <4>. QED
        BY SMTT(40), <1>1, <3>2, <3>3, <4>1 DEF QueueOK
    <3>6. \A i \in 1..Len(queue') : slot'[queue'[i]].status = "queued"
      BY <1>1, <2>1, <3>2, <3>3, <3>4 DEF QueueOK
    <3>. QED
      BY <3>2, <3>5, <3>6 DEF QueueOK
  <2>. QED
    BY <2>2, <2>3
<1>6. slot' \in [Keys -> TaskType] /\ \A j \in Keys : SlotOK(dev[j], slot'[j])
  BY <1>1, <1>4, <1>5 DEF TaskType, SlotOK
<1>7. DevicesInv'
  BY <1>2, <1>3, <1>6 DEF IInv, DevicesInv
<1>8. WatermarkInv' /\ RecoveryInv'
  BY <1>2 DEF IInv, WatermarkInv, RecoveryInv, Above
<1>. QED
  BY <1>7, <1>8 DEF IInv

\* A checkpoint of the keyed state keeps IInv.
LEMMA CheckpointStep ==
  ASSUME IInv, Checkpoint
  PROVE  IInv'
<1>1. /\ nCkpt < MaxCheckpoints /\ nCkpt' = nCkpt + 1 /\ ckpt' = [dev |-> dev, log |-> log]
      /\ UNCHANGED <<dev, log, slot, queue, hold, inputWm, emittedWm, nCrash>>
  BY DEF Checkpoint
<1>2. DevicesInv' /\ WatermarkInv'
  BY <1>1 DEF IInv, DevicesInv, QueueOK, WatermarkInv, Above
<1>3. RecoveryInv'
  <2>1. nCkpt' \in 0..MaxCheckpoints
    BY <1>1, BoundsAssumption DEF IInv, RecoveryInv
  <2>2. \A k \in Keys : Len(log[k].scored) <= Len(log[k].scored)
    BY Unfolded
  <2>. QED
    BY <1>1, <2>1, <2>2 DEF IInv, DevicesInv, RecoveryInv
<1>. QED
  BY <1>2, <1>3 DEF IInv

\* A restart from the last checkpoint keeps IInv.
LEMMA CrashStep ==
  ASSUME IInv, CrashAndRestore
  PROVE  IInv'
<1>1. /\ nCrash < MaxCrashes /\ nCrash' = nCrash + 1
      /\ dev' = ckpt.dev /\ log' = ckpt.log
      /\ slot' = [k \in Keys |-> NoTask] /\ queue' = <<>>
      /\ hold' = [k \in Keys |-> RestoredHold(ckpt.dev[k])]
      /\ inputWm' = 0 /\ emittedWm' = 0 /\ ckpt' = ckpt /\ nCkpt' = nCkpt
  BY DEF CrashAndRestore
<1>2. /\ ckpt.dev \in [Keys -> DeviceType] /\ ckpt.log \in [Keys -> LogType]
      /\ \A k \in Keys : DeviceOK(k, ckpt.dev[k])
  BY DEF IInv, RecoveryInv
<1>3. DevicesInv'
  <2>1. \A k \in Keys : NoTask \in TaskType /\ SlotOK(ckpt.dev[k], NoTask)
    BY InitialDevice DEF SlotOK, NoTask
  <2>2. <<>> \in Seq(Keys) /\ Len(<<>>) = 0
    BY EmptySeq
  <2>3. QueueOK'
    BY <1>1, <2>2 DEF QueueOK
  <2>. QED
    BY <1>1, <1>2, <2>1, <2>3 DEF DevicesInv
<1>4. WatermarkInv'
  <2>1. ASSUME NEW k \in Keys
        PROVE  /\ RestoredHold(ckpt.dev[k]) = ckpt.dev[k].head
               /\ \A i \in 1..Len(ckpt.dev[k].pending) : ckpt.dev[k].pending[i].ts > 0
               /\ ckpt.dev[k].count < NRounds => RoundTs[k][ckpt.dev[k].count + 1] > 0
    <3>. DEFINE d == ckpt.dev[k]
    <3>1. d \in DeviceType /\ BufferOK(k, d)
      BY <1>2 DEF DeviceOK
    <3>. HIDE DEF d
    <3>2. /\ d.pending \in Seq(RoundSet) /\ Len(d.pending) \in Nat /\ d.size = Len(d.pending)
          /\ \A i \in 1..Len(d.pending) : d.pending[i] \in RoundSet
      BY <3>1, LenProperties, ElementOfSeq DEF DeviceType, BufferOK
    <3>3. RestoredHold(d) = d.head
      BY <3>1, <3>2, EmptySeq DEF RestoredHold, BufferOK
    <3>4. \A i \in 1..Len(d.pending) : d.pending[i].ts > 0
      BY <3>1, <3>2, RoundTsPositive DEF BufferOK, RoundSet
    <3>5. d.count < NRounds => RoundTs[k][d.count + 1] > 0
      <4>1. d.count < NRounds => d.count + 1 \in 1..NRounds
        BY <3>1, BoundsAssumption DEF DeviceType
      <4>. QED
        BY <4>1, RoundTsPositive
    <3>. QED
      BY <3>3, <3>4, <3>5 DEF d
  <2>. QED
    BY <1>1, <2>1 DEF WatermarkInv, Above
<1>5. RecoveryInv'
  <2>1. nCrash' \in 0..MaxCrashes
    BY <1>1, BoundsAssumption DEF IInv, RecoveryInv
  <2>2. \A k \in Keys : Len(ckpt.log[k].scored) <= Len(ckpt.log[k].scored)
    BY <1>2, LenProperties DEF LogType
  <2>. QED
    BY <1>1, <1>2, <2>1, <2>2 DEF IInv, RecoveryInv
<1>. QED
  BY <1>3, <1>4, <1>5 DEF IInv

\* Every step of the task thread, the training threads, a checkpoint and a
\* restart preserves the invariant.
THEOREM IInvStep == IInv /\ [Next]_vars => IInv'
<1>. SUFFICES ASSUME IInv, [Next]_vars PROVE IInv'
  OBVIOUS
<1>1. ASSUME NEW k \in Keys, CollectRound(k) PROVE IInv'
  BY <1>1, CollectRoundStep
<1>2. ASSUME NEW k \in Keys, BufferWhileTraining(k) PROVE IInv'
  BY <1>2, BufferWhileTrainingStep
<1>3. ASSUME NEW k \in Keys, BufferWhileDraining(k) PROVE IInv'
  BY <1>3, BufferWhileDrainingStep
<1>4. ASSUME NEW k \in Keys, ScoreDirectly(k) PROVE IInv'
  BY <1>4, ScoreDirectlyStep
<1>5. ASSUME NEW k \in Keys, OnTimer(k) PROVE IInv'
  BY <1>5, OnTimerStep
<1>6. ASSUME NEW w \in Timestamps, ProcessWatermark(w) PROVE IInv'
  BY <1>6, ProcessWatermarkStep
<1>7. ASSUME NEW k \in Keys, TrainStart(k) PROVE IInv'
  BY <1>7, TrainingStep
<1>8. ASSUME NEW k \in Keys, NEW result \in {"done", "failed"}, TrainEnd(k, result) PROVE IInv'
  BY <1>8, TrainingStep
<1>9. CASE Checkpoint
  BY <1>9, CheckpointStep
<1>10. CASE CrashAndRestore
  BY <1>10, CrashStep
<1>11. CASE UNCHANGED vars
  BY <1>11 DEF vars, IInv, DevicesInv, QueueOK, WatermarkInv, RecoveryInv, Above
<1>. QED
  BY <1>1, <1>2, <1>3, <1>4, <1>5, <1>6, <1>7, <1>8, <1>9, <1>10, <1>11
     DEF Next, ProcessElement

--------------------------------------------------------------------------------
(* The properties. *)

\* The inductive invariant holds in every reachable state, for every number of
\* devices, rounds, threads, checkpoints and crashes.
THEOREM Invariance == Spec => []IInv
<1>1. Init => IInv
  BY IInvInitially
<1>2. IInv /\ [Next]_vars => IInv'
  BY IInvStep
<1>. QED
  BY <1>1, <1>2, PTL DEF Spec

\* Every variable keeps its type: the buffer its bound, the failures theirs.
THEOREM TypeCorrect == Spec => []TypeOK
<1>1. IInv => TypeOK
  <2>. SUFFICES ASSUME IInv PROVE TypeOK
    OBVIOUS
  <2>1. \A k \in Keys : dev[k].head \in Nat
    BY DEF IInv, DevicesInv, DeviceType
  <2>. QED
    BY <2>1 DEF IInv, DevicesInv, QueueOK, WatermarkInv, RecoveryInv, TypeOK
<1>. QED
  BY <1>1, Invariance, PTL

\* Each device hangs on exactly one timer while it trains or drains.
THEOREM SingleTimerChain == Spec => []OneTimerChain
<1>1. IInv => OneTimerChain
  BY DEF IInv, DevicesInv, DeviceOK, PhaseOK, OneTimerChain
<1>. QED
  BY <1>1, Invariance, PTL

\* A result slot belongs to the training its device waits for.
THEOREM SlotsAreCurrent == Spec => []SlotIsCurrent
<1>1. IInv => SlotIsCurrent
  BY DEF IInv, DevicesInv, SlotOK, SlotIsCurrent
<1>. QED
  BY <1>1, Invariance, PTL

\* The hold map names the head of every buffer, and the emitted watermark
\* stays below every buffered round, for any number of devices and crashes.
THEOREM BuffersAreHeld == Spec => []HoldCoversBuffer
<1>1. IInv => HoldCoversBuffer
  BY DEF IInv, DevicesInv, WatermarkInv, DeviceOK, BufferOK, Above, HoldCoversBuffer
<1>. QED
  BY <1>1, Invariance, PTL

\* What a handler adds to the scored rounds of its device was not covered by
\* the watermark, and keeps the timestamp it arrived with.
LateFree(k) ==
  \A i \in Len(log[k].scored) + 1 .. Len(log'[k].scored) :
    /\ log'[k].scored[i].ts > emittedWm
    /\ log'[k].scored[i].ts = RoundTs[k][log'[k].scored[i].n]

\* Rounds appended above the watermark are not late.
LEMMA ExtendedLateFree ==
  ASSUME NEW k \in Keys, NEW batch \in Seq(RoundSet), log[k] \in LogType,
         log'[k].scored = log[k].scored \o batch,
         \A i \in 1..Len(batch) : batch[i].ts > emittedWm /\ batch[i].ts = RoundTs[k][batch[i].n]
  PROVE  LateFree(k)
<1>1. /\ log[k].scored \in Seq(RoundSet) /\ Len(log[k].scored) \in Nat /\ Len(batch) \in Nat
  BY LenProperties DEF LogType
<1>2. /\ Len(log'[k].scored) = Len(log[k].scored) + Len(batch)
      /\ \A i \in 1..Len(log[k].scored) + Len(batch) : i > Len(log[k].scored) =>
           log'[k].scored[i] = batch[i - Len(log[k].scored)]
  BY <1>1, ConcatProperties
<1>3. SUFFICES ASSUME NEW i \in Len(log[k].scored) + 1 .. Len(log'[k].scored)
               PROVE  /\ log'[k].scored[i].ts > emittedWm
                      /\ log'[k].scored[i].ts = RoundTs[k][log'[k].scored[i].n]
  BY DEF LateFree
<1>4. i - Len(log[k].scored) \in 1..Len(batch) /\ i \in 1..Len(log[k].scored) + Len(batch)
      /\ i > Len(log[k].scored)
  BY <1>1, <1>2
<1>. QED
  BY <1>2, <1>4

\* A history that does not grow scores nothing late.
LEMMA NotLongerLateFree ==
  ASSUME NEW k \in Keys, Len(log[k].scored) \in Nat, Len(log'[k].scored) \in Nat,
         Len(log'[k].scored) <= Len(log[k].scored)
  PROVE  LateFree(k)
BY DEF LateFree

\* No step scores a round at or below the emitted watermark.
LEMMA StepLateFree ==
  ASSUME IInv, [Next]_vars, NEW k \in Keys
  PROVE  LateFree(k)
<1>1. /\ log \in [Keys -> LogType] /\ log[k] \in LogType /\ Len(log[k].scored) \in Nat
  BY Unfolded
<1>2. CASE log'[k].scored = log[k].scored
  BY <1>1, <1>2, NotLongerLateFree
<1>3. CASE CrashAndRestore
  <2>1. log' = ckpt.log /\ Len(ckpt.log[k].scored) <= Len(log[k].scored)
        /\ Len(ckpt.log[k].scored) \in Nat
    BY <1>3, LenProperties DEF CrashAndRestore, IInv, RecoveryInv, LogType
  <2>. QED
    BY <1>1, <2>1, NotLongerLateFree
<1>4. ASSUME NEW j \in Keys, OnTimer(j)
      PROVE  LateFree(k)
  <2>. DEFINE d == AfterTimerPoll(j)
  <2>1. /\ log' = [log EXCEPT ![j] = IF Draining(d) THEN ScoreLog(@, d, NextBatch(d)) ELSE @]
    BY <1>4 DEF OnTimer
  <2>2. d \in DeviceType /\ d.pending = dev[j].pending
    BY <1>4, TimerPollOK
  <2>. HIDE DEF d
  <2>3. CASE j # k \/ ~Draining(d)
    BY <1>1, <1>2, <2>1, <2>3
  <2>4. CASE j = k /\ Draining(d)
    <3>1. NextBatch(d) \in Seq(RoundSet)
      BY <2>2, BatchType
    <3>2. log'[k].scored = log[k].scored \o NextBatch(d)
      BY <1>1, <2>1, <2>2, <2>4, <3>1, ScoreType
    <3>3. \A i \in 1..Len(NextBatch(d)) : i \in 1..Len(dev[k].pending) /\ NextBatch(d)[i] = dev[k].pending[i]
      BY <2>2, <2>4, <3>1, BatchType, LenProperties, Unfolded
    <3>4. \A i \in 1..Len(dev[k].pending) :
            dev[k].pending[i].ts > emittedWm /\ dev[k].pending[i].ts = RoundTs[k][dev[k].pending[i].n]
      BY Unfolded DEF BufferOK, Above
    <3>. QED
      BY <1>1, <3>1, <3>2, <3>3, <3>4, ExtendedLateFree
  <2>. QED
    BY <2>3, <2>4
<1>5. ASSUME NEW j \in Keys, ScoreDirectly(j)
      PROVE  LateFree(k)
  <2>. DEFINE r == Round(j, dev[j].count + 1)
              c == Counted(dev[j])
              m == [log[j] EXCEPT !.accepted = Append(@, r)]
  <2>1. /\ log' = [log EXCEPT ![j] = ScoreLog(m, c, <<r>>)] /\ dev[j].count < NRounds
    BY <1>5 DEF ScoreDirectly, Arrives
  <2>2. r \in RoundSet /\ r.ts > emittedWm /\ r.ts = RoundTs[j][r.n]
    BY <2>1, NextRoundAbove
  <2>3. dev[j] \in DeviceType /\ log[j] \in LogType
    BY Unfolded
  <2>4. c \in DeviceType
    BY <2>1, <2>3, CountedType
  <2>. HIDE DEF r, c
  <2>5. m \in LogType /\ m.scored = log[j].scored
    <3>1. Append(log[j].accepted, r) \in Seq(RoundSet)
      BY <2>2, <2>3, AppendProperties DEF LogType
    <3>. QED
      BY <2>3, <3>1 DEF LogType
  <2>. HIDE DEF m
  <2>6. <<r>> \in Seq(RoundSet) /\ Len(<<r>>) = 1 /\ <<r>>[1] = r
    BY <2>2
  <2>7. ScoreLog(m, c, <<r>>).scored = log[j].scored \o <<r>>
    BY <2>4, <2>5, <2>6, ScoreType
  <2>8. CASE j # k
    BY <1>1, <1>2, <2>1, <2>8
  <2>9. CASE j = k
    <3>1. log'[k].scored = log[k].scored \o <<r>>
      BY <1>1, <2>1, <2>7, <2>9
    <3>2. \A i \in 1..Len(<<r>>) : <<r>>[i] = r
      BY <2>6
    <3>. QED
      BY <1>1, <2>2, <2>6, <2>9, <3>1, <3>2, ExtendedLateFree
  <2>. QED
    BY <2>8, <2>9
<1>6. ASSUME NEW j \in Keys, BufferWhileTraining(j) \/ BufferWhileDraining(j)
      PROVE  LateFree(k)
  <2>1. \E a : log' = [log EXCEPT ![j].accepted = a]
    BY <1>6 DEF BufferWhileTraining, BufferWhileDraining, BufferLog
  <2>2. log'[k].scored = log[k].scored
    BY <1>1, <2>1 DEF LogType
  <2>. QED
    BY <1>2, <2>2
<1>7. ASSUME NEW j \in Keys, CollectRound(j)
      PROVE  LateFree(k)
  BY <1>2, <1>7 DEF CollectRound
<1>8. ASSUME NEW w \in Timestamps, ProcessWatermark(w)
      PROVE  LateFree(k)
  BY <1>2, <1>8 DEF ProcessWatermark
<1>9. ASSUME NEW j \in Keys, NEW result \in {"done", "failed"}, TrainStart(j) \/ TrainEnd(j, result)
      PROVE  LateFree(k)
  BY <1>2, <1>9 DEF TrainStart, TrainEnd
<1>10. CASE Checkpoint
  BY <1>2, <1>10 DEF Checkpoint
<1>11. CASE UNCHANGED vars
  BY <1>2, <1>11 DEF vars
<1>. QED
  BY <1>3, <1>4, <1>5, <1>6, <1>7, <1>8, <1>9, <1>10, <1>11 DEF Next, ProcessElement

\* No round is ever scored at or below the watermark sent downstream, in any
\* interleaving of rounds, timers, training threads, watermarks and crashes.
THEOREM NothingScoredLate == Spec => NoLateScore
<1>1. IInv /\ [Next]_vars => [\A k \in Keys : LateFree(k)]_vars
  BY StepLateFree
<1>2. [][\A k \in Keys : LateFree(k)]_vars => NoLateScore
  BY PTL DEF NoLateScore, LateFree
<1>. QED
  BY <1>1, <1>2, Invariance, PTL DEF Spec

--------------------------------------------------------------------------------
(* The invariant. *)

\* The emitted windows are the first blocks of the scored rounds.
Blocks(s, recs) ==
  /\ Len(recs) * WindowLength <= Len(s)
  /\ \A i \in 1..Len(recs) :
       recs[i] = [j \in 1..WindowLength |-> s[(i - 1) * WindowLength + j].n]

\* The open window holds the scored rounds behind the last block.
Rest(s, recs, win) ==
  win = [j \in 1..(Len(s) - Len(recs) * WindowLength) |->
           s[Len(recs) * WindowLength + j].n]

\* Before a device is online nothing of it is scored, and its window is empty
\* from the moment its training task is submitted.
NothingScored(d, l) ==
  /\ d.phase # Online => l.scored = <<>> /\ l.records = <<>>
  /\ d.phase = Training => d.win = <<>>

ScoringOK(d, l) ==
  /\ l.accepted = l.scored \o d.pending
  /\ Blocks(l.scored, l.records)
  /\ d.phase = Online => Rest(l.scored, l.records, d.win)
  /\ NothingScored(d, l)

ScoringInv ==
  \A k \in Keys : ScoringOK(dev[k], log[k]) /\ ScoringOK(ckpt.dev[k], ckpt.log[k])

--------------------------------------------------------------------------------
(* Cutting a longer sequence into blocks. *)

\* The i-th of m blocks of length w ends within them.
LEMMA BlockBounds ==
  ASSUME NEW w \in Nat \ {0}, NEW m \in Nat, NEW i \in 1..m
  PROVE  (i - 1) * w \in Nat /\ i * w = (i - 1) * w + w /\ (i - 1) * w + w <= m * w
<1>1. i - 1 \in Nat /\ m - i \in Nat /\ i \in Nat /\ \A n \in Nat : n * w \in Nat
  OBVIOUS
<1>2. (i - 1) * w \in Nat /\ (m - i) * w \in Nat /\ i * w \in Nat /\ m * w \in Nat
  BY <1>1
<1>3. i * w = (i - 1) * w + w /\ m * w = i * w + (m - i) * w
  OBVIOUS
<1>. QED
  BY <1>2, <1>3

\* F blocks behind R blocks, and where the i-th of them begins.
LEMMA BlockSum ==
  ASSUME NEW w \in Nat \ {0}, NEW R \in Nat, NEW F \in Nat
  PROVE  /\ R * w \in Nat /\ F * w \in Nat /\ (R + F) * w = R * w + F * w
         /\ \A i \in 1..F : (R + i - 1) * w = R * w + (i - 1) * w
<1>1. \A m \in Nat : m * w \in Nat
  OBVIOUS
<1>2. (R + F) * w = R * w + F * w
  OBVIOUS
<1>3. ASSUME NEW i \in 1..F
      PROVE  (R + i - 1) * w = R * w + (i - 1) * w
  OBVIOUS
<1>. QED
  BY <1>1, <1>2, <1>3

\* The numbers fed to a window that holds the rest of the scored rounds are
\* those of the rounds behind the last block, the new batch included.
LEMMA FedIsRest ==
  ASSUME NEW d \in DeviceType, NEW l \in LogType, NEW batch \in Seq(RoundSet),
         Blocks(l.scored, l.records), Rest(l.scored, l.records, d.win)
  PROVE  LET s == l.scored \o batch
             done == Len(l.records) * WindowLength
             all == Fed(d, batch)
         IN  /\ Len(all) = Len(s) - done
             /\ \A j \in 1..Len(all) : all[j] = s[done + j].n
<1>. DEFINE s == l.scored \o batch
            done == Len(l.records) * WindowLength
            all == Fed(d, batch)
            tail == [i \in 1..Len(batch) |-> batch[i].n]
<1>1. /\ l.scored \in Seq(RoundSet) /\ l.records \in Seq(Window)
      /\ Len(l.scored) \in Nat /\ Len(l.records) \in Nat /\ Len(batch) \in Nat
      /\ d.win \in Seq(1..NRounds)
  BY LenProperties DEF LogType, DeviceType, Window
<1>2. done \in Nat /\ done <= Len(l.scored)
  <2>1. \A a, b \in Nat : a * b \in Nat
    OBVIOUS
  <2>. QED
    BY <1>1, <2>1, BoundsAssumption DEF Blocks
<1>3. /\ Len(s) = Len(l.scored) + Len(batch)
      /\ \A i \in 1..Len(l.scored) + Len(batch) :
           s[i] = IF i <= Len(l.scored) THEN l.scored[i] ELSE batch[i - Len(l.scored)]
  BY <1>1, ConcatProperties
<1>4. tail \in Seq(1..NRounds) /\ Len(tail) = Len(batch)
  <2>0. \A i \in 1..Len(batch) : batch[i] \in RoundSet
    BY ElementOfSeq
  <2>1. \A i \in 1..Len(batch) : batch[i].n \in 1..NRounds
    BY <2>0 DEF RoundSet
  <2>2. tail \in [1..Len(batch) -> 1..NRounds]
    BY <2>1
  <2>. HIDE DEF tail
  <2>. QED
    BY <1>1, <2>2, FunctionIsSeq
<1>. HIDE DEF done
<1>5. /\ Len(d.win) = Len(l.scored) - done
      /\ \A j \in 1..Len(l.scored) - done : d.win[j] = l.scored[done + j].n
  <2>1. d.win = [j \in 1..(Len(l.scored) - done) |-> l.scored[done + j].n]
    BY DEF Rest, done
  <2>2. DOMAIN d.win = 1..Len(d.win) /\ Len(d.win) \in Nat
    BY <1>1, LenProperties
  <2>3. DOMAIN d.win = 1..(Len(l.scored) - done)
    BY <2>1
  <2>4. Len(l.scored) - done \in Nat
    BY <1>1, <1>2
  <2>5. Len(d.win) = Len(l.scored) - done
    BY <2>2, <2>3, <2>4
  <2>. QED
    BY <2>1, <2>5
<1>6. /\ Len(all) = Len(d.win) + Len(batch)
      /\ \A j \in 1..Len(d.win) + Len(batch) :
           all[j] = IF j <= Len(d.win) THEN d.win[j] ELSE batch[j - Len(d.win)].n
  <2>1. \A j \in 1..Len(batch) : tail[j] = batch[j].n
    OBVIOUS
  <2>2. all = d.win \o tail /\ Len(d.win) \in Nat
    BY <1>1, LenProperties DEF Fed
  <2>. HIDE DEF tail, all
  <2>3. /\ Len(all) = Len(d.win) + Len(tail)
        /\ \A j \in 1..Len(d.win) + Len(tail) :
             all[j] = IF j <= Len(d.win) THEN d.win[j] ELSE tail[j - Len(d.win)]
    <3>1. /\ Len(d.win \o tail) = Len(d.win) + Len(tail)
          /\ \A j \in 1..Len(d.win) + Len(tail) :
               (d.win \o tail)[j] = IF j <= Len(d.win) THEN d.win[j] ELSE tail[j - Len(d.win)]
      BY <1>1, <1>4, ConcatProperties
    <3>. QED
      BY <2>2, <3>1
  <2>4. ASSUME NEW j \in 1..Len(d.win) + Len(batch), ~(j <= Len(d.win))
        PROVE  all[j] = batch[j - Len(d.win)].n
    <3>1. j - Len(d.win) \in 1..Len(batch)
      BY <1>1, <2>2, <2>4
    <3>. QED
      BY <1>4, <2>1, <2>3, <2>4, <3>1
  <2>. QED
    BY <1>4, <2>3, <2>4
<1>. HIDE DEF s, all
<1>7. Len(all) = Len(s) - done /\ Len(all) \in Nat /\ Len(s) \in Nat
  BY <1>1, <1>2, <1>3, <1>5, <1>6
<1>8. ASSUME NEW j \in 1..Len(all)
      PROVE  all[j] = s[done + j].n
  <2>1. CASE j <= Len(d.win)
    <3>1. j \in 1..Len(l.scored) - done /\ done + j \in 1..Len(l.scored) + Len(batch)
          /\ done + j <= Len(l.scored)
      BY <1>1, <1>2, <1>5, <1>7, <2>1
    <3>2. all[j] = d.win[j]
      BY <1>6, <1>7, <2>1
    <3>. QED
      BY <1>3, <1>5, <3>1, <3>2
  <2>2. CASE ~(j <= Len(d.win))
    <3>1. j \in 1..Len(d.win) + Len(batch)
      BY <1>6
    <3>2. done + j \in 1..Len(l.scored) + Len(batch) /\ ~(done + j <= Len(l.scored))
          /\ done + j - Len(l.scored) = j - Len(d.win)
      BY <1>1, <1>2, <1>3, <1>5, <1>7, <2>2
    <3>3. all[j] = batch[j - Len(d.win)].n
      BY <1>6, <2>2, <3>1
    <3>4. \A i \in 1..Len(l.scored) + Len(batch) :
            ~(i <= Len(l.scored)) => s[i] = batch[i - Len(l.scored)]
      BY <1>3
    <3>5. s[done + j] = batch[(done + j) - Len(l.scored)]
      BY <3>2, <3>4
    <3>6. (done + j) - Len(l.scored) = j - Len(d.win)
      BY <1>1, <1>2, <1>5, <1>7
    <3>. QED
      BY <3>3, <3>5, <3>6
  <2>. QED
    BY <1>1, <1>2, <1>5, <2>1, <2>2
<1>. QED
  BY <1>7, <1>8 DEF s, done, all


\* A part of a sequence is the function of its positions.
LEMMA SubSeqIsFunction ==
  ASSUME NEW S, NEW s \in Seq(S), NEW m \in Nat, NEW n \in Nat, m <= n, n <= Len(s)
  PROVE  SubSeq(s, m + 1, n) = [j \in 1..(n - m) |-> s[m + j]]
<1>. DEFINE t == SubSeq(s, m + 1, n)
<1>1. \A i \in m + 1..n : s[i] \in S
  <2>1. Len(s) \in Nat
    BY LenProperties
  <2>2. \A i \in m + 1..n : i \in 1..Len(s)
    BY <2>1
  <2>. QED
    BY <2>2, ElementOfSeq
<1>2. m + 1 \in Int /\ n \in Int
  OBVIOUS
<1>3. /\ t \in Seq(S)
      /\ Len(t) = IF m + 1 <= n THEN n - (m + 1) + 1 ELSE 0
      /\ \A i \in 1..n - (m + 1) + 1 : t[i] = s[(m + 1) + i - 1]
  BY <1>1, <1>2, SubSeqProperties
<1>. HIDE DEF t
<1>4. Len(t) = n - m /\ n - (m + 1) + 1 = n - m
  BY <1>3
<1>5. t = [i \in 1..Len(t) |-> t[i]]
  <2>1. t \in [1..Len(t) -> S]
    BY <1>3, LenProperties
  <2>. QED
    BY <2>1
<1>6. \A i \in 1..(n - m) : t[i] = s[m + i]
  <2>1. \A i \in 1..(n - m) : (m + 1) + i - 1 = m + i
    OBVIOUS
  <2>. QED
    BY <1>3, <1>4, <2>1
<1>. QED
  BY <1>4, <1>5, <1>6 DEF t

\* An interval from 1 has one length.
LEMMA IntervalLength ==
  ASSUME NEW m \in Nat, NEW n \in Nat, 1..m = 1..n
  PROVE  m = n
<1>1. m # 0 => m \in 1..m
  OBVIOUS
<1>2. n # 0 => n \in 1..n
  OBVIOUS
<1>3. (m \in 1..n => m <= n) /\ (n \in 1..m => n <= m)
  OBVIOUS
<1>4. (m # 0 => m <= n) /\ (n # 0 => n <= m)
  BY <1>1, <1>2, <1>3
<1>. QED
  BY <1>4

\* The full windows and the remainder of a sequence, position by position.
LEMMA WindowsAre ==
  ASSUME NEW all \in Window
  PROVE  LET F == FullWindows(all)
         IN  /\ F \in Nat /\ F * WindowLength <= Len(all)
             /\ Windows(all) \in Seq(Window) /\ Len(Windows(all)) = F
             /\ \A q \in 1..F :
                  Windows(all)[q] = [j \in 1..WindowLength |-> all[(q - 1) * WindowLength + j]]
             /\ Leftover(all) =
                  [j \in 1..(Len(all) - F * WindowLength) |-> all[F * WindowLength + j]]
<1>. DEFINE F == FullWindows(all)
            w == WindowLength
<1>1. all \in Seq(1..NRounds) /\ Len(all) \in Nat /\ w \in Nat \ {0}
  BY LenProperties, BoundsAssumption DEF Window
<1>2. F \in Nat /\ F * w \in Nat /\ F * w <= Len(all)
  BY <1>1, DivBound DEF FullWindows
<1>. HIDE DEF F, w
<1>3. Windows(all) = [i \in 1..F |-> SubSeq(all, (i - 1) * w + 1, i * w)]
  BY DEF Windows, F, w
<1>4. Windows(all) \in Seq(Window) /\ Len(Windows(all)) = F
  <2>1. Windows(all) \in Seq(Window)
    BY WindowsType
  <2>2. Len(Windows(all)) \in Nat /\ DOMAIN Windows(all) = 1..Len(Windows(all))
    BY <2>1, LenProperties
  <2>3. DOMAIN Windows(all) = 1..F
    BY <1>3
  <2>4. F \in Nat
    BY <1>2
  <2>5. Len(Windows(all)) = F
    BY <2>2, <2>3, <2>4, IntervalLength
  <2>. QED
    BY <2>1, <2>5
<1>5. ASSUME NEW q \in 1..F
      PROVE  Windows(all)[q] = [j \in 1..w |-> all[(q - 1) * w + j]]
  <2>1. /\ (q - 1) * w \in Nat /\ (q - 1) * w + w <= F * w /\ q * w = (q - 1) * w + w
    BY <1>1, <1>2, BlockBounds
  <2>. DEFINE m == (q - 1) * w
              n == q * w
  <2>. HIDE DEF m, n
  <2>2. m \in Nat /\ n \in Nat /\ m <= n /\ n <= Len(all) /\ n - m = w
    BY <1>1, <1>2, <2>1 DEF m, n
  <2>3. SubSeq(all, m + 1, n) = [j \in 1..(n - m) |-> all[m + j]]
    BY <1>1, <2>2, SubSeqIsFunction
  <2>4. SubSeq(all, m + 1, n) = [j \in 1..w |-> all[m + j]]
    BY <2>2, <2>3
  <2>. QED
    BY <1>3, <2>4 DEF m, n
<1>6. Leftover(all) = [j \in 1..(Len(all) - F * w) |-> all[F * w + j]]
  <2>. DEFINE m == F * w
              n == Len(all)
  <2>1. m \in Nat /\ n \in Nat /\ m <= n /\ n <= Len(all)
    BY <1>1, <1>2
  <2>. HIDE DEF m, n
  <2>2. SubSeq(all, m + 1, n) = [j \in 1..(n - m) |-> all[m + j]]
    BY <1>1, <2>1, SubSeqIsFunction
  <2>. QED
    BY <2>2 DEF m, n, Leftover, F, w
<1>. QED
  BY <1>2, <1>4, <1>5, <1>6 DEF F, w


\* Scoring a batch keeps the windows the blocks of the scored rounds, and the
\* open window what is behind them.
LEMMA ScoreOK ==
  ASSUME NEW d \in DeviceType, NEW l \in LogType, NEW batch \in Seq(RoundSet),
         Blocks(l.scored, l.records), Rest(l.scored, l.records, d.win), d.model # NoModel
  PROVE  LET m == ScoreLog(l, d, batch)
             e == ScoreOnline(d, batch)
         IN  /\ m.scored = l.scored \o batch /\ m.accepted = l.accepted
             /\ Blocks(m.scored, m.records) /\ Rest(m.scored, m.records, e.win)
<1>. DEFINE m == ScoreLog(l, d, batch)
            e == ScoreOnline(d, batch)
            all == Fed(d, batch)
            s == l.scored \o batch
            R == Len(l.records)
            F == FullWindows(all)
            w == WindowLength
            done == R * w
<1>1. /\ l.scored \in Seq(RoundSet) /\ Len(l.scored) \in Nat
      /\ l.records \in Seq(Window) /\ R \in Nat /\ w \in Nat \ {0}
  BY LenProperties, BoundsAssumption DEF LogType
<1>2. /\ m.scored = s /\ m.accepted = l.accepted
      /\ m.records = l.records \o Windows(all)
  BY DEF ScoreLog, LogType
<1>3. e.win = Leftover(all)
  BY DEF ScoreOnline, DeviceType
<1>4. /\ s \in Seq(RoundSet) /\ Len(s) \in Nat /\ Len(s) >= Len(l.scored)
      /\ \A i \in 1..Len(l.scored) : s[i] = l.scored[i]
  <2>1. /\ s \in Seq(RoundSet) /\ Len(s) = Len(l.scored) + Len(batch)
        /\ \A i \in 1..Len(l.scored) + Len(batch) :
             s[i] = IF i <= Len(l.scored) THEN l.scored[i] ELSE batch[i - Len(l.scored)]
    BY <1>1, ConcatProperties
  <2>2. Len(batch) \in Nat
    BY LenProperties
  <2>. HIDE DEF s
  <2>. QED
    BY SMTT(40), <1>1, <2>1, <2>2
<1>5. /\ all \in Window /\ Len(all) \in Nat /\ Len(all) = Len(s) - done
      /\ \A j \in 1..Len(all) : all[j] = s[done + j].n
  <2>1. all \in Window
    BY FedType
  <2>2. Len(all) \in Nat
    BY <2>1, LenProperties DEF Window
  <2>. QED
    BY <2>1, <2>2, FedIsRest
<1>6. /\ F \in Nat /\ F * w <= Len(all)
      /\ Windows(all) \in Seq(Window) /\ Len(Windows(all)) = F
      /\ \A q \in 1..F : Windows(all)[q] = [j \in 1..w |-> all[(q - 1) * w + j]]
      /\ Leftover(all) = [j \in 1..(Len(all) - F * w) |-> all[F * w + j]]
  BY <1>5, WindowsAre
<1>7. /\ done \in Nat /\ F * w \in Nat /\ (R + F) * w = done + F * w
      /\ \A i \in 1..F : (R + i - 1) * w = done + (i - 1) * w
      /\ done <= Len(l.scored)
      /\ \A i \in 1..R : l.records[i] = [j \in 1..w |-> l.scored[(i - 1) * w + j].n]
  BY <1>1, <1>6, BlockSum DEF Blocks
<1>. HIDE DEF m, e, all, s, F, w, done
<1>8. /\ Len(m.records) = R + F
      /\ \A i \in 1..R + F :
           m.records[i] = IF i <= R THEN l.records[i] ELSE Windows(all)[i - R]
  <2>1. /\ Len(l.records \o Windows(all)) = R + F
        /\ \A i \in 1..R + F : (l.records \o Windows(all))[i] =
              IF i <= R THEN l.records[i] ELSE Windows(all)[i - R]
    <3>1. Windows(all) \in Seq(Window) /\ Len(Windows(all)) = F
      BY <1>6
    <3>. DEFINE ws == Windows(all)
    <3>. HIDE DEF ws
    <3>2. ws \in Seq(Window) /\ Len(ws) = F /\ l.records \in Seq(Window)
      BY <1>1, <3>1 DEF ws
    <3>3. /\ Len(l.records \o ws) = R + F
          /\ \A i \in 1..R + F :
               (l.records \o ws)[i] = IF i <= R THEN l.records[i] ELSE ws[i - R]
      BY <3>2, ConcatProperties
    <3>. QED
      BY <3>3 DEF ws
  <2>. QED
    BY <1>2, <2>1
<1>. HIDE DEF R
<1>9. ASSUME NEW i \in 1..R
      PROVE  m.records[i] = [j \in 1..w |-> s[(i - 1) * w + j].n]
  <2>1. i \in 1..R + F /\ i <= R
    BY <1>1, <1>6
  <2>2. (i - 1) * w \in Nat /\ (i - 1) * w + w <= done
    BY <1>1, BlockBounds DEF done
  <2>3. \A j \in 1..w : s[(i - 1) * w + j] = l.scored[(i - 1) * w + j]
    <3>. DEFINE b == (i - 1) * w
    <3>0. b \in Nat /\ b + w <= done /\ done \in Nat /\ done <= Len(l.scored)
      BY <1>7, <2>2
    <3>. HIDE DEF b
    <3>1. \A j \in 1..w : b + j \in 1..Len(l.scored)
      BY <1>1, <3>0
    <3>2. \A j \in 1..w : s[b + j] = l.scored[b + j]
      BY <1>4, <3>1
    <3>. QED
      BY <3>2 DEF b
  <2>. QED
    BY <1>7, <1>8, <2>1, <2>3
<1>10. ASSUME NEW i \in 1..R + F, ~(i <= R)
       PROVE  m.records[i] = [j \in 1..w |-> s[(i - 1) * w + j].n]
  <2>. DEFINE q == i - R
              c == (q - 1) * w
              b == (i - 1) * w
  <2>1. q \in 1..F /\ i = R + q
    BY <1>1, <1>6, <1>10
  <2>2. c \in Nat /\ c + w <= F * w
    BY <1>1, <1>6, <2>1, BlockBounds
  <2>3. b = done + c
    <3>1. (R + q - 1) * w = done + (q - 1) * w
      BY <1>7, <2>1
    <3>2. R + q - 1 = i - 1
      BY <1>1, <2>1
    <3>. QED
      BY <3>1, <3>2
  <2>4. m.records[i] = [j \in 1..w |-> all[c + j]]
    BY <1>6, <1>8, <1>10, <2>1
  <2>. HIDE DEF q, c, b
  <2>5. \A j \in 1..w : c + j \in 1..Len(all) /\ done + (c + j) = b + j
    BY <1>1, <1>5, <1>6, <1>7, <2>2, <2>3
  <2>6. \A j \in 1..w : all[c + j] = s[b + j].n
    BY <1>5, <2>5
  <2>7. m.records[i] = [j \in 1..w |-> s[b + j].n]
    BY <2>4, <2>6
  <2>. QED
    BY <2>7 DEF b
<1>11. Blocks(m.scored, m.records)
  <2>1. (R + F) * w <= Len(s)
    BY <1>4, <1>5, <1>6, <1>7
  <2>2. \A i \in 1..R + F : m.records[i] = [j \in 1..w |-> s[(i - 1) * w + j].n]
    <3>1. \A i \in 1..R + F : i \in 1..R \/ ~(i <= R)
      BY <1>1, <1>6 DEF R
    <3>. QED
      BY <1>9, <1>10, <3>1
  <2>3. Len(m.records) * w <= Len(m.scored)
    BY <1>2, <1>8, <2>1
  <2>4. \A i \in 1..Len(m.records) : m.records[i] = [j \in 1..w |-> m.scored[(i - 1) * w + j].n]
    BY <1>2, <1>8, <2>2
  <2>. QED
    BY <2>3, <2>4 DEF Blocks, w
<1>12. Rest(m.scored, m.records, e.win)
  <2>. DEFINE c == F * w
  <2>1. (R + F) * w = done + c /\ c \in Nat
    BY <1>7
  <2>2. Leftover(all) = [j \in 1..(Len(all) - c) |-> all[c + j]]
    BY <1>6
  <2>. HIDE DEF c
  <2>3. Len(all) - c = Len(s) - (done + c)
    BY <1>4, <1>5, <1>7, <2>1
  <2>4. \A j \in 1..(Len(all) - c) : c + j \in 1..Len(all) /\ done + (c + j) = (done + c) + j
    BY <1>5, <1>7, <2>1
  <2>5. \A j \in 1..(Len(all) - c) : all[c + j] = s[(done + c) + j].n
    BY <1>5, <2>4
  <2>6. Leftover(all) = [j \in 1..(Len(s) - (done + c)) |-> s[(done + c) + j].n]
    BY <2>2, <2>3, <2>5
  <2>. QED
    BY <1>2, <1>3, <1>8, <2>1, <2>6 DEF Rest, w
<1>. QED
  BY <1>2, <1>11, <1>12 DEF m, e, s


--------------------------------------------------------------------------------
(* What the handlers' parts do to the buffer and the window. *)

\* Buffering a round appends it if there is room and touches nothing scored.
LEMMA BufferedIs ==
  ASSUME NEW k \in Keys, NEW d \in DeviceType, d.count < NRounds
  PROVE  LET r == Round(k, d.count + 1)
             e == Buffered(Counted(d), r)
         IN  /\ e.pending = IF HasRoom(d) THEN Append(d.pending, r) ELSE d.pending
             /\ e.win = d.win /\ e.phase = d.phase /\ e.model = d.model
<1>. DEFINE r == Round(k, d.count + 1)
            c == Counted(d)
            p == Append(d.pending, r)
            h == IF d.size = 0 THEN r.ts ELSE d.head
            e == Buffered(c, r)
<1>1. c \in DeviceType /\ c = [d EXCEPT !.count = d.count + 1]
  BY CountedType DEF Counted
<1>. HIDE DEF c
<1>2. /\ c.phase = d.phase /\ c.model = d.model /\ c.win = d.win
      /\ c.pending = d.pending /\ c.size = d.size /\ c.head = d.head
  BY <1>1 DEF DeviceType
<1>3. e = IF ~HasRoom(d) THEN c
          ELSE [c EXCEPT !.pending = p, !.size = d.size + 1, !.head = h]
  BY <1>2 DEF Buffered, HasRoom
<1>. HIDE DEF p, h, e, r
<1>4. CASE HasRoom(d)
  <2>1. /\ e.pending = p /\ e.win = c.win /\ e.phase = c.phase /\ e.model = c.model
    BY <1>1, <1>3, <1>4 DEF DeviceType
  <2>. QED
    BY <1>2, <1>4, <2>1 DEF p, e, c, r
<1>5. CASE ~HasRoom(d)
  BY <1>2, <1>3, <1>5 DEF e, c, r
<1>. QED
  BY <1>4, <1>5

\* Polling leaves the open window alone.
LEMMA PolledIs ==
  ASSUME NEW k \in Keys, NEW d \in DeviceType, slot[k] \in TaskType
  PROVE  Polled(k, d).win = d.win
<1>. DEFINE r == PollResult(k, d)
<1>1. r \in {"resubmit", "idle", "pending", "retry", "giveUp", "apply"}
  BY PollCases
<1>2. ASSUME NEW x, NEW y, NEW z
      PROVE  /\ [d EXCEPT !.phase = x, !.taskId = y].win = d.win
             /\ [d EXCEPT !.failures = z].win = d.win
             /\ [[d EXCEPT !.failures = z] EXCEPT !.phase = x, !.taskId = y].win = d.win
             /\ [d EXCEPT !.model = x, !.segs = y, !.phase = z].win = d.win
  BY DEF DeviceType
<1>3. Submitted(d).win = d.win
  BY <1>2 DEF Submitted
<1>4. Failed(d).win = d.win /\ Submitted(Failed(d)).win = d.win
  BY <1>2 DEF Submitted, Failed
<1>5. Applied(d, slot[k]).win = d.win
  BY <1>2 DEF Applied
<1>. HIDE DEF r
<1>. QED
  BY <1>1, <1>3, <1>4, <1>5 DEF Polled, r

\* Draining scores the head of the buffer and leaves its tail.
LEMMA DrainedIs ==
  ASSUME NEW d \in DeviceType
  PROVE  LET e == Drained(d)
         IN  /\ d.pending = NextBatch(d) \o e.pending /\ e.pending \in Seq(RoundSet)
             /\ e.win = ScoreOnline(d, NextBatch(d)).win /\ e.phase = d.phase
<1>. DEFINE e == Drained(d)
            batch == NextBatch(d)
            n == Len(batch)
            rest == SubSeq(d.pending, n + 1, Len(d.pending))
            c == ScoreOnline(d, batch)
            h == IF rest = <<>> THEN NoTs ELSE rest[1].ts
<1>1. /\ d.pending \in Seq(RoundSet) /\ Len(d.pending) \in Nat
      /\ batch \in Seq(RoundSet) /\ n \in Nat /\ n <= Len(d.pending)
      /\ \A i \in 1..n : batch[i] = d.pending[i]
  BY BatchType, LenProperties DEF DeviceType
<1>2. c \in DeviceType /\ c.phase = d.phase
  BY <1>1, ScoredSame DEF SameDevice
<1>3. e = [c EXCEPT !.pending = rest, !.size = Len(rest), !.head = h]
  BY DEF Drained
<1>4. e.pending = rest /\ e.win = c.win /\ e.phase = c.phase
  <2>. HIDE DEF e, c, rest, h
  <2>. QED
    BY <1>2, <1>3 DEF DeviceType
<1>5. rest \in Seq(RoundSet)
  <2>1. n + 1 \in Nat \ {0} /\ Len(d.pending) <= Len(d.pending)
    BY <1>1
  <2>. QED
    BY <1>1, <2>1, SubSeqType
<1>6. d.pending = batch \o rest
  <2>. HIDE DEF n, batch
  <2>1. n + 1 - 1 = n /\ 1 \in 1..Len(d.pending) + 1 /\ n \in 0..Len(d.pending)
        /\ Len(d.pending) \in n..Len(d.pending)
    BY <1>1
  <2>2. SubSeq(d.pending, 1, n) \o rest = SubSeq(d.pending, 1, Len(d.pending))
    <3>1. n \in 1 - 1..Len(d.pending)
      BY <2>1
    <3>. QED
      BY <1>1, <2>1, <3>1, ConcatAdjacentSubSeq
  <2>3. SubSeq(d.pending, 1, Len(d.pending)) = d.pending
    BY <1>1, SubSeqFull
  <2>4. SubSeq(d.pending, 1, n) = batch
    <3>. DEFINE t == SubSeq(d.pending, 1, n)
    <3>1. \A i \in 1..n : d.pending[i] \in RoundSet
      BY <1>1, ElementOfSeq
    <3>2. t \in Seq(RoundSet) /\ Len(t) = n /\ \A i \in 1..n : t[i] = d.pending[1 + i - 1]
      BY <1>1, <3>1, SubSeqProperties
    <3>3. \A i \in 1..n : t[i] = batch[i]
      <4>1. \A i \in 1..n : 1 + i - 1 = i
        OBVIOUS
      <4>. QED
        BY <1>1, <3>2, <4>1
    <3>4. batch \in Seq(RoundSet) /\ Len(batch) = n
      BY <1>1 DEF n
    <3>. HIDE DEF t
    <3>. QED
      BY <3>2, <3>3, <3>4, SeqEqual DEF t
  <2>. QED
    BY <2>2, <2>3, <2>4
<1>. HIDE DEF e, c, rest, h, batch, n
<1>7. /\ d.pending = batch \o e.pending /\ e.pending \in Seq(RoundSet)
      /\ e.win = c.win /\ e.phase = d.phase
  BY <1>2, <1>4, <1>5, <1>6
<1>. QED
  BY <1>7 DEF e, c, batch

\* A device that leaves training has scored nothing and has an empty window.
LEMMA OnlineStarts ==
  ASSUME NEW d, NEW l, d.phase = Training, NothingScored(d, l)
  PROVE  Rest(l.scored, l.records, d.win)
<1>1. l.scored = <<>> /\ l.records = <<>> /\ d.win = <<>>
  BY DEF NothingScored, Training, Online
<1>2. Len(<<>>) = 0 /\ 0 * WindowLength = 0
  BY EmptySeq, BoundsAssumption
<1>3. Len(l.scored) - Len(l.records) * WindowLength = 0
  BY <1>1, <1>2
<1>4. 1..0 = {}
  OBVIOUS
<1>. QED
  BY <1>1, <1>3, <1>4 DEF Rest


--------------------------------------------------------------------------------
(* Every step keeps the scoring invariant. *)

\* Rounds may be concatenated in any grouping.
LEMMA RoundsAssociate ==
  \A s, t, u \in Seq(RoundSet) : (s \o t) \o u = s \o (t \o u)
<1>. SUFFICES ASSUME NEW s \in Seq(RoundSet), NEW t \in Seq(RoundSet), NEW u \in Seq(RoundSet)
              PROVE  (s \o t) \o u = s \o (t \o u)
  OBVIOUS
<1>. QED
  BY ConcatAssociative

\* A device that has scored nothing, or is online, keeps the invariant when a
\* round is buffered, also when the poll that follows puts it online.
LEMMA BufferKeepsScoring ==
  ASSUME NEW d \in DeviceType, NEW l \in LogType, ScoringOK(d, l), NEW r \in RoundSet,
         NEW e, NEW m,
         e.pending = IF HasRoom(d) THEN Append(d.pending, r) ELSE d.pending,
         m.accepted = IF HasRoom(d) THEN Append(l.accepted, r) ELSE l.accepted,
         m.scored = l.scored, m.records = l.records, e.win = d.win,
         e.phase = d.phase \/ (d.phase = Training /\ e.phase = Online)
  PROVE  ScoringOK(e, m)
<1>1. l.scored \in Seq(RoundSet) /\ d.pending \in Seq(RoundSet)
  BY DEF LogType, DeviceType
<1>2. m.accepted = m.scored \o e.pending
  <2>1. Append(l.scored \o d.pending, r) = l.scored \o Append(d.pending, r)
    <3>1. Append(d.pending, r) = d.pending \o <<r>> /\ <<r>> \in Seq(RoundSet)
      BY <1>1, AppendIsConcat
    <3>2. l.scored \o d.pending \in Seq(RoundSet)
      BY <1>1, ConcatProperties
    <3>3. Append(l.scored \o d.pending, r) = (l.scored \o d.pending) \o <<r>>
      BY <3>2, AppendIsConcat
    <3>4. (l.scored \o d.pending) \o <<r>> = l.scored \o (d.pending \o <<r>>)
      BY <1>1, <3>1, RoundsAssociate
    <3>. QED
      BY <3>1, <3>3, <3>4
  <2>2. l.accepted = l.scored \o d.pending
    BY DEF ScoringOK
  <2>. QED
    BY <2>1, <2>2
<1>3. Blocks(m.scored, m.records)
  BY DEF ScoringOK
<1>4. e.phase = Online => Rest(m.scored, m.records, e.win)
  <2>1. CASE d.phase = Online
    BY <2>1 DEF ScoringOK
  <2>2. CASE d.phase = Training
    BY <2>2, OnlineStarts DEF ScoringOK
  <2>. QED
    BY <2>1, <2>2
<1>5. NothingScored(e, m)
  BY DEF ScoringOK, NothingScored, Training, Online
<1>. QED
  BY <1>2, <1>3, <1>4, <1>5 DEF ScoringOK

\* A device that scores a batch keeps the invariant if what it had accepted is
\* what it had scored, the batch and what is left in its buffer.
LEMMA ScoreKeepsScoring ==
  ASSUME NEW d \in DeviceType, NEW l \in LogType, NEW batch \in Seq(RoundSet),
         d.model # NoModel, Blocks(l.scored, l.records), Rest(l.scored, l.records, d.win),
         NEW e, e.phase = Online, e.win = ScoreOnline(d, batch).win,
         e.pending \in Seq(RoundSet), l.accepted = l.scored \o (batch \o e.pending)
  PROVE  ScoringOK(e, ScoreLog(l, d, batch))
<1>. DEFINE m == ScoreLog(l, d, batch)
<1>1. /\ m.scored = l.scored \o batch /\ m.accepted = l.accepted
      /\ Blocks(m.scored, m.records) /\ Rest(m.scored, m.records, e.win)
  BY ScoreOK
<1>. HIDE DEF m
<1>2. m.accepted = m.scored \o e.pending
  <2>1. l.scored \in Seq(RoundSet)
    BY DEF LogType
  <2>2. (l.scored \o batch) \o e.pending = l.scored \o (batch \o e.pending)
    BY <2>1, RoundsAssociate
  <2>. QED
    BY <1>1, <2>2
<1>3. NothingScored(e, m)
  BY DEF NothingScored, Training, Online
<1>. QED
  BY <1>1, <1>2, <1>3 DEF ScoringOK, m

\* A handler of one device keeps the invariant if it keeps it for that device.
LEMMA HandlerKeepsScoring ==
  ASSUME IInv, ScoringInv, NEW k \in Keys, NEW d, NEW l, ScoringOK(d, l),
         dev' = [dev EXCEPT ![k] = d], log' = [log EXCEPT ![k] = l], ckpt' = ckpt
  PROVE  ScoringInv'
<1>1. dev \in [Keys -> DeviceType] /\ log \in [Keys -> LogType]
  BY Unfolded
<1>2. \A j \in Keys : /\ dev'[j] = IF j = k THEN d ELSE dev[j]
                      /\ log'[j] = IF j = k THEN l ELSE log[j]
  BY <1>1
<1>3. \A j \in Keys : ScoringOK(dev'[j], log'[j])
  BY <1>2 DEF ScoringInv
<1>. QED
  BY <1>3 DEF ScoringInv


\* Initially nothing is accepted, scored or buffered.
LEMMA InitialScoring ==
  ScoringOK(InitDevice, InitLog)
<1>1. InitLog.accepted = <<>> /\ InitLog.scored = <<>> /\ InitLog.records = <<>>
  BY DEF InitLog
<1>2. InitDevice.pending = <<>> /\ InitDevice.phase = Collecting /\ InitDevice.win = <<>>
  BY DEF InitDevice
<1>3. <<>> \o <<>> = <<>>
  <2>1. <<>> \in Seq(RoundSet)
    BY EmptySeq
  <2>. QED
    BY <2>1, ConcatEmptySeq
<1>4. Len(<<>>) = 0 /\ 0 * WindowLength = 0
  BY EmptySeq, BoundsAssumption
<1>5. Blocks(InitLog.scored, InitLog.records)
  BY <1>1, <1>4 DEF Blocks
<1>. QED
  BY <1>1, <1>2, <1>3, <1>5 DEF ScoringOK, NothingScored, Collecting, Training, Online

\* Collecting, also the round that ends it, scores nothing.
LEMMA CollectRoundScoring ==
  ASSUME IInv, ScoringInv, NEW k \in Keys, CollectRound(k)
  PROVE  ScoringInv'
<1>. DEFINE c == Counted(dev[k])
            d == Collected(k, c)
            submits == d.win = <<>> /\ d.count >= CollectRounds
            s == Submitted(d)
            e == IF submits THEN [s EXCEPT !.timers = @ + 1] ELSE d
<1>1. /\ dev[k].phase = Collecting /\ dev[k].count < NRounds /\ dev[k] \in DeviceType
      /\ log \in [Keys -> LogType] /\ PhaseOK(dev[k]) /\ dev[k].count \in Nat
  BY Unfolded DEF CollectRound, Arrives
<1>2. dev[k].pending = <<>>
  BY <1>1 DEF PhaseOK
<1>3. /\ c \in DeviceType /\ c.count > 0 /\ c = [dev[k] EXCEPT !.count = dev[k].count + 1]
  BY <1>1, CountedType DEF Counted
<1>4. d \in DeviceType /\ SameDevice(c, d)
  BY <1>3, CollectedType, CollectedSame
<1>. HIDE DEF c, d
<1>5. d.pending = <<>> /\ d.phase = Collecting
  BY <1>1, <1>2, <1>3, <1>4 DEF SameDevice, DeviceType
<1>6. e.pending = <<>> /\ e.phase # Online /\ (e.phase = Training => e.win = <<>>)
  <2>1. CASE ~submits
    BY <1>5, <2>1 DEF Collecting, Training, Online
  <2>2. CASE submits
    <3>1. s \in DeviceType /\ s = [d EXCEPT !.phase = Training, !.taskId = d.taskId + 1]
      BY <1>4, SubmittedType DEF Submitted
    <3>2. e = [s EXCEPT !.timers = @ + 1]
      BY <2>2
    <3>3. s.pending = <<>> /\ s.phase = Training /\ s.win = <<>>
      <4>. HIDE DEF s
      <4>. QED
        BY <1>4, <1>5, <2>2, <3>1 DEF DeviceType
    <3>. HIDE DEF s, e
    <3>4. e.pending = <<>> /\ e.phase = Training /\ e.win = <<>>
      BY <3>1, <3>2, <3>3 DEF DeviceType
    <3>. QED
      BY <3>4 DEF Training, Online
  <2>. QED
    BY <2>1, <2>2
<1>7. dev' = [dev EXCEPT ![k] = e] /\ log' = [log EXCEPT ![k] = log[k]] /\ ckpt' = ckpt
  BY <1>1 DEF CollectRound, Arrives, c, d
<1>. HIDE DEF e
<1>8. ScoringOK(e, log[k])
  <2>1. ScoringOK(dev[k], log[k])
    BY DEF ScoringInv
  <2>2. log[k].scored = <<>> /\ log[k].records = <<>>
    BY <1>1, <2>1 DEF ScoringOK, NothingScored, Collecting, Online
  <2>3. NothingScored(e, log[k])
    BY <1>6, <2>2 DEF NothingScored
  <2>. QED
    BY <1>2, <1>6, <2>1, <2>3 DEF ScoringOK
<1>. QED
  BY <1>7, <1>8, HandlerKeepsScoring

\* The history of a device whose round is buffered.
LEMMA BufferLogIs ==
  ASSUME NEW k \in Keys, log \in [Keys -> LogType], NEW r, BufferLog(k, r)
  PROVE  LET m == [log[k] EXCEPT !.accepted = IF HasRoom(dev[k]) THEN Append(@, r) ELSE @]
         IN  /\ log' = [log EXCEPT ![k] = m]
             /\ m.accepted = IF HasRoom(dev[k]) THEN Append(log[k].accepted, r)
                             ELSE log[k].accepted
             /\ m.scored = log[k].scored /\ m.records = log[k].records
BY DEF BufferLog, LogType

\* A round buffered while training, with the poll that follows.
LEMMA BufferWhileTrainingScoring ==
  ASSUME IInv, ScoringInv, NEW k \in Keys, BufferWhileTraining(k)
  PROVE  ScoringInv'
<1>. DEFINE r == Round(k, dev[k].count + 1)
            d == Buffered(Counted(dev[k]), r)
            e == Polled(k, d)
            m == [log[k] EXCEPT !.accepted = IF HasRoom(dev[k]) THEN Append(@, r) ELSE @]
<1>1. /\ dev[k].phase = Training /\ dev[k].count < NRounds
      /\ dev[k] \in DeviceType /\ BufferOK(k, dev[k]) /\ PhaseOK(dev[k])
      /\ slot \in [Keys -> TaskType] /\ SlotOK(dev[k], slot[k])
      /\ log \in [Keys -> LogType] /\ log[k] \in LogType
  BY Unfolded DEF BufferWhileTraining, Arrives
<1>2. r \in RoundSet
  BY <1>1, NextRoundAbove
<1>3. /\ d \in DeviceType /\ d.phase = dev[k].phase /\ d.model = dev[k].model
      /\ d.taskId = dev[k].taskId /\ d.segs = dev[k].segs /\ d.failures = dev[k].failures
  BY <1>1, BufferedOK
<1>4. /\ d.pending = IF HasRoom(dev[k]) THEN Append(dev[k].pending, r) ELSE dev[k].pending
      /\ d.win = dev[k].win
  BY <1>1, BufferedIs
<1>5. /\ dev' = [dev EXCEPT ![k] = e] /\ PollExecutor(k, d) /\ BufferLog(k, r) /\ ckpt' = ckpt
  BY DEF BufferWhileTraining, Arrives
<1>. HIDE DEF d, r
<1>6. d.model = NoModel /\ SlotOK(d, slot[k]) /\ d.phase = Training
  BY <1>1, <1>3 DEF PhaseOK, SlotOK, Training, Online
<1>7. e.pending = d.pending /\ e.phase \in {Training, Online}
  BY <1>1, <1>3, <1>5, <1>6, PolledOK
<1>8. e.win = d.win
  BY <1>1, <1>3, PolledIs
<1>9. /\ log' = [log EXCEPT ![k] = m]
      /\ m.accepted = IF HasRoom(dev[k]) THEN Append(log[k].accepted, r) ELSE log[k].accepted
      /\ m.scored = log[k].scored /\ m.records = log[k].records
  BY <1>1, <1>5, BufferLogIs
<1>. HIDE DEF e, m
<1>10. ScoringOK(dev[k], log[k])
  BY DEF ScoringInv
<1>11. ScoringOK(e, m)
  <2>1. e.phase = dev[k].phase \/ (dev[k].phase = Training /\ e.phase = Online)
    BY <1>1, <1>7
  <2>2. /\ e.pending = IF HasRoom(dev[k]) THEN Append(dev[k].pending, r) ELSE dev[k].pending
        /\ e.win = dev[k].win
    BY <1>4, <1>7, <1>8
  <2>. QED
    BY <1>1, <1>2, <1>9, <1>10, <2>1, <2>2, BufferKeepsScoring
<1>. QED
  BY <1>5, <1>9, <1>11, HandlerKeepsScoring

\* A round appended behind a draining buffer.
LEMMA BufferWhileDrainingScoring ==
  ASSUME IInv, ScoringInv, NEW k \in Keys, BufferWhileDraining(k)
  PROVE  ScoringInv'
<1>. DEFINE r == Round(k, dev[k].count + 1)
            d == Buffered(Counted(dev[k]), r)
            m == [log[k] EXCEPT !.accepted = IF HasRoom(dev[k]) THEN Append(@, r) ELSE @]
<1>1. /\ dev[k].count < NRounds /\ dev[k] \in DeviceType
      /\ log \in [Keys -> LogType] /\ log[k] \in LogType
  BY Unfolded DEF BufferWhileDraining, Arrives
<1>2. r \in RoundSet
  BY <1>1, NextRoundAbove
<1>3. /\ d.pending = IF HasRoom(dev[k]) THEN Append(dev[k].pending, r) ELSE dev[k].pending
      /\ d.win = dev[k].win /\ d.phase = dev[k].phase
  BY <1>1, BufferedIs
<1>4. dev' = [dev EXCEPT ![k] = d] /\ BufferLog(k, r) /\ ckpt' = ckpt
  BY DEF BufferWhileDraining, Arrives
<1>. HIDE DEF d, r
<1>5. /\ log' = [log EXCEPT ![k] = m]
      /\ m.accepted = IF HasRoom(dev[k]) THEN Append(log[k].accepted, r) ELSE log[k].accepted
      /\ m.scored = log[k].scored /\ m.records = log[k].records
  BY <1>1, <1>4, BufferLogIs
<1>. HIDE DEF m
<1>6. ScoringOK(dev[k], log[k])
  BY DEF ScoringInv
<1>7. ScoringOK(d, m)
  BY <1>1, <1>2, <1>3, <1>5, <1>6, BufferKeepsScoring
<1>. QED
  BY <1>4, <1>5, <1>7, HandlerKeepsScoring


\* A round scored at once.
LEMMA ScoreDirectlyScoring ==
  ASSUME IInv, ScoringInv, NEW k \in Keys, ScoreDirectly(k)
  PROVE  ScoringInv'
<1>. DEFINE r == Round(k, dev[k].count + 1)
            c == Counted(dev[k])
            e == ScoreOnline(c, <<r>>)
            m == [log[k] EXCEPT !.accepted = Append(@, r)]
            l == ScoreLog(m, c, <<r>>)
<1>1. /\ dev[k].phase = Online /\ dev[k].count < NRounds /\ ~(dev[k].size > 0)
      /\ dev[k] \in DeviceType /\ BufferOK(k, dev[k]) /\ PhaseOK(dev[k])
      /\ log \in [Keys -> LogType] /\ log[k] \in LogType /\ Len(dev[k].pending) \in Nat
  BY Unfolded DEF ScoreDirectly, Arrives
<1>2. r \in RoundSet /\ <<r>> \in Seq(RoundSet)
  BY <1>1, NextRoundAbove
<1>3. c \in DeviceType /\ c = [dev[k] EXCEPT !.count = dev[k].count + 1]
  BY <1>1, CountedType DEF Counted
<1>4. dev[k].pending = <<>>
  <2>1. dev[k].pending \in Seq(RoundSet) /\ Len(dev[k].pending) = 0
    BY <1>1 DEF BufferOK, DeviceType
  <2>. QED
    BY <2>1, EmptySeq
<1>5. dev' = [dev EXCEPT ![k] = e] /\ log' = [log EXCEPT ![k] = l] /\ ckpt' = ckpt
  BY DEF ScoreDirectly, Arrives
<1>. HIDE DEF r, c
<1>6. /\ c.phase = Online /\ c.model = dev[k].model /\ c.win = dev[k].win
      /\ c.pending = <<>>
  BY <1>1, <1>3, <1>4 DEF DeviceType
<1>7. e.phase = Online /\ e.pending = <<>> /\ e.win = ScoreOnline(c, <<r>>).win
  BY <1>2, <1>3, <1>6, ScoredSame DEF SameDevice
<1>8. c.model # NoModel
  BY <1>1, <1>6 DEF PhaseOK
<1>9. /\ m \in LogType /\ m.scored = log[k].scored /\ m.records = log[k].records
      /\ m.accepted = Append(log[k].accepted, r)
  <2>1. Append(log[k].accepted, r) \in Seq(RoundSet)
    BY <1>1, <1>2, AppendProperties DEF LogType
  <2>. QED
    BY <1>1, <2>1 DEF LogType
<1>. HIDE DEF m
<1>10. ScoringOK(dev[k], log[k])
  BY DEF ScoringInv
<1>11. Blocks(m.scored, m.records) /\ Rest(m.scored, m.records, c.win)
  BY <1>1, <1>6, <1>9, <1>10 DEF ScoringOK
<1>12. m.accepted = m.scored \o (<<r>> \o <<>>) /\ <<>> \in Seq(RoundSet)
  <2>1. log[k].accepted = log[k].scored \o <<>> /\ log[k].scored \in Seq(RoundSet)
    BY <1>1, <1>4, <1>10 DEF ScoringOK, LogType
  <2>2. log[k].scored \o <<>> = log[k].scored /\ <<r>> \o <<>> = <<r>>
    BY <1>2, <2>1, ConcatEmptySeq
  <2>3. Append(log[k].scored, r) = log[k].scored \o <<r>>
    BY <1>2, <2>1, AppendIsConcat
  <2>. QED
    BY <1>9, <2>1, <2>2, <2>3, EmptySeq
<1>. HIDE DEF e
<1>13. ScoringOK(e, l)
  <2>1. e.pending \in Seq(RoundSet) /\ m.accepted = m.scored \o (<<r>> \o e.pending)
    BY <1>7, <1>12
  <2>. QED
    BY <1>2, <1>3, <1>7, <1>8, <1>9, <1>11, <2>1, ScoreKeepsScoring
<1>. HIDE DEF l
<1>. QED
  BY <1>5, <1>13, HandlerKeepsScoring

\* A timer that polls and drains.
LEMMA OnTimerScoring ==
  ASSUME IInv, ScoringInv, NEW k \in Keys, OnTimer(k)
  PROVE  ScoringInv'
<1>. DEFINE c == Fired(k)
            d == AfterTimerPoll(k)
            e == IF Draining(d) THEN Drained(d) ELSE d
            f == Rearmed(e)
            l == IF Draining(d) THEN ScoreLog(log[k], d, NextBatch(d)) ELSE log[k]
<1>1. /\ d \in DeviceType /\ BufferOK(k, d) /\ d.pending = dev[k].pending
      /\ d.phase \in {Training, Online} /\ (d.phase = Online <=> d.model # NoModel)
  BY TimerPollOK
<1>2. /\ log \in [Keys -> LogType] /\ log[k] \in LogType /\ slot[k] \in TaskType
      /\ dev[k] \in DeviceType
  BY Unfolded
<1>3. /\ c \in DeviceType /\ c.phase = dev[k].phase /\ c.phase \in {Training, Online}
  BY FiredOK DEF OnTimer
<1>4. c.win = dev[k].win
  BY <1>2 DEF Fired, DeviceType
<1>. HIDE DEF c
<1>5. /\ d.win = dev[k].win /\ dev[k].phase \in {Training, Online}
      /\ d.phase = dev[k].phase \/ (dev[k].phase = Training /\ d.phase = Online)
  <2>1. CASE TimerPolls(k)
    <3>1. d.win = c.win
      BY <1>2, <1>3, <2>1, PolledIs DEF AfterTimerPoll, c
    <3>. QED
      BY <1>1, <1>3, <1>4, <2>1, <3>1 DEF TimerPolls
  <2>2. CASE ~TimerPolls(k)
    <3>1. d = c
      BY <2>2 DEF AfterTimerPoll, c
    <3>. QED
      BY <1>3, <1>4, <3>1
  <2>. QED
    BY <2>1, <2>2
<1>6. /\ dev' = [dev EXCEPT ![k] = f]
      /\ log' = [log EXCEPT ![k] = l] /\ ckpt' = ckpt
  BY <1>2 DEF OnTimer
<1>. HIDE DEF d
<1>7. ScoringOK(dev[k], log[k])
  BY DEF ScoringInv
<1>8. ScoringOK(d, log[k])
  <2>1. d.phase = Online => Rest(log[k].scored, log[k].records, d.win)
    <3>1. CASE dev[k].phase = Online
      BY <1>5, <1>7, <3>1 DEF ScoringOK
    <3>2. CASE dev[k].phase = Training
      BY <1>5, <1>7, <3>2, OnlineStarts DEF ScoringOK
    <3>. QED
      BY <1>5, <3>1, <3>2
  <2>2. NothingScored(d, log[k])
    BY <1>5, <1>7 DEF ScoringOK, NothingScored, Training, Online
  <2>. QED
    BY <1>1, <1>7, <2>1, <2>2 DEF ScoringOK
<1>9. ScoringOK(e, l)
  <2>1. CASE ~Draining(d)
    BY <1>8, <2>1
  <2>2. CASE Draining(d)
    <3>. DEFINE batch == NextBatch(d)
    <3>1. e = Drained(d) /\ l = ScoreLog(log[k], d, batch) /\ d.phase = Online
      BY <2>2 DEF Draining
    <3>2. d.pending = batch \o e.pending /\ e.pending \in Seq(RoundSet)
          /\ e.win = ScoreOnline(d, batch).win /\ e.phase = Online
      BY <1>1, <3>1, DrainedIs
    <3>3. batch \in Seq(RoundSet)
      BY <1>1, BatchType
    <3>4. /\ Blocks(log[k].scored, log[k].records)
          /\ Rest(log[k].scored, log[k].records, d.win)
          /\ log[k].accepted = log[k].scored \o (batch \o e.pending)
      BY <1>8, <3>1, <3>2 DEF ScoringOK
    <3>. HIDE DEF e, l, batch
    <3>. QED
      BY <1>1, <1>2, <3>1, <3>2, <3>3, <3>4, ScoreKeepsScoring
  <2>. QED
    BY <2>1, <2>2
<1>10. f.pending = e.pending /\ f.win = e.win /\ f.phase = e.phase
  <2>1. e \in DeviceType
    BY <1>1, DrainedOK
  <2>. HIDE DEF e
  <2>. QED
    BY <2>1 DEF Rearmed, DeviceType
<1>11. ScoringOK(f, l)
  <2>. HIDE DEF f, e, l
  <2>. QED
    BY <1>9, <1>10 DEF ScoringOK, NothingScored
<1>. HIDE DEF f, l
<1>. QED
  BY <1>6, <1>11, HandlerKeepsScoring

\* Every step keeps the scoring invariant, a checkpoint and a restart included.
THEOREM ScoringStep == IInv /\ ScoringInv /\ [Next]_vars => ScoringInv'
<1>. SUFFICES ASSUME IInv, ScoringInv, [Next]_vars PROVE ScoringInv'
  OBVIOUS
<1>1. CASE UNCHANGED <<dev, log, ckpt>>
  BY <1>1 DEF ScoringInv
<1>2. ASSUME NEW k \in Keys, ProcessElement(k) PROVE ScoringInv'
  BY <1>2, CollectRoundScoring, BufferWhileTrainingScoring, BufferWhileDrainingScoring,
     ScoreDirectlyScoring DEF ProcessElement
<1>3. ASSUME NEW k \in Keys, OnTimer(k) PROVE ScoringInv'
  BY <1>3, OnTimerScoring
<1>4. ASSUME NEW w \in Timestamps, ProcessWatermark(w) PROVE ScoringInv'
  BY <1>1, <1>4 DEF ProcessWatermark
<1>5. ASSUME NEW k \in Keys, NEW result \in {"done", "failed"},
             TrainStart(k) \/ TrainEnd(k, result)
      PROVE  ScoringInv'
  BY <1>1, <1>5 DEF TrainStart, TrainEnd
<1>6. CASE Checkpoint
  <2>1. dev' = dev /\ log' = log /\ ckpt' = [dev |-> dev, log |-> log]
    BY <1>6 DEF Checkpoint
  <2>. QED
    BY <2>1 DEF ScoringInv
<1>7. CASE CrashAndRestore
  <2>1. dev' = ckpt.dev /\ log' = ckpt.log /\ ckpt' = ckpt
    BY <1>7 DEF CrashAndRestore
  <2>. QED
    BY <2>1 DEF ScoringInv
<1>8. CASE UNCHANGED vars
  BY <1>1, <1>8 DEF vars
<1>. QED
  BY <1>2, <1>3, <1>4, <1>5, <1>6, <1>7, <1>8 DEF Next

\* The scoring invariant holds in every reachable state.
THEOREM ScoringInvariance == Spec => []ScoringInv
<1>1. Init => ScoringInv
  BY InitialScoring DEF Init, ScoringInv
<1>2. IInv /\ ScoringInv /\ [Next]_vars => ScoringInv'
  BY ScoringStep
<1>. QED
  BY <1>1, <1>2, Invariance, PTL DEF Spec

\* The rounds of a device are scored in the order they were accepted, none lost,
\* repeated or overtaken, across buffering, batches, live scoring and restarts,
\* and the windows emitted are the scored rounds cut into blocks.
THEOREM RoundsScoredInOrder == Spec => []ScoredInOrder
<1>1. ScoringInv => ScoredInOrder
  BY DEF ScoringInv, ScoringOK, Blocks, Rest, ScoredInOrder
<1>. QED
  BY <1>1, ScoringInvariance, PTL


--------------------------------------------------------------------------------
(* The context channel implements the ordered queues with a held watermark. *)

\* A step of a device extends what it has accepted and what it has scored.
Grows(k) ==
  \E x, y \in Seq(RoundSet) :
    /\ log'[k].scored = log[k].scored \o x
    /\ log'[k].accepted = log[k].accepted \o y

\* A history that does not change extends itself by nothing.
LEMMA KeptGrows ==
  ASSUME NEW k \in Keys, log[k] \in LogType, log'[k] = log[k]
  PROVE  Grows(k)
<1>1. <<>> \in Seq(RoundSet)
  BY EmptySeq
<1>2. log[k].scored \o <<>> = log[k].scored /\ log[k].accepted \o <<>> = log[k].accepted
  BY ConcatEmptySeq DEF LogType
<1>. QED
  BY <1>1, <1>2 DEF Grows

\* Buffering extends the accepted rounds by at most the round that arrived.
LEMMA BufferGrows ==
  ASSUME IInv, NEW j \in Keys, BufferWhileTraining(j) \/ BufferWhileDraining(j), NEW k \in Keys
  PROVE  Grows(k)
<1>. DEFINE r == Round(j, dev[j].count + 1)
            m == [log[j] EXCEPT !.accepted = IF HasRoom(dev[j]) THEN Append(@, r) ELSE @]
<1>1. /\ log \in [Keys -> LogType] /\ log[j] \in LogType /\ log[k] \in LogType
      /\ dev[j].count < NRounds /\ BufferLog(j, r)
  BY Unfolded DEF BufferWhileTraining, BufferWhileDraining, Arrives
<1>2. r \in RoundSet /\ <<r>> \in Seq(RoundSet) /\ <<>> \in Seq(RoundSet)
  BY <1>1, NextRoundAbove, EmptySeq
<1>. HIDE DEF r
<1>3. /\ log' = [log EXCEPT ![j] = m]
      /\ m.accepted = IF HasRoom(dev[j]) THEN Append(log[j].accepted, r) ELSE log[j].accepted
      /\ m.scored = log[j].scored /\ m.records = log[j].records
  BY <1>1, BufferLogIs
<1>. HIDE DEF m
<1>4. CASE j # k
  BY <1>1, <1>3, <1>4, KeptGrows
<1>5. CASE j = k
  <2>1. log'[k] = m
    BY <1>1, <1>3, <1>5
  <2>2. log[k].scored \o <<>> = log[k].scored /\ log[k].accepted \o <<>> = log[k].accepted
    BY <1>1, ConcatEmptySeq DEF LogType
  <2>3. Append(log[k].accepted, r) = log[k].accepted \o <<r>>
    BY <1>1, <1>2, AppendIsConcat DEF LogType
  <2>4. m.scored = log[k].scored \o <<>>
    BY <1>3, <1>5, <2>2
  <2>5. m.accepted = log[k].accepted \o <<r>> \/ m.accepted = log[k].accepted \o <<>>
    BY <1>3, <1>5, <2>2, <2>3
  <2>. QED
    BY <1>2, <2>1, <2>4, <2>5 DEF Grows
<1>. QED
  BY <1>4, <1>5

\* A round scored at once extends both.
LEMMA ScoreDirectlyGrows ==
  ASSUME IInv, NEW j \in Keys, ScoreDirectly(j), NEW k \in Keys
  PROVE  Grows(k)
<1>. DEFINE r == Round(j, dev[j].count + 1)
            c == Counted(dev[j])
            m == [log[j] EXCEPT !.accepted = Append(@, r)]
            l == ScoreLog(m, c, <<r>>)
<1>1. /\ log \in [Keys -> LogType] /\ log[j] \in LogType /\ log[k] \in LogType
      /\ dev[j].count < NRounds /\ log' = [log EXCEPT ![j] = l]
  BY Unfolded DEF ScoreDirectly, Arrives
<1>2. r \in RoundSet /\ <<r>> \in Seq(RoundSet)
  BY <1>1, NextRoundAbove
<1>. HIDE DEF r, c
<1>3. m.scored = log[j].scored /\ m.accepted = Append(log[j].accepted, r)
  BY <1>1 DEF LogType
<1>4. Append(log[j].accepted, r) = log[j].accepted \o <<r>>
  BY <1>1, <1>2, AppendIsConcat DEF LogType
<1>5. l.scored = m.scored \o <<r>> /\ l.accepted = m.accepted
  <2>1. m \in LogType
    <3>1. Append(log[j].accepted, r) \in Seq(RoundSet)
      BY <1>1, <1>2, AppendProperties DEF LogType
    <3>. QED
      BY <1>1, <3>1 DEF LogType
  <2>. HIDE DEF m
  <2>. QED
    BY <2>1 DEF ScoreLog, LogType
<1>. HIDE DEF m, l
<1>6. CASE j # k
  BY <1>1, <1>6, KeptGrows
<1>7. CASE j = k
  <2>1. log'[k] = l
    BY <1>1, <1>7
  <2>. QED
    BY <1>2, <1>3, <1>4, <1>5, <1>7, <2>1 DEF Grows
<1>. QED
  BY <1>6, <1>7

\* A timer extends the scored rounds by the batch it drains.
LEMMA OnTimerGrows ==
  ASSUME IInv, NEW j \in Keys, OnTimer(j), NEW k \in Keys
  PROVE  Grows(k)
<1>. DEFINE d == AfterTimerPoll(j)
            batch == NextBatch(d)
            l == ScoreLog(log[j], d, batch)
<1>1. /\ log \in [Keys -> LogType] /\ log[j] \in LogType /\ log[k] \in LogType
      /\ log' = [log EXCEPT ![j] = IF Draining(d) THEN l ELSE @]
  BY Unfolded DEF OnTimer
<1>2. d \in DeviceType
  BY TimerPollOK
<1>3. batch \in Seq(RoundSet) /\ <<>> \in Seq(RoundSet)
  BY <1>2, BatchType, EmptySeq
<1>. HIDE DEF d, batch
<1>4. l.scored = log[j].scored \o batch /\ l.accepted = log[j].accepted
  BY <1>1 DEF ScoreLog, LogType
<1>. HIDE DEF l
<1>5. CASE j # k \/ ~Draining(d)
  BY <1>1, <1>5, KeptGrows
<1>6. CASE j = k /\ Draining(d)
  <2>1. log'[k] = l
    BY <1>1, <1>6
  <2>2. log[k].accepted \o <<>> = log[k].accepted
    BY <1>1, ConcatEmptySeq DEF LogType
  <2>3. log'[k].scored = log[k].scored \o batch /\ log'[k].accepted = log[k].accepted \o <<>>
    BY <1>4, <1>6, <2>1, <2>2
  <2>. QED
    BY <1>3, <2>3 DEF Grows
<1>. QED
  BY <1>5, <1>6


\* Only a restart takes the emitted watermark back.
LEMMA WatermarkRises ==
  ASSUME IInv, IInv', Next, ~CrashAndRestore
  PROVE  emittedWm' >= emittedWm
<1>1. /\ emittedWm \in Nat /\ inputWm \in Nat /\ hold \in [Keys -> Nat] /\ hold' \in [Keys -> Nat]
  <2>1. \A k \in Keys : dev[k].head \in Nat /\ dev'[k].head \in Nat
    BY DEF IInv, DevicesInv, DeviceType
  <2>. QED
    BY <2>1 DEF IInv, WatermarkInv
<1>2. ASSUME NEW h \in [Keys -> Nat], NEW wm \in Nat, ForwardWatermark(h, wm)
      PROVE  emittedWm' >= emittedWm
  <2>1. PICK target \in WatermarkLimits(h, wm) :
          emittedWm' = IF target > emittedWm THEN target ELSE emittedWm
    BY <1>2 DEF ForwardWatermark
  <2>2. target \in Int
    BY DEF WatermarkLimits
  <2>. QED
    BY <1>1, <2>1, <2>2
<1>3. ASSUME NEW k \in Keys, ProcessElement(k) \/ OnTimer(k)
      PROVE  emittedWm' >= emittedWm
  <2>1. ForwardWatermark(hold, inputWm) \/ ForwardWatermark(hold', inputWm)
    BY <1>3 DEF ProcessElement, CollectRound, BufferWhileTraining, BufferWhileDraining,
                ScoreDirectly, OnTimer
  <2>. QED
    BY <1>1, <1>2, <2>1
<1>4. ASSUME NEW w \in Timestamps, ProcessWatermark(w)
      PROVE  emittedWm' >= emittedWm
  <2>1. ForwardWatermark(hold, w) /\ w \in Nat
    BY <1>4, RoundTsPositive DEF ProcessWatermark, Timestamps
  <2>. QED
    BY <1>1, <1>2, <2>1
<1>5. ASSUME NEW k \in Keys, NEW result \in {"done", "failed"},
             TrainStart(k) \/ TrainEnd(k, result) \/ Checkpoint
      PROVE  emittedWm' >= emittedWm
  <2>1. emittedWm' = emittedWm
    BY <1>5 DEF TrainStart, TrainEnd, Checkpoint
  <2>. QED
    BY <1>1, <2>1
<1>6. ASSUME Checkpoint PROVE emittedWm' >= emittedWm
  BY <1>1, <1>6 DEF Checkpoint
<1>. QED
  BY <1>3, <1>4, <1>5, <1>6 DEF Next

\* Every step but a checkpoint and a restart extends the histories and leaves
\* the last checkpoint alone.
LEMMA StepGrows ==
  ASSUME IInv, Next, ~Checkpoint, ~CrashAndRestore, NEW k \in Keys
  PROVE  Grows(k) /\ ckpt' = ckpt
<1>1. log[k] \in LogType
  BY Unfolded
<1>2. ASSUME NEW j \in Keys, CollectRound(j) PROVE Grows(k) /\ ckpt' = ckpt
  BY <1>1, <1>2, KeptGrows DEF CollectRound, Arrives
<1>3. ASSUME NEW j \in Keys, BufferWhileTraining(j) \/ BufferWhileDraining(j)
      PROVE  Grows(k) /\ ckpt' = ckpt
  BY <1>3, BufferGrows DEF BufferWhileTraining, BufferWhileDraining, Arrives
<1>4. ASSUME NEW j \in Keys, ScoreDirectly(j) PROVE Grows(k) /\ ckpt' = ckpt
  BY <1>4, ScoreDirectlyGrows DEF ScoreDirectly, Arrives
<1>5. ASSUME NEW j \in Keys, OnTimer(j) PROVE Grows(k) /\ ckpt' = ckpt
  <2>1. ckpt' = ckpt
    BY <1>5 DEF OnTimer
  <2>. QED
    BY <1>5, <2>1, OnTimerGrows
<1>6. ASSUME NEW w \in Timestamps, ProcessWatermark(w) PROVE Grows(k) /\ ckpt' = ckpt
  BY <1>1, <1>6, KeptGrows DEF ProcessWatermark
<1>7. ASSUME NEW j \in Keys, NEW result \in {"done", "failed"},
             TrainStart(j) \/ TrainEnd(j, result)
      PROVE  Grows(k) /\ ckpt' = ckpt
  BY <1>1, <1>7, KeptGrows DEF TrainStart, TrainEnd
<1>. QED
  BY <1>2, <1>3, <1>4, <1>5, <1>6, <1>7 DEF Next, ProcessElement

\* A sequence extends its beginning, in the sense of the abstract queues.
LEMMA ConcatExtends ==
  ASSUME NEW s \in Seq(RoundSet), NEW x \in Seq(RoundSet)
  PROVE  Promise!Extends(s, s \o x)
<1>1. /\ Len(s) \in Nat /\ Len(x) \in Nat /\ Len(s \o x) = Len(s) + Len(x)
      /\ s \o x \in Seq(RoundSet)
      /\ \A i \in 1..Len(s) : (s \o x)[i] = s[i]
  <2>1. /\ Len(s) \in Nat /\ Len(x) \in Nat
    BY LenProperties
  <2>2. /\ Len(s \o x) = Len(s) + Len(x) /\ s \o x \in Seq(RoundSet)
        /\ \A i \in 1..Len(s) + Len(x) :
             (s \o x)[i] = IF i <= Len(s) THEN s[i] ELSE x[i - Len(s)]
    BY ConcatProperties
  <2>. DEFINE t == s \o x
  <2>. HIDE DEF t
  <2>3. \A i \in 1..Len(s) : t[i] = s[i]
    BY <2>1, <2>2 DEF t
  <2>. QED
    BY <2>1, <2>2, <2>3 DEF t
<1>. DEFINE t == s \o x
<1>. HIDE DEF t
<1>2. /\ Len(s) \in Nat /\ Len(x) \in Nat /\ Len(t) = Len(s) + Len(x) /\ t \in Seq(RoundSet)
      /\ \A i \in 1..Len(s) : t[i] = s[i]
  BY <1>1 DEF t
<1>3. SubSeq(t, 1, Len(s)) = s
  <2>. DEFINE u == SubSeq(t, 1, Len(s))
  <2>1. \A i \in 1..Len(s) : t[i] \in RoundSet
    BY <1>2, ElementOfSeq
  <2>2. u \in Seq(RoundSet) /\ Len(u) = Len(s) /\ \A i \in 1..Len(s) : u[i] = t[1 + i - 1]
    BY <1>2, <2>1, SubSeqProperties
  <2>3. \A i \in 1..Len(s) : u[i] = s[i]
    <3>1. \A i \in 1..Len(s) : 1 + i - 1 = i
      BY <1>2
    <3>. QED
      BY <1>2, <2>2, <3>1
  <2>. HIDE DEF u
  <2>4. u = s
    BY <2>2, <2>3, SeqEqual
  <2>. QED
    BY <2>4 DEF u
<1>4. Len(s) <= Len(t)
  BY <1>2
<1>. QED
  BY <1>3, <1>4 DEF Promise!Extends, t


\* What the abstract queue of one device may do in a step.
Serves(k) ==
  /\ Promise!Extends(log[k].accepted, log'[k].accepted)
  /\ Promise!Extends(log[k].scored, log'[k].scored)
  /\ Promise!Extends(log'[k].scored, log'[k].accepted)
  /\ \A i \in Len(log[k].scored) + 1 .. Len(log'[k].accepted) : log'[k].accepted[i].ts > emittedWm
  /\ \A i \in Len(log'[k].scored) + 1 .. Len(log'[k].accepted) : log'[k].accepted[i].ts > emittedWm'

\* A step that extends the histories serves the queue: what it scores was above
\* the watermark, what it leaves is above the new one.
LEMMA GrowsServes ==
  ASSUME IInv, IInv', ScoringInv', [Next]_vars, NEW k \in Keys, Grows(k), emittedWm' >= emittedWm
  PROVE  Serves(k)
<1>. DEFINE s == log[k].scored
            a == log[k].accepted
            s2 == log'[k].scored
            a2 == log'[k].accepted
            p2 == dev'[k].pending
<1>1. /\ s \in Seq(RoundSet) /\ a \in Seq(RoundSet) /\ s2 \in Seq(RoundSet) /\ a2 \in Seq(RoundSet)
      /\ emittedWm \in Nat /\ emittedWm' \in Nat /\ p2 \in Seq(RoundSet)
  <2>1. log[k] \in LogType /\ log'[k] \in LogType /\ dev'[k] \in DeviceType
    BY DEF IInv, DevicesInv, RecoveryInv
  <2>. QED
    BY <2>1 DEF IInv, WatermarkInv, LogType, DeviceType
<1>2. PICK x, y \in Seq(RoundSet) : s2 = s \o x /\ a2 = a \o y
  BY DEF Grows
<1>3. a2 = s2 \o p2
  BY DEF ScoringInv, ScoringOK
<1>4. \A i \in 1..Len(p2) : p2[i].ts > emittedWm'
  BY DEF IInv, WatermarkInv, Above
<1>5. \A i \in Len(s) + 1 .. Len(s2) : s2[i].ts > emittedWm
  BY StepLateFree DEF LateFree
<1>. HIDE DEF s, a, s2, a2, p2
<1>6. Promise!Extends(a, a2) /\ Promise!Extends(s, s2) /\ Promise!Extends(s2, a2)
  <2>1. Promise!Extends(a, a2)
    BY <1>1, <1>2, ConcatExtends
  <2>2. Promise!Extends(s, s2)
    BY <1>1, <1>2, ConcatExtends
  <2>3. Promise!Extends(s2, a2)
    BY <1>1, <1>3, ConcatExtends
  <2>. QED
    BY <2>1, <2>2, <2>3
<1>7. /\ Len(s) \in Nat /\ Len(s2) \in Nat /\ Len(p2) \in Nat
      /\ Len(a2) = Len(s2) + Len(p2) /\ Len(s) <= Len(s2)
  <2>1. Len(a2) = Len(s2) + Len(p2)
    BY <1>1, <1>3, ConcatProperties
  <2>2. Len(s2) = Len(s) + Len(x) /\ Len(x) \in Nat
    BY <1>1, <1>2, ConcatProperties, LenProperties
  <2>3. Len(s) \in Nat /\ Len(s2) \in Nat /\ Len(p2) \in Nat
    BY <1>1, LenProperties
  <2>. QED
    BY <2>1, <2>2, <2>3
<1>8. \A i \in 1..Len(s2) + Len(p2) :
        a2[i] = IF i <= Len(s2) THEN s2[i] ELSE p2[i - Len(s2)]
  BY <1>1, <1>3, ConcatProperties
<1>9. ASSUME NEW i \in Len(s2) + 1 .. Len(a2)
      PROVE  a2[i].ts > emittedWm' /\ a2[i].ts > emittedWm
  <2>1. i \in 1..Len(s2) + Len(p2) /\ ~(i <= Len(s2)) /\ i - Len(s2) \in 1..Len(p2)
    BY <1>7
  <2>2. a2[i] = p2[i - Len(s2)]
    BY <1>8, <2>1
  <2>3. p2[i - Len(s2)].ts > emittedWm' /\ p2[i - Len(s2)] \in RoundSet
    BY <1>1, <1>4, <2>1, ElementOfSeq
  <2>4. a2[i].ts > emittedWm' /\ a2[i].ts \in Nat
    BY <2>2, <2>3 DEF RoundSet
  <2>. QED
    BY <1>1, <2>4
<1>10. ASSUME NEW i \in Len(s) + 1 .. Len(a2), i <= Len(s2)
       PROVE  a2[i].ts > emittedWm
  <2>1. i \in 1..Len(s2) + Len(p2) /\ i \in Len(s) + 1 .. Len(s2)
    BY <1>7, <1>10
  <2>2. a2[i] = s2[i]
    BY <1>8, <1>10, <2>1
  <2>. QED
    BY <1>5, <2>1, <2>2
<1>11. \A i \in Len(s) + 1 .. Len(a2) : a2[i].ts > emittedWm
  <2>1. \A i \in Len(s) + 1 .. Len(a2) : i <= Len(s2) \/ i \in Len(s2) + 1 .. Len(a2)
    BY <1>7
  <2>. QED
    BY <1>9, <1>10, <2>1
<1>. QED
  BY <1>6, <1>9, <1>11 DEF Serves, s, a, s2, a2

\* The refinement, initially: nothing is accepted, scored or saved.
LEMMA PromiseInit == Init => Promise!Init
<1>. SUFFICES ASSUME Init PROVE Promise!Init
  OBVIOUS
<1>1. /\ log = [k \in Keys |-> InitLog] /\ ckpt.log = [k \in Keys |-> InitLog] /\ emittedWm = 0
  BY DEF Init
<1>2. InitLog.accepted = <<>> /\ InitLog.scored = <<>>
  BY DEF InitLog
<1>3. /\ Accepted(log) = [k \in Keys |-> <<>>] /\ Served(log) = [k \in Keys |-> <<>>]
      /\ Accepted(ckpt.log) = [k \in Keys |-> <<>>] /\ Served(ckpt.log) = [k \in Keys |-> <<>>]
  BY <1>1, <1>2 DEF Accepted, Served
<1>. QED
  BY <1>1, <1>3 DEF Promise!Init, Promise!Empty

\* The refinement, step by step: a restart recovers, a checkpoint saves, and
\* every other step serves.
LEMMA PromiseNext ==
  ASSUME IInv, IInv', ScoringInv, ScoringInv', [Next]_vars
  PROVE  [Promise!Next]_(Promise!vars)
<1>1. CASE UNCHANGED vars
  <2>1. log' = log /\ ckpt' = ckpt /\ emittedWm' = emittedWm
    BY <1>1 DEF vars
  <2>. QED
    BY <2>1 DEF Promise!vars, Accepted, Served
<1>2. CASE CrashAndRestore
  <2>1. log' = ckpt.log /\ ckpt' = ckpt /\ emittedWm' = 0
    BY <1>2 DEF CrashAndRestore
  <2>2. Promise!Recover
    BY <2>1 DEF Promise!Recover, Accepted, Served
  <2>. QED
    BY <2>2 DEF Promise!Next
<1>3. CASE Checkpoint
  <2>1. log' = log /\ ckpt'.log = log /\ emittedWm' = emittedWm
    BY <1>3 DEF Checkpoint
  <2>2. Promise!Save
    BY <2>1 DEF Promise!Save, Accepted, Served
  <2>. QED
    BY <2>2 DEF Promise!Next
<1>4. CASE Next /\ ~Checkpoint /\ ~CrashAndRestore
  <2>1. emittedWm' >= emittedWm
    BY <1>4, WatermarkRises
  <2>2. \A k \in Keys : Grows(k) /\ ckpt' = ckpt
    BY <1>4, StepGrows
  <2>3. \A k \in Keys : Serves(k)
    BY <2>1, <2>2, GrowsServes
  <2>4. CASE Keys # {}
    <3>1. ckpt' = ckpt
      BY <2>2, <2>4
    <3>2. \A k \in Keys :
            /\ Accepted(log)[k] = log[k].accepted /\ Accepted(log)'[k] = log'[k].accepted
            /\ Served(log)[k] = log[k].scored /\ Served(log)'[k] = log'[k].scored
      BY DEF Accepted, Served
    <3>3. Promise!Serve
      BY <2>1, <2>3, <3>1, <3>2 DEF Promise!Serve, Serves, Accepted, Served
    <3>. QED
      BY <3>3 DEF Promise!Next
  <2>5. CASE Keys = {}
    <3>1. ckpt' = ckpt
      BY <1>4, <2>5 DEF Next, ProcessWatermark, Timestamps
    <3>2. Promise!Serve
      BY <2>1, <2>5, <3>1 DEF Promise!Serve, Accepted, Served
    <3>. QED
      BY <3>2 DEF Promise!Next
  <2>. QED
    BY <2>4, <2>5
<1>. QED
  BY <1>1, <1>2, <1>3, <1>4

\* The context channel, with its training threads, buffers, batches, timers and
\* restarts, implements the per-device queues with a held watermark, for any
\* devices, inputs and bounds.
THEOREM ChannelKeepsPromise == Spec => PromiseSpec
<1>1. Init => Promise!Init
  BY PromiseInit
<1>2. IInv /\ IInv' /\ ScoringInv /\ ScoringInv' /\ [Next]_vars => [Promise!Next]_(Promise!vars)
  BY PromiseNext
<1>. QED
  BY <1>1, <1>2, Invariance, ScoringInvariance, PTL DEF Spec, PromiseSpec, Promise!Spec

--------------------------------------------------------------------------------
(* The data of the trainings. *)

FullInput == NRounds \div WindowLength

\* A window belongs to a segment; a segment's windows among the first i.
Belongs(k, lo, hi, clean, w) ==
  /\ w[WindowLength] > lo /\ w[WindowLength] <= hi
  /\ clean => ~HasOutlier(k, w)

With(k, lo, hi, clean, s, i) ==
  IF Belongs(k, lo, hi, clean, NthWindow(i)) THEN Append(s, NthWindow(i)) ELSE s

Follows(f, k, lo, hi, clean, n) ==
  /\ f \in [0..n -> Seq(Window)] /\ f[0] = <<>>
  /\ \A i \in 1..n : f[i] = With(k, lo, hi, clean, f[i - 1], i)

UpTo(k, lo, hi, clean) ==
  CHOOSE f : f = [i \in 0..FullInput |->
                    IF i = 0 THEN <<>> ELSE With(k, lo, hi, clean, f[i - 1], i)]

\* The windows of the input.
LEMMA NthWindowIs ==
  /\ FullInput \in Nat
  /\ \A i \in 1..FullInput :
       /\ NthWindow(i) \in Window /\ NthWindow(i)[WindowLength] = i * WindowLength
       /\ i * WindowLength \in Nat /\ i * WindowLength <= NRounds
<1>1. NRounds \in Nat /\ WindowLength \in Nat \ {0}
  BY BoundsAssumption
<1>2. FullInput \in Nat
  BY <1>1, DivBound DEF FullInput
<1>3. ASSUME NEW i \in 1..FullInput
      PROVE  /\ NthWindow(i) \in Window /\ NthWindow(i)[WindowLength] = i * WindowLength
             /\ i * WindowLength \in Nat /\ i * WindowLength <= NRounds
  <2>1. /\ (i - 1) * WindowLength \in Nat /\ i * WindowLength \in Nat
        /\ i * WindowLength <= NRounds
    BY <1>1, <1>3, DivBound DEF FullInput
  <2>2. (i - 1) * WindowLength + WindowLength = i * WindowLength
    BY <1>1, <1>2
  <2>. DEFINE b == (i - 1) * WindowLength
  <2>3. NthWindow(i) = [j \in 1..WindowLength |-> b + j]
    BY DEF NthWindow
  <2>. HIDE DEF b
  <2>4. \A j \in 1..WindowLength : b + j \in 1..NRounds
    <3>1. b \in Nat /\ b + WindowLength <= NRounds
      BY <2>1, <2>2 DEF b
    <3>. QED
      BY <1>1, <3>1
  <2>5. NthWindow(i) \in [1..WindowLength -> 1..NRounds]
    BY <2>3, <2>4
  <2>6. NthWindow(i) \in Window
    BY <1>1, <2>5, FunctionIsSeq DEF Window
  <2>7. NthWindow(i)[WindowLength] = b + WindowLength
    BY <1>1, <2>3
  <2>. QED
    BY <2>1, <2>2, <2>6, <2>7 DEF b
<1>. QED
  BY <1>2, <1>3

\* Putting the next window to a segment, or not, leaves a sequence of windows.
LEMMA WithType ==
  ASSUME NEW k, NEW lo, NEW hi, NEW clean, NEW s \in Seq(Window), NEW i \in 1..FullInput
  PROVE  With(k, lo, hi, clean, s, i) \in Seq(Window)
<1>1. NthWindow(i) \in Window
  BY NthWindowIs
<1>2. Append(s, NthWindow(i)) \in Seq(Window)
  BY <1>1, AppendProperties
<1>. QED
  BY <1>2 DEF With

\* A segment can be put together window by window.
LEMMA FollowsExists ==
  ASSUME NEW k, NEW lo, NEW hi, NEW clean
  PROVE  \E f : Follows(f, k, lo, hi, clean, FullInput)
<1>. DEFINE Some == {n \in 0..FullInput : \E f : Follows(f, k, lo, hi, clean, n)}
<1>0. FullInput \in Nat
  BY NthWindowIs
<1>1. 0 \in Some
  <2>. DEFINE f == [i \in 0..0 |-> <<>>]
  <2>1. <<>> \in Seq(Window)
    BY EmptySeq
  <2>2. f \in [0..0 -> Seq(Window)] /\ f[0] = <<>>
    BY <2>1
  <2>3. Follows(f, k, lo, hi, clean, 0)
    <3>. HIDE DEF f
    <3>. QED
      BY <2>2 DEF Follows
  <2>. HIDE DEF f
  <2>. QED
    BY <1>0, <2>3
<1>2. ASSUME NEW n \in 1..FullInput, n - 1 \in Some
      PROVE  n \in Some
  <2>1. PICK f : Follows(f, k, lo, hi, clean, n - 1)
    BY <1>2
  <2>. DEFINE b == With(k, lo, hi, clean, f[n - 1], n)
              g == [i \in 0..n |-> IF i = n THEN b ELSE f[i]]
  <2>2. /\ f \in [0..(n - 1) -> Seq(Window)] /\ f[0] = <<>>
        /\ \A i \in 1..(n - 1) : f[i] = With(k, lo, hi, clean, f[i - 1], i)
    BY <2>1 DEF Follows
  <2>3. /\ n \in Nat /\ n # 0 /\ n - 1 \in 0..(n - 1)
        /\ \A i \in 0..n : i # n => i \in 0..(n - 1)
        /\ \A i \in 1..n : i # n => i \in 1..(n - 1)
        /\ \A i \in 1..n : i \in 0..n /\ i - 1 \in 0..n /\ i - 1 # n
    OBVIOUS
  <2>4. b \in Seq(Window)
    BY <2>2, <2>3, WithType
  <2>. HIDE DEF b
  <2>5. g \in [0..n -> Seq(Window)] /\ g[0] = <<>>
    BY <2>2, <2>3, <2>4
  <2>6. ASSUME NEW i \in 1..n
        PROVE  g[i] = With(k, lo, hi, clean, g[i - 1], i)
    <3>1. g[i - 1] = f[i - 1]
      BY <2>3
    <3>2. CASE i = n
      <4>1. g[i] = b
        BY <2>3, <3>2
      <4>. HIDE DEF g
      <4>. QED
        BY <3>1, <3>2, <4>1, Zenon DEF b
    <3>3. CASE i # n
      <4>1. g[i] = f[i] /\ i \in 1..(n - 1)
        BY <2>3, <3>3
      <4>. HIDE DEF g
      <4>. QED
        BY <2>2, <3>1, <4>1, Zenon
    <3>. QED
      BY <3>2, <3>3
  <2>. HIDE DEF g
  <2>7. Follows(g, k, lo, hi, clean, n)
    BY <2>5, <2>6, Zenon DEF Follows
  <2>. QED
    BY <2>7
<1>. HIDE DEF Some
<1>3. \A i \in 0..FullInput : i \in Some
  BY <1>0, <1>1, <1>2, EachUpTo
<1>4. FullInput \in Some
  BY <1>0, <1>3
<1>. QED
  BY <1>4 DEF Some

\* InputWindows puts the segment together window by window.
LEMMA UpToFollows ==
  ASSUME NEW k, NEW lo, NEW hi, NEW clean
  PROVE  /\ Follows(UpTo(k, lo, hi, clean), k, lo, hi, clean, FullInput)
         /\ InputWindows(k, lo, hi, clean) = UpTo(k, lo, hi, clean)[FullInput]
<1>. DEFINE Step(f, i) == IF i = 0 THEN <<>> ELSE With(k, lo, hi, clean, f[i - 1], i)
            u == CHOOSE f : f = [i \in 0..FullInput |-> Step(f, i)]
<1>0. FullInput \in Nat
  BY NthWindowIs
<1>1. UpTo(k, lo, hi, clean) = u
  BY DEF UpTo
<1>2. InputWindows(k, lo, hi, clean) = u[FullInput]
  BY DEF InputWindows, FullInput, With, Belongs
<1>3. PICK g : Follows(g, k, lo, hi, clean, FullInput)
  BY FollowsExists
<1>4. g = [i \in 0..FullInput |-> Step(g, i)]
  <2>1. g = [i \in 0..FullInput |-> g[i]] /\ g[0] = <<>>
    BY <1>3 DEF Follows
  <2>2. ASSUME NEW i \in 0..FullInput
        PROVE  g[i] = Step(g, i)
    <3>1. CASE i = 0
      BY <2>1, <3>1
    <3>2. CASE i # 0
      <4>1. i \in 1..FullInput
        BY <3>2
      <4>2. g[i] = With(k, lo, hi, clean, g[i - 1], i)
        BY <1>3, <4>1, Zenon DEF Follows
      <4>. QED
        BY <3>2, <4>2, Zenon
    <3>. QED
      BY <3>1, <3>2
  <2>. QED
    BY <2>1, <2>2
<1>5. u = [i \in 0..FullInput |-> Step(u, i)]
  BY <1>4, Zenon
<1>. HIDE DEF u
<1>6. \A i \in 0..FullInput : u[i] = Step(u, i)
  BY <1>5, Zenon
<1>7. u[0] = <<>>
  <2>1. u[0] = Step(u, 0)
    BY <1>0, <1>6
  <2>. QED
    BY <2>1
<1>8. ASSUME NEW i \in 1..FullInput
      PROVE  u[i] = With(k, lo, hi, clean, u[i - 1], i) /\ i - 1 \in 0..FullInput
  <2>1. i \in 0..FullInput /\ i # 0 /\ i - 1 \in 0..FullInput
    BY <1>0
  <2>2. u[i] = Step(u, i)
    BY <1>6, <2>1
  <2>. QED
    BY <2>1, <2>2, Zenon
<1>9. \A i \in 0..FullInput : u[i] \in Seq(Window)
  <2>. DEFINE S == {i \in 0..FullInput : u[i] \in Seq(Window)}
  <2>0. u[0] \in Seq(Window)
    BY <1>7, EmptySeq
  <2>1. 0 \in S
    BY <1>0, <2>0
  <2>2. ASSUME NEW i \in 1..FullInput, i - 1 \in S
        PROVE  i \in S
    <3>1. u[i] \in Seq(Window)
      BY <1>8, <2>2, WithType
    <3>. QED
      BY <3>1
  <2>. HIDE DEF S
  <2>3. \A i \in 0..FullInput : i \in S
    BY <1>0, <2>1, <2>2, EachUpTo
  <2>. QED
    BY <2>3 DEF S
<1>10. u \in [0..FullInput -> Seq(Window)]
  BY <1>5, <1>9
<1>. QED
  BY <1>1, <1>2, <1>7, <1>8, <1>10, Zenon DEF Follows

\* Behind the segment's end no window belongs to it any more.
LEMMA SegmentEnds ==
  ASSUME NEW k, NEW lo \in Nat, NEW hi \in Nat, NEW clean,
         NEW m \in 0..FullInput, m * WindowLength >= hi
  PROVE  InputWindows(k, lo, hi, clean) = UpTo(k, lo, hi, clean)[m]
<1>. DEFINE u == UpTo(k, lo, hi, clean)
            n == FullInput - m
            S == {i \in 0..n : u[m + i] = u[m]}
<1>1. FullInput \in Nat /\ WindowLength \in Nat \ {0} /\ n \in Nat /\ m + n = FullInput
      /\ m \in Nat /\ m + 0 = m
  BY NthWindowIs, BoundsAssumption
<1>2. \A i \in 1..FullInput : u[i] = With(k, lo, hi, clean, u[i - 1], i)
  BY UpToFollows DEF Follows
<1>. HIDE DEF u
<1>3. 0 \in S
  BY <1>1
<1>4. ASSUME NEW i \in 1..n, i - 1 \in S
      PROVE  i \in S
  <2>1. m + i \in 1..FullInput /\ (m + i) - 1 = m + (i - 1) /\ m + i > m
    BY <1>1
  <2>2. NthWindow(m + i)[WindowLength] = (m + i) * WindowLength
    BY <2>1, NthWindowIs
  <2>3. (m + i) * WindowLength > hi
    <3>1. (m + i) * WindowLength = m * WindowLength + i * WindowLength /\ i * WindowLength > 0
          /\ m * WindowLength \in Nat /\ i * WindowLength \in Nat
      BY <1>1
    <3>. QED
      BY <3>1
  <2>4. ~Belongs(k, lo, hi, clean, NthWindow(m + i))
    <3>1. (m + i) * WindowLength \in Nat
      BY <2>1, NthWindowIs
    <3>. QED
      BY <2>2, <2>3, <3>1 DEF Belongs
  <2>5. u[m + i] = u[m + (i - 1)]
    BY <1>2, <2>1, <2>4 DEF With
  <2>. QED
    BY <1>4, <2>5
<1>5. \A i \in 0..n : i \in S
  <2>. HIDE DEF S, n
  <2>. QED
    BY <1>1, <1>3, <1>4, EachUpTo
<1>6. u[m + n] = u[m]
  BY <1>1, <1>5
<1>. QED
  BY <1>1, <1>6, UpToFollows DEF u

\* The three segments among the first i windows.
SegmentsTo(k, i) ==
  [train |-> UpTo(k, 0, TrainRounds, TRUE)[i],
   es |-> UpTo(k, TrainRounds, TrainRounds + EsRounds, FALSE)[i],
   th |-> UpTo(k, TrainRounds + EsRounds, CollectRounds, FALSE)[i]]

\* Of the rounds a collecting device has counted, the full windows are in the
\* segments and the rest in its window.
Gathered(k, d, i) ==
  /\ i \in 0..FullInput /\ i * WindowLength <= d.count
  /\ d.count - i * WindowLength < WindowLength
  /\ d.win = [j \in 1..(d.count - i * WindowLength) |-> i * WindowLength + j]
  /\ d.segs = SegmentsTo(k, i)

\* The data of a device, while it collects, trains and scores.
DataOK(k, d) ==
  /\ d.phase = Collecting => \E i \in 0..FullInput : Gathered(k, d, i)
  /\ d.phase = Training => d.segs = ReferenceSegments(k)
  /\ d.phase = Online => d.model = {ReferenceSegments(k)}

DataInv == \A k \in Keys : DataOK(k, dev[k]) /\ DataOK(k, ckpt.dev[k])

\* A window that ends within the input is one of its full windows.
LEMMA WindowFits ==
  ASSUME NEW a \in Nat, NEW w \in Nat \ {0}, NEW i \in Nat, i * w <= a
  PROVE  i <= a \div w
<1>1. a \div w \in Nat /\ a < (a \div w) * w + w
  OBVIOUS
<1>2. ASSUME i >= a \div w + 1
      PROVE  i * w >= (a \div w) * w + w
  BY <1>1, <1>2
<1>. QED
  BY <1>1, <1>2

\* Routing the next full window puts it where the reference has it.
LEMMA RoutedData ==
  ASSUME NEW k \in Keys, NEW d \in DeviceType, NEW i \in 1..FullInput,
         d.count = i * WindowLength, d.segs = SegmentsTo(k, i - 1)
  PROVE  Routed(k, d, NthWindow(i)).segs = SegmentsTo(k, i)
<1>. DEFINE w == NthWindow(i)
            tr == UpTo(k, 0, TrainRounds, TRUE)
            es == UpTo(k, TrainRounds, TrainRounds + EsRounds, FALSE)
            th == UpTo(k, TrainRounds + EsRounds, CollectRounds, FALSE)
            a == tr[i - 1]
            b == es[i - 1]
            c == th[i - 1]
            s == SegmentOf(d.count)
            dirty == HasOutlier(k, w)
<1>1. /\ w[WindowLength] = d.count /\ d.count \in Nat /\ d.count > 0
      /\ TrainRounds \in Nat /\ EsRounds \in Nat /\ ThRounds \in Nat
      /\ CollectRounds = TrainRounds + EsRounds + ThRounds
  <2>1. i * WindowLength > 0
    BY BoundsAssumption, NthWindowIs
  <2>. QED
    BY <2>1, NthWindowIs, Lengths DEF CollectRounds
<1>2. /\ tr[i] = With(k, 0, TrainRounds, TRUE, a, i)
      /\ es[i] = With(k, TrainRounds, TrainRounds + EsRounds, FALSE, b, i)
      /\ th[i] = With(k, TrainRounds + EsRounds, CollectRounds, FALSE, c, i)
  <2>1. \A lo, hi, clean :
          UpTo(k, lo, hi, clean)[i] = With(k, lo, hi, clean, UpTo(k, lo, hi, clean)[i - 1], i)
    BY UpToFollows DEF Follows
  <2>. QED
    BY <2>1, Zenon
<1>3. /\ SegmentsTo(k, i) = [train |-> tr[i], es |-> es[i], th |-> th[i]]
      /\ SegmentsTo(k, i - 1) = [train |-> a, es |-> b, th |-> c]
  BY DEF SegmentsTo
<1>. HIDE DEF w, tr, es, th, a, b, c, dirty
<1>4. /\ tr[i] = IF s = "train" /\ ~dirty THEN Append(a, w) ELSE a
      /\ es[i] = IF s = "es" THEN Append(b, w) ELSE b
      /\ th[i] = IF s = "th" THEN Append(c, w) ELSE c
      /\ s \in {"train", "es", "th", "none"}
  <2>1. /\ Belongs(k, 0, TrainRounds, TRUE, w) <=> (s = "train" /\ ~dirty)
        /\ Belongs(k, TrainRounds, TrainRounds + EsRounds, FALSE, w) <=> s = "es"
        /\ Belongs(k, TrainRounds + EsRounds, CollectRounds, FALSE, w) <=> s = "th"
        /\ s \in {"train", "es", "th", "none"}
    BY <1>1 DEF Belongs, SegmentOf, dirty
  <2>. HIDE DEF s
  <2>. QED
    BY <1>2, <2>1 DEF With, w
<1>. HIDE DEF s
<1>5. d.segs = [train |-> a, es |-> b, th |-> c]
  BY <1>3
<1>6. Routed(k, d, w).segs =
        [train |-> IF s = "train" /\ ~dirty THEN Append(a, w) ELSE a,
         es |-> IF s = "es" THEN Append(b, w) ELSE b,
         th |-> IF s = "th" THEN Append(c, w) ELSE c]
  <2>1. /\ [d EXCEPT !.excluded = @ + 1].segs = d.segs
        /\ [d EXCEPT !.segs.train = Append(@, w)].segs = [d.segs EXCEPT !.train = Append(@, w)]
        /\ [d EXCEPT !.segs.es = Append(@, w)].segs = [d.segs EXCEPT !.es = Append(@, w)]
        /\ [d EXCEPT !.segs.th = Append(@, w)].segs = [d.segs EXCEPT !.th = Append(@, w)]
    BY DEF DeviceType
  <2>2. /\ [d.segs EXCEPT !.train = Append(@, w)] = [train |-> Append(a, w), es |-> b, th |-> c]
        /\ [d.segs EXCEPT !.es = Append(@, w)] = [train |-> a, es |-> Append(b, w), th |-> c]
        /\ [d.segs EXCEPT !.th = Append(@, w)] = [train |-> a, es |-> b, th |-> Append(c, w)]
    <3>1. /\ [d.segs EXCEPT !.train = Append(@, w)] = [d.segs EXCEPT !.train = Append(a, w)]
          /\ [d.segs EXCEPT !.es = Append(@, w)] = [d.segs EXCEPT !.es = Append(b, w)]
          /\ [d.segs EXCEPT !.th = Append(@, w)] = [d.segs EXCEPT !.th = Append(c, w)]
      <4>1. d.segs.train = a /\ d.segs.es = b /\ d.segs.th = c
        BY <1>5
      <4>. QED
        BY <4>1, Zenon
    <3>2. \A x : /\ [d.segs EXCEPT !.train = x] = [train |-> x, es |-> b, th |-> c]
                 /\ [d.segs EXCEPT !.es = x] = [train |-> a, es |-> x, th |-> c]
                 /\ [d.segs EXCEPT !.th = x] = [train |-> a, es |-> b, th |-> x]
      BY <1>5
    <3>. QED
      BY <3>1, <3>2, Zenon
  <2>3. CASE s = "train" /\ dirty
    BY <1>5, <2>1, <2>3 DEF Routed, s, dirty
  <2>4. CASE s = "train" /\ ~dirty
    BY <1>5, <2>1, <2>2, <2>4 DEF Routed, s, dirty
  <2>5. CASE s = "es"
    BY <1>5, <2>1, <2>2, <2>5 DEF Routed, s, dirty
  <2>6. CASE s = "th"
    BY <1>5, <2>1, <2>2, <2>6 DEF Routed, s, dirty
  <2>7. CASE s = "none"
    BY <1>5, <2>7 DEF Routed, s, dirty
  <2>. QED
    BY <1>4, <2>3, <2>4, <2>5, <2>6, <2>7
<1>. QED
  BY <1>3, <1>4, <1>6 DEF w

\* A round collected either fills up the window or waits in it.
LEMMA CollectedData ==
  ASSUME NEW k \in Keys, NEW d \in DeviceType, d.count < NRounds,
         NEW i \in 0..FullInput, Gathered(k, d, i)
  PROVE  \E n \in 0..FullInput : Gathered(k, Collected(k, Counted(d)), n)
<1>. DEFINE c == Counted(d)
            w == Append(c.win, c.count)
            b == i * WindowLength
            m == d.count - b
            e == Collected(k, c)
<1>1. /\ NRounds \in Nat /\ WindowLength \in Nat \ {0} /\ FullInput \in Nat /\ i \in Nat
      /\ d.count \in Nat /\ b \in Nat /\ b <= d.count /\ m < WindowLength /\ m \in Nat
      /\ d.win = [j \in 1..m |-> b + j] /\ d.segs = SegmentsTo(k, i)
  <2>1. NRounds \in Nat /\ WindowLength \in Nat \ {0} /\ FullInput \in Nat /\ i \in Nat /\ d.count \in Nat
    BY BoundsAssumption, NthWindowIs DEF DeviceType
  <2>2. b \in Nat
    BY <2>1
  <2>. QED
    BY <2>1, <2>2 DEF Gathered
<1>. HIDE DEF m, b
<1>2. c \in DeviceType /\ c.count = d.count + 1 /\ c.win = d.win /\ c.segs = d.segs
  BY <1>1, CountedType DEF Counted, DeviceType
<1>. HIDE DEF c
<1>3. d.count + 1 = b + (m + 1) /\ m + 1 \in Nat
  BY <1>1 DEF m
<1>4. w = [j \in 1..(m + 1) |-> b + j] /\ Len(w) = m + 1 /\ w \in Window
  <2>. DEFINE v == [j \in 1..m |-> b + j]
  <2>1. v \in [1..m -> Nat]
    BY <1>1
  <2>. HIDE DEF v
  <2>2. v \in Seq(Nat) /\ Len(v) = m
    BY <1>1, <2>1, FunctionIsSeq
  <2>3. w = Append(v, b + (m + 1)) /\ b + (m + 1) \in Nat
    BY <1>1, <1>2, <1>3 DEF v
  <2>4. /\ w \in Seq(Nat) /\ Len(w) = m + 1 /\ w[m + 1] = b + (m + 1)
        /\ \A j \in 1..m : w[j] = v[j]
    BY <2>2, <2>3, AppendProperties
  <2>. HIDE DEF w
  <2>5. w = [j \in 1..(m + 1) |-> w[j]]
    <3>1. w \in [1..Len(w) -> Nat]
      BY <2>4, LenProperties
    <3>. QED
      BY <2>4, <3>1
  <2>6. \A j \in 1..(m + 1) : w[j] = b + j
    <3>1. \A j \in 1..m : w[j] = b + j
      BY <2>4 DEF v
    <3>2. \A j \in 1..(m + 1) : j \in 1..m \/ j = m + 1
      BY <1>1
    <3>. QED
      BY <2>4, <3>1, <3>2
  <2>7. w = [j \in 1..(m + 1) |-> b + j]
    BY <2>5, <2>6
  <2>8. w \in Window
    <3>1. c.win \in Seq(1..NRounds)
      BY <1>2 DEF DeviceType, Window
    <3>2. c.count \in 1..NRounds
      BY <1>1, <1>2
    <3>. QED
      BY <3>1, <3>2, AppendProperties DEF Window, w
  <2>. QED
    BY <2>4, <2>7, <2>8
<1>. HIDE DEF w
<1>5. \A q \in DeviceType : \A v : /\ [q EXCEPT !.win = v].win = v
                                   /\ [q EXCEPT !.win = v].count = q.count
                                   /\ [q EXCEPT !.win = v].segs = q.segs
  BY DEF DeviceType
<1>6. CASE m + 1 < WindowLength
  <2>1. e = [c EXCEPT !.win = w]
    BY <1>4, <1>6 DEF Collected, w
  <2>2. e.win = w /\ e.count = b + (m + 1) /\ e.segs = SegmentsTo(k, i)
    <3>. HIDE DEF e
    <3>. QED
      BY <1>1, <1>2, <1>3, <1>5, <2>1
  <2>. HIDE DEF e
  <2>3. /\ b <= e.count /\ e.count - b = m + 1 /\ e.count - b < WindowLength
    BY <1>1, <1>3, <1>6, <2>2
  <2>4. e.win = [j \in 1..(e.count - b) |-> b + j]
    BY <1>4, <2>2, <2>3
  <2>5. Gathered(k, e, i)
    BY <2>2, <2>3, <2>4 DEF Gathered, b
  <2>. QED
    BY <2>5 DEF e, c
<1>7. CASE ~(m + 1 < WindowLength)
  <2>0. m + 1 = WindowLength
    BY <1>1, <1>7
  <2>1. (i + 1) * WindowLength = b + WindowLength /\ (i + 1) - 1 = i
    BY <1>1 DEF b
  <2>2. c.count = (i + 1) * WindowLength /\ c.count <= NRounds
    <3>1. c.count = b + WindowLength /\ c.count <= NRounds
      BY <1>1, <1>2, <1>3, <2>0
    <3>. QED
      BY <2>1, <3>1, Zenon
  <2>3. i + 1 \in 1..FullInput
    <3>1. (i + 1) * WindowLength <= NRounds
      BY <2>2
    <3>2. i + 1 \in Nat
      BY <1>1
    <3>3. i + 1 <= NRounds \div WindowLength
      BY <1>1, <3>1, <3>2, WindowFits, Zenon
    <3>. QED
      BY <1>1, <3>3 DEF FullInput
  <2>4. w = NthWindow(i + 1)
    BY <1>4, <2>0, <2>1 DEF NthWindow, b
  <2>. DEFINE q == Routed(k, c, w)
  <2>5. q \in DeviceType /\ q.segs = SegmentsTo(k, i + 1)
    BY <1>1, <1>2, <1>4, <2>1, <2>2, <2>3, <2>4, RoutedType, RoutedData
  <2>6. q.count = c.count
    <3>. HIDE DEF w
    <3>1. SegmentOf(c.count) \in {"train", "es", "th", "none"}
      BY <1>2, Lengths DEF SegmentOf, DeviceType, CollectRounds
    <3>. QED
      BY <1>2, <3>1 DEF Routed, DeviceType
  <2>7. e = [q EXCEPT !.win = <<>>]
    BY <1>4, <1>7 DEF Collected, w
  <2>. HIDE DEF q, e
  <2>8. e.win = <<>> /\ e.count = (i + 1) * WindowLength /\ e.segs = SegmentsTo(k, i + 1)
    BY <1>5, <2>2, <2>5, <2>6, <2>7
  <2>. DEFINE t == (i + 1) * WindowLength
  <2>9. t \in Nat /\ t <= e.count /\ e.count - t < WindowLength /\ e.count - t = 0
    BY <1>1, <2>1, <2>8
  <2>. HIDE DEF t
  <2>10. e.win = [j \in 1..(e.count - t) |-> t + j]
    <3>1. <<>> = [j \in 1..0 |-> t + j]
      OBVIOUS
    <3>. QED
      BY <2>8, <2>9, <3>1
  <2>11. Gathered(k, e, i + 1)
    BY <2>3, <2>8, <2>9, <2>10 DEF Gathered, t
  <2>. QED
    BY <2>3, <2>11 DEF e, c
<1>. QED
  BY <1>6, <1>7

\* With the last segment full and no window open, the segments are the
\* reference ones.
LEMMA FullSegments ==
  ASSUME NEW k \in Keys, NEW d \in DeviceType, NEW i \in 0..FullInput, Gathered(k, d, i),
         d.win = <<>>, d.count >= CollectRounds
  PROVE  d.segs = ReferenceSegments(k)
<1>. DEFINE b == i * WindowLength
            m == d.count - b
<1>1. /\ TrainRounds \in Nat /\ EsRounds \in Nat /\ ThRounds \in Nat
      /\ CollectRounds = TrainRounds + EsRounds + ThRounds
  BY Lengths DEF CollectRounds
<1>2. /\ b \in Nat /\ b <= d.count /\ d.count \in Nat /\ m \in Nat
      /\ d.win = [j \in 1..m |-> b + j] /\ d.segs = SegmentsTo(k, i)
  <2>1. b \in Nat /\ d.count \in Nat
    BY BoundsAssumption, NthWindowIs DEF DeviceType
  <2>. QED
    BY <2>1 DEF Gathered
<1>. HIDE DEF m
<1>3. m = 0
  <2>1. 1..m = 1..0
    <3>1. DOMAIN [j \in 1..m |-> b + j] = 1..m
      OBVIOUS
    <3>2. DOMAIN <<>> = 1..0
      OBVIOUS
    <3>. QED
      BY <1>2, <3>1, <3>2
  <2>. QED
    BY <1>2, <2>1, IntervalLength
<1>4. b >= CollectRounds
  BY <1>2, <1>3 DEF m
<1>5. /\ InputWindows(k, 0, TrainRounds, TRUE) = UpTo(k, 0, TrainRounds, TRUE)[i]
      /\ InputWindows(k, TrainRounds, TrainRounds + EsRounds, FALSE)
           = UpTo(k, TrainRounds, TrainRounds + EsRounds, FALSE)[i]
      /\ InputWindows(k, TrainRounds + EsRounds, CollectRounds, FALSE)
           = UpTo(k, TrainRounds + EsRounds, CollectRounds, FALSE)[i]
  <2>1. /\ b >= TrainRounds /\ b >= TrainRounds + EsRounds
        /\ 0 \in Nat /\ TrainRounds + EsRounds \in Nat /\ CollectRounds \in Nat
    BY <1>1, <1>2, <1>4
  <2>2. ASSUME NEW lo \in Nat, NEW hi \in Nat, NEW clean, b >= hi
        PROVE  InputWindows(k, lo, hi, clean) = UpTo(k, lo, hi, clean)[i]
    BY <2>2, SegmentEnds
  <2>. HIDE DEF b
  <2>3. InputWindows(k, 0, TrainRounds, TRUE) = UpTo(k, 0, TrainRounds, TRUE)[i]
    BY <1>1, <2>1, <2>2
  <2>4. InputWindows(k, TrainRounds, TrainRounds + EsRounds, FALSE)
          = UpTo(k, TrainRounds, TrainRounds + EsRounds, FALSE)[i]
    BY <1>1, <2>1, <2>2
  <2>5. InputWindows(k, TrainRounds + EsRounds, CollectRounds, FALSE)
          = UpTo(k, TrainRounds + EsRounds, CollectRounds, FALSE)[i]
    BY <1>4, <2>1, <2>2
  <2>. QED
    BY <2>3, <2>4, <2>5
<1>. QED
  BY <1>2, <1>5 DEF ReferenceSegments, SegmentsTo

\* A device that trains has the reference segments, one that is online a model
\* of them, one that collects the windows so far.
LEMMA PhaseData ==
  ASSUME NEW k, NEW d
  PROVE  /\ d.phase = Training /\ d.segs = ReferenceSegments(k) => DataOK(k, d)
         /\ d.phase = Online /\ d.model = {ReferenceSegments(k)} => DataOK(k, d)
         /\ \A i \in 0..FullInput : d.phase = Collecting /\ Gathered(k, d, i) => DataOK(k, d)
<1>1. Training # Collecting /\ Online # Collecting /\ Training # Online
  BY DEF Collecting, Training, Online
<1>. QED
  BY <1>1, Zenon DEF DataOK

\* Polling keeps the data of a training until its model is there.
LEMMA PolledData ==
  ASSUME NEW k \in Keys, NEW d \in DeviceType, d.phase = Training, slot[k] \in TaskType,
         SlotOK(d, slot[k]), d.segs = ReferenceSegments(k)
  PROVE  DataOK(k, Polled(k, d))
<1>. DEFINE r == PollResult(k, d)
            ref == ReferenceSegments(k)
<1>1. /\ r \in {"resubmit", "idle", "pending", "retry", "giveUp", "apply"}
      /\ r = "apply" => slot[k].status = "done"
  BY PollCases
<1>. HIDE DEF ref
<1>2. ASSUME NEW x, NEW y
      PROVE  /\ [d EXCEPT !.phase = Training, !.taskId = y].segs = d.segs
             /\ [d EXCEPT !.phase = Training, !.taskId = y].phase = Training
             /\ [d EXCEPT !.failures = x].segs = d.segs
             /\ [d EXCEPT !.failures = x].phase = Training
             /\ [[d EXCEPT !.failures = x] EXCEPT !.phase = Training, !.taskId = y].segs = d.segs
             /\ [[d EXCEPT !.failures = x] EXCEPT !.phase = Training, !.taskId = y].phase = Training
             /\ [d EXCEPT !.model = x, !.segs = y, !.phase = Online].model = x
             /\ [d EXCEPT !.model = x, !.segs = y, !.phase = Online].phase = Online
  BY DEF DeviceType
<1>3. \A e : e.phase = Training /\ e.segs = ref => DataOK(k, e)
  BY PhaseData, Zenon DEF ref
<1>4. DataOK(k, Submitted(d))
  <2>1. Submitted(d).segs = d.segs /\ Submitted(d).phase = Training
    BY <1>2 DEF Submitted
  <2>. QED
    BY <1>3, <2>1 DEF ref
<1>5. DataOK(k, Failed(d)) /\ DataOK(k, Submitted(Failed(d)))
  <2>1. Failed(d).segs = d.segs /\ Failed(d).phase = Training
    BY <1>2 DEF Failed
  <2>2. Submitted(Failed(d)).segs = d.segs /\ Submitted(Failed(d)).phase = Training
    BY <1>2 DEF Failed, Submitted
  <2>. QED
    BY <1>3, <2>1, <2>2 DEF ref
<1>6. ASSUME r = "apply"
      PROVE  DataOK(k, Applied(d, slot[k]))
  <2>1. slot[k].data = ref
    BY <1>1, <1>6 DEF SlotOK, ref
  <2>2. Applied(d, slot[k]).model = {ref} /\ Applied(d, slot[k]).phase = Online
    BY <1>2, <2>1 DEF Applied
  <2>. QED
    BY <2>2, PhaseData, Zenon DEF ref
<1>7. DataOK(k, d)
  BY <1>3 DEF ref
<1>. HIDE DEF r
<1>. QED
  BY <1>1, <1>4, <1>5, <1>6, <1>7 DEF Polled, r

\* The data belong to the phase, the segments and the model.
LEMMA SameData ==
  ASSUME NEW k \in Keys, NEW d, NEW e, DataOK(k, d), d.phase # Collecting,
         e.phase = d.phase, e.segs = d.segs, e.model = d.model
  PROVE  DataOK(k, e)
BY DEF DataOK

\* A handler of one device keeps the data if it keeps them for that device.
LEMMA HandlerKeepsData ==
  ASSUME IInv, DataInv, NEW k \in Keys, NEW d, DataOK(k, d),
         dev' = [dev EXCEPT ![k] = d], ckpt' = ckpt
  PROVE  DataInv'
<1>1. dev \in [Keys -> DeviceType]
  BY Unfolded
<1>2. \A j \in Keys : dev'[j] = IF j = k THEN d ELSE dev[j]
  BY <1>1
<1>3. \A j \in Keys : DataOK(j, dev'[j])
  BY <1>2 DEF DataInv
<1>4. \A j \in Keys : DataOK(j, ckpt'.dev[j])
  BY DEF DataInv
<1>. QED
  BY <1>3, <1>4 DEF DataInv

\* A device that has seen no round has gathered nothing.
LEMMA InitialData ==
  ASSUME NEW k \in Keys
  PROVE  DataOK(k, InitDevice)
<1>1. /\ InitDevice.phase = Collecting /\ InitDevice.count = 0 /\ InitDevice.win = <<>>
      /\ InitDevice.segs = [train |-> <<>>, es |-> <<>>, th |-> <<>>]
  BY DEF InitDevice, EmptySegments
<1>2. FullInput \in Nat /\ 0 \in 0..FullInput /\ WindowLength \in Nat \ {0} /\ 0 * WindowLength = 0
  BY NthWindowIs, BoundsAssumption
<1>3. SegmentsTo(k, 0) = [train |-> <<>>, es |-> <<>>, th |-> <<>>]
  BY UpToFollows DEF SegmentsTo, Follows
<1>4. <<>> = [j \in 1..(0 - 0 * WindowLength) |-> 0 * WindowLength + j]
  BY <1>2
<1>5. Gathered(k, InitDevice, 0)
  BY <1>1, <1>2, <1>3, <1>4 DEF Gathered
<1>. QED
  BY <1>1, <1>2, <1>5, PhaseData, Zenon

\* A round collected, also the one that submits the training.
LEMMA CollectRoundData ==
  ASSUME IInv, DataInv, NEW k \in Keys, CollectRound(k)
  PROVE  DataInv'
<1>. DEFINE c == Counted(dev[k])
            d == Collected(k, c)
            submits == d.win = <<>> /\ d.count >= CollectRounds
            s == Submitted(d)
            e == IF submits THEN [s EXCEPT !.timers = @ + 1] ELSE d
<1>1. /\ dev[k].phase = Collecting /\ dev[k].count < NRounds /\ dev[k] \in DeviceType
      /\ dev[k].count \in Nat
  BY Unfolded DEF CollectRound, Arrives
<1>2. PICK i \in 0..FullInput : Gathered(k, dev[k], i)
  BY <1>1 DEF DataInv, DataOK
<1>3. PICK n \in 0..FullInput : Gathered(k, d, n)
  <2>1. \E n \in 0..FullInput : Gathered(k, Collected(k, Counted(dev[k])), n)
    BY <1>1, <1>2, CollectedData, Zenon
  <2>. QED
    BY <2>1, Zenon
<1>4. /\ c \in DeviceType /\ c.count > 0 /\ c.phase = Collecting
  <2>1. c \in DeviceType /\ c.count > 0
    BY <1>1, CountedType
  <2>2. c.phase = dev[k].phase
    BY <1>1 DEF Counted, DeviceType
  <2>. QED
    BY <1>1, <2>1, <2>2
<1>5. d \in DeviceType /\ d.phase = Collecting
  BY <1>4, CollectedType, CollectedSame DEF SameDevice
<1>6. dev' = [dev EXCEPT ![k] = e] /\ ckpt' = ckpt
  BY DEF CollectRound, Arrives
<1>. HIDE DEF c, d
<1>7. DataOK(k, e)
  <2>1. CASE ~submits
    <3>1. e = d
      BY <2>1
    <3>. QED
      BY <1>3, <1>5, <3>1, PhaseData, Zenon
  <2>2. CASE submits
    <3>1. d.segs = ReferenceSegments(k)
      BY <1>3, <1>5, <2>2, FullSegments
    <3>2. s \in DeviceType /\ s.phase = Training /\ s.segs = d.segs
      BY <1>5, SubmittedType DEF Submitted, DeviceType
    <3>3. e = [s EXCEPT !.timers = @ + 1]
      BY <2>2
    <3>. HIDE DEF s, e
    <3>4. e.phase = Training /\ e.segs = d.segs
      BY <3>2, <3>3 DEF DeviceType
    <3>. QED
      BY <3>1, <3>4, PhaseData, Zenon
  <2>. QED
    BY <2>1, <2>2
<1>. HIDE DEF e
<1>. QED
  BY <1>6, <1>7, HandlerKeepsData

\* A round buffered, while training or draining.
LEMMA BufferedData ==
  ASSUME IInv, DataInv, NEW k \in Keys, BufferWhileTraining(k) \/ BufferWhileDraining(k)
  PROVE  DataInv'
<1>. DEFINE d == Buffered(Counted(dev[k]), Round(k, dev[k].count + 1))
<1>1. /\ dev[k].count < NRounds /\ dev[k].phase \in {Training, Online}
      /\ dev[k] \in DeviceType /\ BufferOK(k, dev[k])
      /\ slot \in [Keys -> TaskType] /\ SlotOK(dev[k], slot[k])
  BY Unfolded DEF BufferWhileTraining, BufferWhileDraining, Arrives
<1>2. /\ d \in DeviceType /\ d.phase = dev[k].phase /\ d.model = dev[k].model
      /\ d.taskId = dev[k].taskId /\ d.segs = dev[k].segs /\ d.failures = dev[k].failures
  BY <1>1, BufferedOK
<1>3. /\ BufferWhileTraining(k) => dev[k].phase = Training /\ dev' = [dev EXCEPT ![k] = Polled(k, d)]
      /\ BufferWhileDraining(k) => dev' = [dev EXCEPT ![k] = d]
      /\ ckpt' = ckpt
  BY DEF BufferWhileTraining, BufferWhileDraining, Arrives
<1>. HIDE DEF d
<1>4. DataOK(k, dev[k])
  BY DEF DataInv
<1>5. DataOK(k, d)
  BY <1>1, <1>2, <1>4, SameData DEF Collecting, Training, Online
<1>6. CASE BufferWhileTraining(k)
  <2>1. d.phase = Training /\ d.segs = ReferenceSegments(k) /\ SlotOK(d, slot[k])
    BY <1>1, <1>2, <1>3, <1>4, <1>6 DEF DataOK, SlotOK
  <2>2. DataOK(k, Polled(k, d))
    BY <1>1, <1>2, <2>1, PolledData
  <2>. QED
    BY <1>3, <1>6, <2>2, HandlerKeepsData
<1>7. CASE BufferWhileDraining(k)
  BY <1>3, <1>5, <1>7, HandlerKeepsData
<1>. QED
  BY <1>6, <1>7

\* A round scored at once.
LEMMA ScoreDirectlyData ==
  ASSUME IInv, DataInv, NEW k \in Keys, ScoreDirectly(k)
  PROVE  DataInv'
<1>. DEFINE r == Round(k, dev[k].count + 1)
            c == Counted(dev[k])
            e == ScoreOnline(c, <<r>>)
<1>1. dev[k].phase = Online /\ dev[k].count < NRounds /\ dev[k] \in DeviceType
  BY Unfolded DEF ScoreDirectly, Arrives
<1>2. <<r>> \in Seq(RoundSet)
  BY <1>1, NextRoundAbove
<1>3. c \in DeviceType /\ c.phase = Online /\ c.model = dev[k].model /\ c.segs = dev[k].segs
  BY <1>1, CountedType DEF Counted, DeviceType
<1>4. dev' = [dev EXCEPT ![k] = e] /\ ckpt' = ckpt
  BY DEF ScoreDirectly, Arrives
<1>. HIDE DEF r, c
<1>5. e.phase = c.phase /\ e.model = c.model /\ e.segs = c.segs
  BY <1>2, <1>3, ScoredSame DEF SameDevice
<1>6. DataOK(k, dev[k])
  BY DEF DataInv
<1>. HIDE DEF e
<1>7. DataOK(k, e)
  BY <1>1, <1>3, <1>5, <1>6, SameData DEF Collecting, Online
<1>. QED
  BY <1>4, <1>7, HandlerKeepsData

\* A timer that polls and drains.
LEMMA OnTimerData ==
  ASSUME IInv, DataInv, NEW k \in Keys, OnTimer(k)
  PROVE  DataInv'
<1>. DEFINE c == Fired(k)
            d == AfterTimerPoll(k)
            e == IF Draining(d) THEN Drained(d) ELSE d
            f == Rearmed(e)
<1>1. /\ d \in DeviceType /\ BufferOK(k, d) /\ d.phase \in {Training, Online}
  BY TimerPollOK
<1>2. /\ c \in DeviceType /\ c.phase = dev[k].phase /\ c.phase \in {Training, Online}
      /\ SlotOK(c, slot[k])
  BY FiredOK DEF OnTimer
<1>3. slot[k] \in TaskType /\ dev[k] \in DeviceType /\ dev \in [Keys -> DeviceType]
  BY Unfolded
<1>4. c.segs = dev[k].segs /\ c.model = dev[k].model
  BY <1>3 DEF Fired, DeviceType
<1>5. DataOK(k, dev[k])
  BY DEF DataInv
<1>6. dev' = [dev EXCEPT ![k] = f] /\ ckpt' = ckpt
  BY DEF OnTimer
<1>. HIDE DEF c
<1>7. DataOK(k, c)
  BY <1>2, <1>4, <1>5, SameData DEF Collecting, Training, Online
<1>8. DataOK(k, d)
  <2>1. CASE TimerPolls(k)
    <3>1. c.phase = Training /\ c.segs = ReferenceSegments(k)
      BY <1>2, <1>7, <2>1 DEF TimerPolls, DataOK
    <3>2. DataOK(k, Polled(k, c))
      BY <1>2, <1>3, <3>1, PolledData
    <3>. QED
      BY <2>1, <3>2 DEF AfterTimerPoll, c
  <2>2. CASE ~TimerPolls(k)
    BY <1>7, <2>2 DEF AfterTimerPoll, c
  <2>. QED
    BY <2>1, <2>2
<1>. HIDE DEF d
<1>9. e \in DeviceType /\ e.phase = d.phase /\ e.segs = d.segs /\ e.model = d.model
  BY <1>1, DrainedOK
<1>. HIDE DEF e
<1>10. f.phase = e.phase /\ f.segs = e.segs /\ f.model = e.model
  BY <1>9 DEF Rearmed, DeviceType
<1>. HIDE DEF f
<1>11. DataOK(k, f)
  BY <1>1, <1>8, <1>9, <1>10, SameData DEF Collecting, Training, Online
<1>. QED
  BY <1>6, <1>11, HandlerKeepsData

\* Every step keeps the data, a checkpoint and a restart included.
THEOREM DataStep == IInv /\ DataInv /\ [Next]_vars => DataInv'
<1>. SUFFICES ASSUME IInv, DataInv, [Next]_vars PROVE DataInv'
  OBVIOUS
<1>1. CASE UNCHANGED <<dev, ckpt>>
  BY <1>1 DEF DataInv
<1>2. ASSUME NEW k \in Keys, ProcessElement(k) PROVE DataInv'
  BY <1>2, CollectRoundData, BufferedData, ScoreDirectlyData DEF ProcessElement
<1>3. ASSUME NEW k \in Keys, OnTimer(k) PROVE DataInv'
  BY <1>3, OnTimerData
<1>4. ASSUME NEW w \in Timestamps, ProcessWatermark(w) PROVE DataInv'
  BY <1>1, <1>4 DEF ProcessWatermark
<1>5. ASSUME NEW k \in Keys, NEW result \in {"done", "failed"},
             TrainStart(k) \/ TrainEnd(k, result)
      PROVE  DataInv'
  BY <1>1, <1>5 DEF TrainStart, TrainEnd
<1>6. CASE Checkpoint
  <2>1. dev' = dev /\ ckpt' = [dev |-> dev, log |-> log]
    BY <1>6 DEF Checkpoint
  <2>. QED
    BY <2>1 DEF DataInv
<1>7. CASE CrashAndRestore
  <2>1. dev' = ckpt.dev /\ ckpt' = ckpt
    BY <1>7 DEF CrashAndRestore
  <2>. QED
    BY <2>1 DEF DataInv
<1>8. CASE UNCHANGED vars
  BY <1>1, <1>8 DEF vars
<1>. QED
  BY <1>2, <1>3, <1>4, <1>5, <1>6, <1>7, <1>8 DEF Next

\* Every training run of a device, the first, a retry or one resubmitted after a
\* restart, gets the windows of the reference, and the model in state was trained
\* on them: no retry, restart or interleaving changes what a device is scored with.
THEOREM TrainingsUseReferenceData == Spec => []TrainsOnReferenceData
<1>1. Init => DataInv
  BY InitialData DEF Init, DataInv
<1>2. IInv /\ DataInv /\ [Next]_vars => DataInv'
  BY DataStep
<1>3. IInv /\ DataInv => TrainsOnReferenceData
  <2>. SUFFICES ASSUME IInv, DataInv, NEW k \in Keys
                PROVE  /\ slot[k].status # "none" => slot[k].data = ReferenceSegments(k)
                       /\ dev[k].phase = Online <=> dev[k].model = {ReferenceSegments(k)}
    BY DEF TrainsOnReferenceData
  <2>1. DataOK(k, dev[k]) /\ SlotOK(dev[k], slot[k]) /\ PhaseOK(dev[k])
    BY Unfolded DEF DataInv
  <2>. QED
    BY <2>1 DEF DataOK, SlotOK, PhaseOK, NoModel
<1>. QED
  BY <1>1, <1>2, <1>3, Invariance, PTL DEF Spec

================================================================================
