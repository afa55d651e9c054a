-------------------------------- MODULE DayLayer --------------------------------
(***************************************************************************)
(* One channel of one device from the injector to the day records of the   *)
(* data drift module, against the offline extraction of the same days.     *)
(*                                                                         *)
(* Online: Injector, RepeatRunGuard, RobustScalerFunction (freeze) and     *)
(* M5aCore, round by round, with the day-end timer of M5aFunction.         *)
(* Offline: eda/m5a_extract.py over the whole trace at once.               *)
(*                                                                         *)
(* Time is counted in rounds of the nominal period.  A reading is a        *)
(* natural number, or Absent when the round lacks the channel.  A distance *)
(* between two samples of n and m readings is kept as its numerator over   *)
(* n * m; the significance of the test as a bound on its square.           *)
(***************************************************************************)
EXTENDS Integers, Sequences, FiniteSets, SequencesExt

CONSTANTS
  Readings,               \* what the sensor reads
  DayLengths,             \* rounds expected in each local day
  BinLength,              \* rounds in ten minutes
  CalibRounds, RefBins,   \* rounds before the freeze; quantiles of the reference
  D0, LambdaSq,           \* effect threshold and critical value, as fractions
  GuardRun, Floors,       \* run of equal readings that is stuck, unless on a floor
  RunGap, ColdGap,        \* gaps that end a run, and that make a cold start
  QualityMax,             \* share of a day that may be missing, or stuck
  TimerLag,               \* rounds by which a timer may come late
  NewSample,              \* the reference a re-estimation puts in
  Plans                   \* what may happen to a trace

ASSUME DayLayerAssumption ==
  /\ Readings \subseteq Nat /\ Floors \subseteq Nat
  /\ DayLengths \in Seq(Nat \ {0}) /\ BinLength \in Nat \ {0}
  /\ CalibRounds \in Nat \ {0} /\ RefBins \in Nat \ {0} /\ GuardRun \in Nat \ {0}
  /\ \A q \in {D0, LambdaSq, QualityMax} : q[1] \in Nat /\ q[2] \in Nat \ {0}
  /\ RunGap \in Nat /\ ColdGap \in Nat /\ TimerLag \in Nat
  /\ NewSample \in Seq(Nat) /\ NewSample # <<>>

VARIABLES slot, plan, raw,                  \* the source: time, what may still happen, readings
          held, run, scaler,                \* Injector, RepeatRunGuard, RobustScalerFunction
          core, dayTimers,                  \* M5aCore and the timers of M5aFunction
          records, changes, replaced        \* what came out; when the reference was replaced

online == <<held, run, scaler, core, dayTimers, records, changes, replaced>>
dayVars == <<slot, plan, raw, online>>

Absent == -1
NoReference == [edges |-> {Absent}, sample |-> <<>>]
NoDay == 0
LocalDays == 1..Len(DayLengths)
FirstDay == 1           \* the day of the freeze: FIRST_DAY

DayEnd[d \in 0..Len(DayLengths)] == IF d = 0 THEN 0 ELSE DayEnd[d - 1] + DayLengths[d]
LocalDay(ts) == CHOOSE d \in LocalDays : DayEnd[d - 1] <= ts /\ ts < DayEnd[d]
BinEnd(ts) == (ts \div BinLength + 1) * BinLength

\* q[1] / q[2] of a whole is exceeded by a part.
Exceeds(part, whole, q) == part * q[2] > q[1] * whole

--------------------------------------------------------------------------------
(* Samples *)

Sorted(sample) == SortSeq(sample, <)
AtMost(sample, v) == Cardinality({i \in DOMAIN sample : sample[i] <= v})
Under(sample, v) == Cardinality({i \in DOMAIN sample : sample[i] < v})
Distance(a, b) == IF a < b THEN b - a ELSE a - b
Largest(S) == CHOOSE x \in S : \A y \in S : y <= x

\* The quantiles of a reference, and the cells they cut: below the first, up to
\* each of them from the one before, and above the last.
RefEdges(sample) ==
  LET s == Sorted(sample)
  IN  {s[(j * (Len(s) - 1)) \div RefBins + 1] : j \in 0..RefBins}

CellsBetween(e, sample) ==
  <<Under(sample, e[1]), AtMost(sample, e[1]) - Under(sample, e[1])>>
  \o [i \in 1..(Len(e) - 1) |-> AtMost(sample, e[i + 1]) - AtMost(sample, e[i])]
  \o <<Len(sample) - AtMost(sample, e[Len(e)])>>
Cells(edges, sample) == CellsBetween(SetToSortSeq(edges, <), sample)

Cumulated(cells) == [i \in DOMAIN cells |-> FoldLeft(LAMBDA a, b : a + b, 0, SubSeq(cells, 1, i))]

\* D over the cells, times n * m, and D over every value.
Farthest(x, r, n, m) == Largest({Distance(x[i] * m, r[i] * n) : i \in DOMAIN x})
BinDistance(cx, cr, n, m) == Farthest(Cumulated(cx), Cumulated(cr), n, m)

KsExact(a, b) ==
  Largest({Distance(AtMost(a, v) * Len(b), AtMost(b, v) * Len(a)) : v \in ToSet(a) \cup ToSet(b)})

\* The asymptotic p-value falls with lambda squared, n * m / (n + m) * D * D.
Significant(num, n, m) == Exceeds(num * num, n * m * (n + m), LambdaSq)
Large(num, n, m) == Exceeds(num, n * m, D0)

Reference(sample) ==
  [edges |-> IF sample = <<>> THEN {} ELSE RefEdges(sample), sample |-> sample]

\* What one day's sample says against a reference.
StatsOf(num, n, m) ==
  [n |-> n, m |-> m, num |-> num, far |-> Large(num, n, m), p |-> Significant(num, n, m)]
DayStats(sample, ref) ==
  LET n == Len(sample)
      m == Len(ref.sample)
  IN  StatsOf(BinDistance(Cells(ref.edges, sample), Cells(ref.edges, ref.sample), n, m), n, m)
NoStats == [n |-> 0, m |-> 0, num |-> 0, far |-> FALSE, p |-> FALSE]

--------------------------------------------------------------------------------
(* Online *)

DayInit ==
  /\ slot = 0 /\ plan \in Plans /\ raw = <<>>
  /\ held = Absent
  /\ run = [seen |-> FALSE, last |-> 0, n |-> 0, at |-> 0, prev |-> 0]
  /\ scaler = [n |-> 0, sample |-> <<>>, sent |-> FALSE]
  /\ core = [day |-> NoDay, rounds |-> 0, guard |-> 0, sample |-> <<>>, bins |-> << >>,
             ref |-> NoReference, calib |-> NoDay, reval |-> NoDay, deviated |-> FALSE]
  /\ dayTimers = {} /\ records = {} /\ changes = {} /\ replaced = <<>>

Within(s, ts) == s.start <= ts /\ ts < s.end

\* Injector.apply: what becomes of a reading, and the value a stuck sensor is held at.
Injected(x) ==
  LET s == plan.spec
  IN  IF s.type = "none" \/ ~Within(s, slot) \/ x = Absent THEN [x |-> x, held |-> held]
      ELSE CASE s.type = "step" -> [x |-> x + s.by, held |-> held]
             [] s.type = "ramp" -> [x |-> x + s.by * (slot - s.start), held |-> held]
             [] s.type = "stuck" -> LET v == IF held = Absent THEN x ELSE held IN [x |-> v, held |-> v]

\* RawCacheFunction (cold start) and RepeatRunGuard.update.
GuardUpdate(x) ==
  LET cold == slot - run.prev > ColdGap
      goes == run.seen /\ ~cold /\ x = run.last /\ slot - run.at <= RunGap
  IN  IF x = Absent THEN [run EXCEPT !.prev = slot, !.seen = @ /\ ~cold, !.n = IF cold THEN 0 ELSE @]
      ELSE [seen |-> TRUE, last |-> x, n |-> IF goes THEN run.n + 1 ELSE 1, at |-> slot, prev |-> slot]
Stuck(r, x) == x # Absent /\ r.n >= GuardRun /\ r.last \notin Floors

\* RobustScalerFunction: the first round after the freeze carries the reference.
ScalerUpdate(x) ==
  IF scaler.n < CalibRounds
    THEN [scaler EXCEPT !.n = @ + 1, !.sample = IF x = Absent THEN @ ELSE Append(@, x)]
    ELSE [scaler EXCEPT !.sent = TRUE]
Warmup == scaler.n < CalibRounds
FirstReference ==
  IF Warmup \/ scaler.sent THEN NoReference ELSE Reference(scaler.sample)

\* M5aCore.closeDay: why the day is not judged, its statistics, its state.
Reason(c) ==
  IF c.day = c.calib THEN "calibration"
  ELSE IF c.day = c.reval THEN "reestimation"
  ELSE IF Exceeds(DayLengths[c.day] - c.rounds, DayLengths[c.day], QualityMax) THEN "missing"
  ELSE IF Exceeds(c.guard, DayLengths[c.day], QualityMax) THEN "guard" ELSE "none"

HasStats(c) == c.day # c.calib /\ c.sample # <<>> /\ c.ref.sample # <<>>
Turns(c, st, reason) ==
  HasStats(c) /\ reason = "none" /\ (IF c.deviated THEN ~st.far ELSE st.p /\ st.far)
ClosedAs(c, st, reason, turns) ==
  [core |-> [c EXCEPT !.day = NoDay, !.sample = <<>>, !.deviated = (@ # turns)],
   records |-> IF c.calib = NoDay THEN {}
               ELSE {[day |-> c.day, rounds |-> c.rounds, guard |-> c.guard, reason |-> reason,
                      st |-> st, deviated |-> c.deviated # turns]},
   changes |-> IF turns THEN {[day |-> c.day, kind |-> IF c.deviated THEN "RECOVER" ELSE "DEVIATE"]}
               ELSE {}]
Judged(c, st, reason) == ClosedAs(c, st, reason, Turns(c, st, reason))
Closed(c) == Judged(c, IF HasStats(c) THEN DayStats(c.sample, c.ref) ELSE NoStats, Reason(c))

NothingClosed(c) == [core |-> c, records |-> {}, changes |-> {}]

Opened(c, day) ==
  IF c.day # NoDay THEN c ELSE [c EXCEPT !.day = day, !.rounds = 0, !.guard = 0, !.sample = <<>>]

\* Mutant: the readings gathered before the new reference stay.
TakesKeeping(c, ref) ==
  IF ref = NoReference THEN c
  ELSE IF c.calib = NoDay THEN [c EXCEPT !.ref = ref, !.calib = c.day]
  ELSE [c EXCEPT !.ref = ref, !.deviated = FALSE, !.reval = IF c.rounds > 0 THEN c.day ELSE @]

\* A new reference takes the place of the old: no change is reported.
Takes(c, ref) ==
  IF ref = NoReference THEN c
  ELSE IF c.calib = NoDay THEN [c EXCEPT !.ref = ref, !.calib = c.day]
  ELSE [c EXCEPT !.ref = ref, !.deviated = FALSE, !.sample = <<>>,
                 !.reval = IF c.rounds > 0 THEN c.day ELSE @]

Counted(c, x, stuck, warmup) ==
  LET used == c.calib # NoDay /\ ~warmup /\ x # Absent
      b == BinEnd(slot)
  IN  [c EXCEPT !.rounds = @ + 1, !.guard = IF stuck THEN @ + 1 ELSE @,
                !.sample = IF used THEN Append(@, x) ELSE @,
                !.bins = IF ~used THEN @
                         ELSE [e \in DOMAIN @ \cup {b} |-> (IF e \in DOMAIN @ THEN @[e] ELSE 0)
                                                           + (IF e = b THEN 1 ELSE 0)]]

TimeGoesOn == slot < DayEnd[Len(DayLengths)] /\ \A t \in dayTimers : slot <= t + TimerLag

\* M5aCore.onRound behind the operators before it; a round of another day closes the open one.
CoreOnRound(i, r, day, closed, ref) ==
  /\ held' = i.held /\ run' = r /\ scaler' = ScalerUpdate(i.x)
  /\ core' = Counted(Takes(Opened(closed.core, day), ref), i.x, Stuck(r, i.x), Warmup)
  /\ dayTimers' = IF core.day = day THEN dayTimers ELSE dayTimers \cup {DayEnd[day]}
  /\ records' = records \cup closed.records
  /\ changes' = changes \cup closed.changes
CloseBefore(day) == IF core.day \in {NoDay, day} THEN NothingClosed(core) ELSE Closed(core)
RoundArrives(x, swap) ==
  /\ TimeGoesOn
  /\ x = Absent => plan.missing > 0
  /\ swap => plan.swap > 0 /\ core.calib # NoDay
  /\ slot' = slot + 1
  /\ plan' = [plan EXCEPT !.missing = IF x = Absent THEN @ - 1 ELSE @, !.swap = IF swap THEN @ - 1 ELSE @]
  /\ raw' = Append(raw, [ts |-> slot, x |-> x])
  /\ replaced' = IF swap THEN Append(replaced, slot) ELSE replaced
  /\ \E i \in {Injected(x)}, day \in {LocalDay(slot)} :
       \E r \in {GuardUpdate(i.x)}, closed \in {CloseBefore(day)} :
         CoreOnRound(i, r, day, closed, IF swap THEN Reference(NewSample) ELSE FirstReference)

\* The device sends nothing.
NoRound ==
  /\ TimeGoesOn /\ plan.gone > 0
  /\ slot' = slot + 1 /\ plan' = [plan EXCEPT !.gone = @ - 1]
  /\ UNCHANGED <<raw, online>>

Due(t) == core.day # NoDay /\ DayEnd[core.day] <= t

\* M5aFunction.onTimer: some time after the last round of the day.
DayTimer ==
  \E t \in dayTimers :
    /\ t <= slot /\ \A u \in dayTimers : t <= u
    /\ dayTimers' = dayTimers \ {t}
    /\ \E closed \in {IF Due(t) THEN Closed(core) ELSE NothingClosed(core)} :
         /\ core' = closed.core
         /\ records' = records \cup closed.records
         /\ changes' = changes \cup closed.changes
    /\ UNCHANGED <<slot, plan, raw, held, run, scaler, replaced>>

DayNext ==
  \/ NoRound
  \/ \E x \in Readings \cup {Absent}, swap \in BOOLEAN : RoundArrives(x, swap)
  \/ DayTimer
================================================================================
