----------------------------- MODULE RepeatRuns -----------------------------
(* Sensors that repeat one reading.  m1/RawCacheFunction.java marks a round   *)
(* after a long absence, m1/RepeatRunGuard.java counts how often each channel *)
(* repeats its reading and marks the rounds where that is too often; where    *)
(* too often begins, and which readings may repeat, eda/repeat_run_lengths.py *)
(* takes from the recorded files.                                             *)
EXTENDS RoundExtract

CONSTANTS
    RunGap,                    \* GAP_SEC and --gap-sec
    Excluded,                  \* --exclude: a segment <<from, until>>
    FloorShare, FloorEdge,     \* of a value among the readings, of the range: <<n, d>>
    RunMultiplier, OutlierRatio, TopRuns,
    StuckSpecs                 \* injections [ch, from, until] that hold a reading

ASSUME RepeatConstants ==
    /\ RunGap \in Nat /\ RunGap <= ColdGap /\ TopRuns \in Nat \ {0, 1}
    /\ RunMultiplier[1] > RunMultiplier[2] /\ RunMultiplier[2] > 0
    /\ RunMultiplier[1] * OutlierRatio[2] <= OutlierRatio[1] * RunMultiplier[2]

----------------------------------------------------------------------------
(* Online.  Of each channel the reading, how often it came, since when, and  *)
(* the last time; nothing of it is left after a cold start.                  *)
NoRun == [n |-> 0, last |-> NoValue, start |-> 0, at |-> 0]
NewGuard == [ts |-> NoValue, runs |-> [c \in Detection |-> NoRun], out |-> <<>>]

\* Mutant: the gap is taken from the first reading of the run.
ExtendedFromStart(run, c, round) ==
    IF c \notin DOMAIN round.x THEN run
    ELSE IF run.n > 0 /\ round.x[c] = run.last /\ round.ts - run.at <= RunGap
         THEN [run EXCEPT !.n = @ + 1]
    ELSE [n |-> 1, last |-> round.x[c], start |-> round.ts, at |-> round.ts]

Extended(run, c, round) ==
    IF c \notin DOMAIN round.x THEN run
    ELSE IF run.n > 0 /\ round.x[c] = run.last /\ round.ts - run.at <= RunGap
         THEN [run EXCEPT !.n = @ + 1, !.at = round.ts]
    ELSE [n |-> 1, last |-> round.x[c], start |-> round.ts, at |-> round.ts]

Marks(round, cold, runs, thr, floors) ==
    LET reached == {c \in DOMAIN round.x : thr[c] > 0 /\ runs[c].n >= thr[c]}
        onFloor == {c \in reached : runs[c].last \in floors[c]}
    IN  [ts |-> round.ts, cold |-> cold, stuck |-> reached \ onFloor, floor |-> onFloor,
         length |-> [c \in reached |-> runs[c].n], start |-> [c \in reached |-> runs[c].start],
         crossed |-> {c \in reached : runs[c].n = thr[c]}]
WithMarks(guard, round, cold, runs, thr, floors) ==
    [ts |-> round.ts, runs |-> runs,
     out |-> Append(guard.out, Marks(round, cold, runs, thr, floors))]
RunsAfter(guard, round, cold) ==
    [c \in Detection |-> Extended(IF cold THEN NoRun ELSE guard.runs[c], c, round)]
Cold(guard, round) == guard.ts # NoValue /\ round.ts - guard.ts > ColdGap
GuardUpdate(guard, round, thr, floors) ==
    WithMarks(guard, round, Cold(guard, round), RunsAfter(guard, round, Cold(guard, round)),
              thr, floors)

Guarded(rounds, thr, floors) ==
    FoldLeft(LAMBDA g, r : GuardUpdate(g, r, thr, floors), NewGuard, rounds).out

----------------------------------------------------------------------------
(* Offline: the readings of a channel in the order of time, and at each how  *)
(* long its run is by then.                                                  *)
Series(files, c) ==
    SetToSortSeq({[t |-> r.t, v |-> r.v] : r \in {q \in FirstReadings(files) :
                      q.dev = Device /\ q.ch = c /\ ~(Excluded[1] <= q.t /\ q.t < Excluded[2])}},
                 LAMBDA p, q : p.t < q.t)

Joins(s, i) == i > 1 /\ s[i].v = s[i - 1].v /\ s[i].t - s[i - 1].t <= RunGap
RunLengths(s) ==
    [i \in DOMAIN s |-> i + 1 - Max({b \in 1 .. i : ~Joins(s, b)})]
RunEnds(s) == {i \in DOMAIN s : i = Len(s) \/ ~Joins(s, i + 1)}

(* Values that come often at either end of the range.                        *)
Often(s, v) ==
    Cardinality({i \in DOMAIN s : s[i].v = v}) * FloorShare[2] > FloorShare[1] * Len(s)
AtEdge(v, low, high) ==
    \/ (v - low) * FloorEdge[2] <= FloorEdge[1] * (high - low)
    \/ (high - v) * FloorEdge[2] <= FloorEdge[1] * (high - low)
FloorsOf(s) ==
    LET values == {s[i].v : i \in DOMAIN s}
    IN  {v \in values : Often(s, v) /\ AtEdge(v, Min(values), Max(values))}

(* A channel's row: the longest runs off the floors, whether the first is    *)
(* taken for a stuck sensor, and the threshold the others give.              *)
TopOf(s, r, ordinary) ==
    [k \in 1 .. Smaller(TopRuns, Len(ordinary)) |->
        LET i == ordinary[k]
        IN  [length |-> r[i], start |-> s[i + 1 - r[i]].t, value |-> s[i].v,
             duration |-> s[i].t - s[i + 1 - r[i]].t]]
TopRow(s, r, floors) ==
    TopOf(s, r, SetToSortSeq({i \in RunEnds(s) : s[i].v \notin floors},
                             LAMBDA i, j : r[i] > r[j] \/ (r[i] = r[j] /\ i < j)))
Outlying(top) ==
    Len(top) > 1 /\ top[1].length * OutlierRatio[2] > OutlierRatio[1] * top[2].length
ThresholdOf(top) ==
    LET base == IF Outlying(top) THEN top[2].length ELSE IF top # <<>> THEN top[1].length ELSE 0
    IN  (base * RunMultiplier[1] + RunMultiplier[2] - 1) \div RunMultiplier[2]
Row(s, r, floors, top, threshold) ==
    [threshold |-> threshold, floors |-> floors, top |-> top, outlier |-> Outlying(top),
     floorRuns |-> IF threshold = 0 THEN 0 ELSE
         Cardinality({j \in RunEnds(s) : s[j].v \in floors /\ r[j] >= threshold})]
RowWith(s, r, floors, top) == Row(s, r, floors, top, ThresholdOf(top))
RowFrom(s, r, floors) == RowWith(s, r, floors, TopRow(s, r, floors))
RunsRow(s) ==
    IF s = <<>> THEN [threshold |-> 0, floors |-> {}, top |-> <<>>, outlier |-> FALSE, floorRuns |-> 0]
    ELSE RowFrom(s, RunLengths(s), FloorsOf(s))

(* Where ordinary runs reach the threshold.                                  *)
Hits(s, r, row) ==
    {i \in DOMAIN s : row.threshold > 0 /\ r[i] = row.threshold /\ s[i].v \notin row.floors}

(* A held reading: after how many readings of the interval the guard tells.  *)
Inside(s, spec) == {i \in DOMAIN s : spec.from <= s[i].t /\ s[i].t < spec.until}
Held(s, inside) ==
    [i \in DOMAIN s |-> IF i \in inside THEN [s[i] EXCEPT !.v = s[Min(inside)].v] ELSE s[i]]
HeldHits(held, r, inside, row) ==
    {i \in inside : /\ row.threshold > 0 /\ r[i] >= row.threshold
                    /\ held[Min(inside)].v \notin row.floors}
Reached(hit, inside) ==
    [flagged |-> hit # {},
     rounds |-> IF hit = {} THEN 0 ELSE Cardinality({i \in inside : i <= Min(hit)})]
StuckCheck(held, inside, row) == Reached(HeldHits(held, RunLengths(held), inside, row), inside)

----------------------------------------------------------------------------
RunTable(s) ==
    [series |-> s, runs |-> [c \in Detection |-> RunLengths(s[c])],
     rows |-> [c \in Detection |-> RunsRow(s[c])]]
RunTables == [files \in Recordings |-> RunTable([c \in Detection |-> Series(files, c)])]

(* Off the segment that is left out, the rounds with the readings of s.      *)
RoundsWith(rounds, c, s) ==
    [i \in DOMAIN rounds |->
        LET at == {k \in DOMAIN s : s[k].t = rounds[i].ts}
        IN  [rounds[i] EXCEPT !.x = [d \in DOMAIN @ |->
                IF d = c /\ at # {} THEN s[CHOOSE k \in at : TRUE].v ELSE @[d]]]]

(* Of recorded data, only what is taken for a stuck sensor reaches its own   *)
(* threshold, and once; every held reading that comes often enough in a row  *)
(* without a gap is told, no later than after as many, and as the guard would.*)
Dense(s, inside) == \A k \in inside : k - 1 \in inside => s[k].t - s[k - 1].t <= RunGap
OutOfGuard(rounds, c, held, row) ==
    Guarded(RoundsWith(rounds, c, held), [d \in Detection |-> IF d = c THEN row.threshold ELSE 0],
            [d \in Detection |-> IF d = c THEN row.floors ELSE {}])
CheckHolds(s, inside, row, check, told) ==
    /\ check.flagged <=> told # {}
    /\ check.flagged => check.rounds = Cardinality({k \in inside : s[k].t <= Min(told)})
    /\ Dense(s, inside) => /\ check.rounds <= row.threshold
                           /\ row.threshold \in 1 .. Cardinality(inside)
                              /\ s[Min(inside)].v \notin row.floors => check.flagged
HeldIsTold(s, row, rounds, spec) ==
    \A inside \in {Inside(s, spec)} : \A held \in {Held(s, inside)} :
        CheckHolds(s, inside, row, StuckCheck(held, inside, row),
                   {m.ts : m \in {q \in Range(OutOfGuard(rounds, spec.ch, held, row)) :
                       spec.ch \in q.stuck /\ spec.from <= q.ts /\ q.ts < spec.until}})
ThresholdsHold(tab, pivot) ==
    \A rounds \in {SelectSeq(pivot, LAMBDA p : p.ts < Excluded[1])} : \A c \in Detection :
        /\ Cardinality(Hits(tab.series[c], tab.runs[c], tab.rows[c])) =
              IF tab.rows[c].outlier THEN 1 ELSE 0
        /\ \A spec \in {p \in StuckSpecs : p.ch = c /\ p.until <= Excluded[1]} :
              HeldIsTold(tab.series[c], tab.rows[c], rounds, spec)

(* The rounds that came out carry the cold starts of the round table and the *)
(* runs of the recorded series.                                              *)
MarkAgrees(mark, c, s, k, n, row) ==
    LET marked == row.threshold > 0 /\ n >= row.threshold
    IN  /\ marked <=> c \in mark.stuck \cup mark.floor
        /\ c \in mark.stuck => s[k].v \notin row.floors
        /\ c \in mark.floor => s[k].v \in row.floors
        /\ marked => /\ mark.length[c] = n
                     /\ mark.start[c] = s[k + 1 - n].t
                     /\ c \in mark.crossed <=> n = row.threshold
MarksAgree(table, tab, rounds) ==
    \A out \in {Guarded(rounds, [c \in Detection |-> tab.rows[c].threshold],
                         [c \in Detection |-> tab.rows[c].floors])} :
        /\ \A i \in DOMAIN out : out[i].cold = table.rounds[i].cold
        /\ \A i \in {j \in DOMAIN out : out[j].ts < Excluded[1]} : \A c \in DOMAIN rounds[i].x :
              \E k \in DOMAIN tab.series[c] :
                  /\ tab.series[c][k].t = out[i].ts
                  /\ MarkAgrees(out[i], c, tab.series[c], k, tab.runs[c][k], tab.rows[c])

(* Once everything is sent, by the same preconditions as RoundsAreOffline:   *)
(* the guard of the job marks what the offline analysis of the same files    *)
(* counts, and thresholds taken from recorded data are met by it nowhere but *)
(* at the runs that were put aside.                                          *)
GuardIsOffline ==
    replayer.phase = "done" /\ replayer.exact /\ InReach /\ SameFiles
    /\ Device \in DOMAIN ExtractTables[rec].byDevice =>
        \A tab \in {RunTables[rec]}, ext \in {ExtractTables[rec]} :
            /\ ThresholdsHold(tab, ext.pivot)
            /\ MarksAgree(ext.byDevice[Device], tab,
                   [i \in DOMAIN Emitted |-> [ts |-> Emitted[i].ts, x |-> Emitted[i].round.x]])
=============================================================================
