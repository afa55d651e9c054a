---------------------------- MODULE EdaScan ----------------------------
(* One file of the dataset, from its lines to the partial aggregate that is  *)
(* cached and merged (src/eda/edalib/scan.py, inventory.py).                  *)
(*                                                                            *)
(* A line has a number of comma-separated fields; 0 stands for a blank line.  *)
(* A field that is missing or does not parse is NoValue.  A line counts one   *)
(* byte.                                                                      *)
EXTENDS Integers, Sequences, FiniteSets, FiniteSetsExt, Functions, SequencesExt

(* Statistics (src/eda/edalib/stats.py) and calendar buckets                 *)
(* (src/eda/edalib/timeutil.py).  Arithmetic is exact: an accumulator keeps  *)
(* the sum and n times M2, both integers when the values are, and a quotient *)
(* is a fraction <<num, den>> with den > 0.  A counter or histogram is a     *)
(* function from its keys to counts.                                         *)
CONSTANTS
    BinSpec,         \* channel -> [lo, width, nbins]  (config.BIN_SPECS)
    Switches,        \* clock changes, a set of [at, offset]  (the BST table)
    SecondsPerDay, DaysPerMonth, DaysPerWeek

ASSUME StatsConstants ==
    /\ SecondsPerDay \in Nat \ {0} /\ DaysPerMonth \in Nat \ {0} /\ DaysPerWeek \in Nat \ {0}
    /\ \A c \in DOMAIN BinSpec : BinSpec[c].width > 0 /\ BinSpec[c].nbins > 0

----------------------------------------------------------------------------
(* Fractions.                                                                *)
Less(p, q) == p[1] * q[2] < q[1] * p[2]
AtMost(p, q) == ~Less(q, p)
Ceil(p) == -((-p[1]) \div p[2])
Abs(x) == IF x < 0 THEN -x ELSE x

----------------------------------------------------------------------------
(* Welford accumulators.  dev is n times M2, so it stays an integer.         *)
EmptyWelford == [n |-> 0, sum |-> 0, dev |-> 0, min |-> 0, max |-> 0]

(* values is a function; its domain tells equal values apart.                *)
WelfordFromArray(values) ==
    LET n == Cardinality(DOMAIN values)
        s == SumFunction(values)
    IN  IF n = 0 THEN EmptyWelford
        ELSE [n |-> n, sum |-> s,
              dev |-> n * SumFunction([i \in DOMAIN values |-> values[i] * values[i]]) - s * s,
              min |-> Min(Range(values)), max |-> Max(Range(values))]

Smaller(x, y) == IF x <= y THEN x ELSE y
Bigger(x, y) == IF x >= y THEN x ELSE y

(* M2 = M2a + M2b + delta^2 na nb / n, times n, over the common denominator. *)
WelfordMerge(a, b) ==
    IF a.n = 0 THEN b
    ELSE IF b.n = 0 THEN a
    ELSE LET n == a.n + b.n
             delta == b.sum * a.n - a.sum * b.n
         IN  [n |-> n, sum |-> a.sum + b.sum,
              dev |-> (n * (a.dev * b.n + b.dev * a.n) + delta * delta) \div (a.n * b.n),
              min |-> Smaller(a.min, b.min), max |-> Bigger(a.max, b.max)]

(* std^2 = M2 / (n - 1), undefined below two values.                         *)
Variance(acc) == <<acc.dev, acc.n * (acc.n - 1)>>
Mean(acc) == <<acc.sum, acc.n>>

----------------------------------------------------------------------------
(* Counters and sparse histograms.                                           *)
NoCounts == [k \in {} |-> 0]
CountAt(c, k) == IF k \in DOMAIN c THEN c[k] ELSE 0
CounterMerge(a, b) == [k \in DOMAIN a \cup DOMAIN b |-> CountAt(a, k) + CountAt(b, k)]
Tally(f) == [k \in Range(f) |-> Cardinality({i \in DOMAIN f : f[i] = k})]
Total(c) == SumFunction(c)

(* Merge a table of partials into a table, entry by entry.                   *)
TableMerge(t, u, Combine(_, _)) ==
    [k \in DOMAIN t \cup DOMAIN u |->
        IF k \notin DOMAIN t THEN u[k] ELSE IF k \notin DOMAIN u THEN t[k]
        ELSE Combine(t[k], u[k])]

Clip(x, lo, hi) == Bigger(lo, Smaller(x, hi))
BinOf(v, ch) == Clip((v - BinSpec[ch].lo) \div BinSpec[ch].width, 0, BinSpec[ch].nbins - 1)
HistFromArray(values, ch) == Tally([i \in DOMAIN values |-> BinOf(values[i], ch)])

UpTo(c, k) == SumFunction([j \in {i \in DOMAIN c : i <= k} |-> c[j]])

(* Where the q-quantile, q = <<a, b>>, falls: the first key whose cumulated  *)
(* count reaches q of the total.                                             *)
QuantileKey(c, q) == Min({k \in DOMAIN c : UpTo(c, k) * q[2] >= q[1] * Total(c)})
CounterQuantile(c, q) == QuantileKey(c, q)

(* The quantile of a histogram: linear inside the bin that holds it.         *)
Into(h, q, k) == q[1] * Total(h) - q[2] * (UpTo(h, k) - h[k])     \* over q[2] * h[k]
InsideBin(h, bin, q, k) ==
    <<bin.lo * q[2] * h[k] + (k * q[2] * h[k] + Into(h, q, k)) * bin.width, q[2] * h[k]>>
HistQuantile(h, ch, q) == InsideBin(h, BinSpec[ch], q, QuantileKey(h, q))

Quarters(h, ch) == [med |-> HistQuantile(h, ch, <<1, 2>>), q1 |-> HistQuantile(h, ch, <<1, 4>>),
                    q3 |-> HistQuantile(h, ch, <<3, 4>>)]

(* sup |F_a - F_b| over the bins, as a fraction of na * nb.                  *)
KsStatistic(a, b) ==
    <<Max({Abs(UpTo(a, k) * Total(b) - UpTo(b, k) * Total(a)) : k \in DOMAIN a \cup DOMAIN b}),
      Total(a) * Total(b)>>

----------------------------------------------------------------------------
(* The local calendar.                                                       *)
LocalOffset(t) ==
    LET past == {s \in Switches : s.at <= t}
    IN  IF past = {} THEN 0 ELSE (CHOOSE s \in past : \A r \in past : r.at <= s.at).offset
ToLocal(t) == t + LocalOffset(t)
LocalDate(t) == ToLocal(t) \div SecondsPerDay
LocalMonth(t) == LocalDate(t) \div DaysPerMonth
LocalWeek(t) == LocalDate(t) \div DaysPerWeek

----------------------------------------------------------------------------

CONSTANTS
    NoValue,         \* a field that is missing or does not parse
    SniffBytes, SniffSampleLines,
    SniffMatch,      \* SNIFF_MATCH_RATIO, <<num, den>>
    MaxBytes,        \* --max-file-mb
    Sentinels, PhysicalRanges,
    GapThreshold, OverflowBin,
    SkewMax, AccelCapPerFile

ASSUME ScanConstants ==
    /\ SniffBytes \in Nat \ {0} /\ SniffSampleLines \in Nat \ {0} /\ MaxBytes \in Nat
    /\ GapThreshold \in Nat /\ OverflowBin \in Nat /\ SkewMax \in Nat /\ AccelCapPerFile \in Nat

(* What the payload of a file that gave no data holds.                       *)
EmptyPayload(file, bytes, mtime) ==
    [file |-> file, bytes |-> bytes, mtime |-> mtime, isData |-> FALSE, ok |-> TRUE,
     error |-> "none", hasHeader |-> FALSE, linesRaw |-> 0, parsed |-> 0, malformed |-> 0,
     badTime |-> 0, badKey |-> 0, badValue |-> 0, timeMin |-> NoValue, timeMax |-> NoValue,
     nRounds |-> 0, stats |-> NoCounts, hist |-> NoCounts, nan |-> NoCounts,
     sentinel |-> NoCounts, oor |-> NoCounts, uptime |-> NoCounts, daily |-> NoCounts,
     devices |-> <<>>, rounds |-> NoCounts, roundSize |-> NoCounts, dupExtra |-> 0, dupKeys |-> 0,
     accelZero |-> NoCounts, accelNonzero |-> NoCounts, accelRecords |-> <<>>,
     accelTruncated |-> FALSE, skew |-> NoValue]

Failed(payload, why) == [payload EXCEPT !.ok = FALSE, !.error = why]

----------------------------------------------------------------------------
(* Is it a data file?  A header settles it; otherwise enough of the first    *)
(* lines must have four fields with a number first and last.                 *)
Bytes(content) == Len(content.lines) + (IF content.header THEN 1 ELSE 0)
LooksLikeRow(ln) == ln.fields = 4 /\ ln.time # NoValue /\ ln.value # NoValue

Sample(lines) == SubSeq(lines, 1, Smaller(Len(lines), SniffSampleLines))
RowsMatch(sample) ==
    /\ sample # <<>>
    /\ Len(SelectSeq(sample, LooksLikeRow)) * SniffMatch[2] >= SniffMatch[1] * Len(sample)
SniffSchema(header, lines) ==
    header \/ RowsMatch(Sample(SelectSeq(lines, LAMBDA ln : ln.fields # 0)))

(* The lines a scan reads: the prefix, and the rest when the size taken      *)
(* before opening the file exceeds it.                                       *)
PrefixSize(content) == Smaller(Bytes(content), SniffBytes)
Prefix(content) ==
    SubSeq(content.lines, 1, PrefixSize(content) - (IF content.header THEN 1 ELSE 0))
LinesRead(content, bytes) ==
    IF bytes > PrefixSize(content) THEN content.lines ELSE Prefix(content)

(* Trailing blank lines are not counted.                                     *)
RawLines(lines) == Max({0} \cup {i \in DOMAIN lines : lines[i].fields # 0})

----------------------------------------------------------------------------
(* The rhythm of one device: its distinct timestamps.                        *)
NextOf(ts, t) == Min({u \in ts : u > t})
Deltas(ts) == [t \in ts \ {Max(ts)} |-> NextOf(ts, t) - t]
RoundsEntry(ts) ==
    LET d == Deltas(ts)
    IN  [n |-> Cardinality(ts), first |-> Min(ts), last |-> Max(ts),
         ia |-> Tally([t \in DOMAIN d |-> Smaller(d[t], OverflowBin)]),
         gaps |-> {[start |-> t, end |-> t + d[t]] : t \in {u \in DOMAIN d : d[u] > GapThreshold}}]

(* Offsets of each device's rounds from the nearest round of the device      *)
(* that has most of them; the earlier of two equally near ones.              *)
Nearest(ref, t) == CHOOSE u \in ref : \A v \in ref :
                       \/ Abs(t - u) < Abs(t - v)
                       \/ Abs(t - u) = Abs(t - v) /\ u <= v
ClockSkew(timesOf) ==
    LET devs == DOMAIN timesOf
        ref == CHOOSE d \in devs : \A e \in devs :
                  \/ Cardinality(timesOf[d]) > Cardinality(timesOf[e])
                  \/ Cardinality(timesOf[d]) = Cardinality(timesOf[e]) /\ d <= e
        offset(d) == [t \in timesOf[d] |-> t - Nearest(timesOf[ref], t)]
        inside(d) == {t \in timesOf[d] : Abs(offset(d)[t]) <= SkewMax}
    IN  IF Cardinality(devs) < 2 THEN NoValue
        ELSE [ref |-> ref,
              hist |-> [d \in {e \in devs \ {ref} : inside(e) # {}} |->
                           Tally([t \in inside(d) |-> offset(d)[t]])],
              outside |-> [d \in devs \ {ref} |-> Cardinality(timesOf[d] \ inside(d))]]

----------------------------------------------------------------------------
(* One partial aggregate from the usable rows: those with a time, a device   *)
(* and a sensor.                                                             *)
Grouped(I, key) == [k \in {key[i] : i \in I} |-> {i \in I : key[i] = k}]
Sizes(groups) == [k \in DOMAIN groups |-> Cardinality(groups[k])]

(* The keys of a grouping in the order their first rows come.                *)
FirstSeen(groups) == SetToSortSeq(DOMAIN groups, LAMBDA j, k : Min(groups[j]) < Min(groups[k]))

InOrderOf(rows, I) == SelectSeq([i \in DOMAIN rows |-> i], LAMBDA i : i \in I)

Partial(rows, keep, payload, sampleSkew) ==
    LET times == {rows[i].time : i \in keep}
        byDev == Grouped(keep, [i \in keep |-> rows[i].dev])
        timesOf == [d \in DOMAIN byDev |-> {rows[i].time : i \in byDev[d]}]
        cell == [i \in keep |-> <<LocalMonth(rows[i].time), rows[i].dev, rows[i].sensor>>]
        valid == {i \in keep : rows[i].value # NoValue}
        clean == {i \in valid : rows[i].value \notin Sentinels}
        val(I) == [i \in I |-> rows[i].value]
        cells == Grouped(clean, cell)
        outOf(c) == {i \in cells[c] : \/ rows[i].value < PhysicalRanges[c[3]].lo
                                      \/ rows[i].value > PhysicalRanges[c[3]].hi}
        triples == Sizes(Grouped(keep, [i \in keep |->
                       <<rows[i].dev, rows[i].time, rows[i].sensor>>]))
        perRound == Sizes(Grouped(keep, [i \in keep |-> <<rows[i].dev, rows[i].time>>]))
        days == Grouped(clean, [i \in keep |-> <<LocalDate(rows[i].time), rows[i].sensor>>])
        accel == {i \in clean : rows[i].sensor = "Accelerometer"}
        zero == {i \in accel : rows[i].value = 0}
        devsOf(I) == {rows[i].dev : i \in I}
        nonzero == InOrderOf(rows, accel \ zero)
    IN  [payload EXCEPT
           !.badValue = Cardinality(keep \ valid),
           !.timeMin = Min(times), !.timeMax = Max(times), !.nRounds = Cardinality(times),
           !.devices = FirstSeen(byDev),
           !.rounds = [d \in DOMAIN timesOf |-> RoundsEntry(timesOf[d])],
           !.uptime = Sizes(Grouped(keep, [i \in keep |->
                          <<rows[i].dev, LocalDate(rows[i].time)>>])),
           !.roundSize = [d \in DOMAIN byDev |->
               Tally([r \in {p \in DOMAIN perRound : p[1] = d} |-> perRound[r]])],
           !.dupExtra = SumFunction([k \in DOMAIN triples |-> triples[k] - 1]),
           !.dupKeys = Cardinality({k \in DOMAIN triples : triples[k] > 1}),
           !.nan = Sizes(Grouped(keep \ valid, cell)),
           !.sentinel = Sizes(Grouped(valid \ clean, cell)),
           !.stats = [c \in DOMAIN cells |-> WelfordFromArray(val(cells[c]))],
           !.hist = [c \in DOMAIN cells |-> HistFromArray(val(cells[c]), c[3])],
           !.oor = [c \in {k \in DOMAIN cells : k[3] \in DOMAIN PhysicalRanges /\ outOf(k) # {}}
                       |-> Cardinality(outOf(c))],
           !.daily = [k \in DOMAIN days |->
               [n |-> Cardinality(days[k]), sum |-> SumFunction(val(days[k]))]],
           !.accelZero = [d \in devsOf(accel) |-> Cardinality({i \in zero : rows[i].dev = d})],
           !.accelNonzero = Sizes(Grouped(accel \ zero, [i \in keep |-> rows[i].dev])),
           !.accelTruncated = Len(nonzero) > AccelCapPerFile,
           !.accelRecords = [i \in 1 .. Smaller(Len(nonzero), AccelCapPerFile) |->
               [time |-> rows[nonzero[i]].time, dev |-> rows[nonzero[i]].dev,
                value |-> rows[nonzero[i]].value]],
           !.skew = IF sampleSkew THEN ClockSkew(timesOf) ELSE NoValue]

Accumulate(rows, payload, sampleSkew) ==
    LET all == DOMAIN rows
        good == {i \in all : rows[i].time # NoValue}
        keep == {i \in good : rows[i].dev # NoValue /\ rows[i].sensor # NoValue}
        counted == [payload EXCEPT !.badTime = Cardinality(all \ good),
                                   !.badKey = Cardinality(good \ keep)]
    IN  IF keep = {} THEN Failed(counted, "no usable rows")
        ELSE Partial(rows, keep, counted, sampleSkew)

DataRows(lines) == SelectSeq(lines, LAMBDA ln : ln.fields \in 1 .. 4)

(* The scan of a file whose size was taken as bytes and whose lines are read *)
(* afterwards; parses says whether the CSV reader got through.               *)
ScanContent(file, bytes, mtime, content, parses, sampleSkew) ==
    LET base == EmptyPayload(file, bytes, mtime)
        lines == LinesRead(content, bytes)
        data == [base EXCEPT !.isData = TRUE, !.hasHeader = content.header]
        rows == DataRows(lines)
        read == [data EXCEPT !.linesRaw = RawLines(lines) + (IF content.header THEN 1 ELSE 0),
                             !.parsed = Len(rows),
                             !.malformed = Bigger(0, RawLines(lines) - Len(rows))]
    IN  IF bytes = 0 THEN Failed(base, "empty file")
        ELSE IF ~SniffSchema(content.header, Prefix(content))
             THEN Failed(base, "non-data file")
        ELSE IF bytes > MaxBytes THEN Failed(data, "too large")
        ELSE IF ~parses THEN Failed(data, "parse failed")
        ELSE IF rows = <<>> THEN Failed(read, "no parsable data rows")
        ELSE Accumulate(rows, read, sampleSkew)
=============================================================================
