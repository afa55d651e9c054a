---------------------------- MODULE EdaReport ----------------------------
(* What the report says of an aggregate: the tables, the verdicts on the      *)
(* recorded data facts, the digest two runs are compared by and the design    *)
(* recommendations (src/eda/edalib/report.py, report_gen.py).  Figures,       *)
(* number formats and wording are left out.                                   *)
EXTENDS EdaMerge

CONSTANTS
    ExpectedSensors, SeasonalChannels,
    FDetChannels,          \* a sequence: equal ones are ranked in its order
    WatchedDevice,         \* device H, of data fact DF-3
    NominalPeriod, PeriodSlack, MaxJitter,        \* DF-2
    MicLevels, PressureInPa, FrozenDate, LateMonth,
    P90, P99, P999         \* the upper ones of config.INTERARRIVAL_QUANTILES, fractions

ASSUME ReportConstants ==
    /\ P90[2] > 0 /\ P99[2] > 0 /\ Less(P90, P99) /\ Less(P99, P999) /\ P999[1] < P999[2]
    /\ FDetChannels \in Seq(Range(FDetChannels))

----------------------------------------------------------------------------
(* Views of the "month|device|sensor" tables.                                *)
PooledStats(agg, keys) == FoldFunctionOnSet(WelfordMerge, EmptyWelford, agg.stats, keys)
PooledHist(agg, keys) == FoldFunctionOnSet(CounterMerge, NoCounts, agg.hist, keys)
PooledCount(counts, keys) == SumFunctionOnSet(counts, keys \cap DOMAIN counts)

Months(agg) == {k[1] : k \in DOMAIN agg.stats}
Sensors(agg) == {k[3] : k \in DOMAIN agg.stats}
Devices(agg) == DOMAIN agg.roundsTotal \cup {k[2] : k \in DOMAIN agg.stats}
OfChannel(agg, d, s) == {k \in DOMAIN agg.stats : k[2] = d /\ k[3] = s}
OfMonth(agg, m, s) == {k \in DOMAIN agg.hist : k[1] = m /\ k[3] = s}
OfSensor(agg, s) == {k \in DOMAIN agg.stats : k[3] = s}
Channels(agg) == {<<k[2], k[3]>> : k \in DOMAIN agg.stats}
CountsOf(table, d, s) == PooledCount(table, {k \in DOMAIN table : k[2] = d /\ k[3] = s})

RollUp(agg) ==
    [byDS |-> [c \in Channels(agg) |-> PooledStats(agg, OfChannel(agg, c[1], c[2]))],
     byDSHist |-> [c \in Channels(agg) |-> PooledHist(agg, OfChannel(agg, c[1], c[2]))],
     byMSHist |-> [p \in Months(agg) \X Sensors(agg) |-> PooledHist(agg, OfMonth(agg, p[1], p[2]))],
     byMDS |-> agg.stats]

DateRange(agg) == IF agg.timeMin = NoValue THEN {}
                  ELSE LocalDate(agg.timeMin) .. LocalDate(agg.timeMax)
Span(agg) == IF agg.timeMin = NoValue THEN 0 ELSE agg.timeMax - agg.timeMin

(* A constant channel is reported exactly: the histogram would give it half  *)
(* a bin of spread.                                                          *)
MedianIqr(acc, hist, ch) ==
    IF acc.min = acc.max
    THEN [med |-> <<acc.min, 1>>, q1 |-> <<acc.min, 1>>, q3 |-> <<acc.min, 1>>]
    ELSE Quarters(hist, ch)

----------------------------------------------------------------------------
EmitE1(agg) ==
    [nDays |-> Cardinality(DateRange(agg)), weeks |-> Cardinality(DOMAIN agg.weekly),
     first |-> IF agg.timeMin = NoValue THEN NoValue ELSE LocalDate(agg.timeMin),
     last |-> IF agg.timeMax = NoValue THEN NoValue ELSE LocalDate(agg.timeMax)]

PresenceDays(agg, d) == {date \in DateRange(agg) : <<d, date>> \in DOMAIN agg.uptime}
FullRounds(agg, d) ==
    <<CountAt(agg.roundSize[d], Cardinality(ExpectedSensors)), Total(agg.roundSize[d])>>
GapBucketTotals(agg) ==
    [b \in 0 .. Cardinality(GapHistEdges) |->
        SumFunction([d \in DOMAIN agg.gapSummary |-> CountAt(agg.gapSummary[d].hist, b)])]
EmitE2(agg) ==
    [counts |-> [c \in Channels(agg) |-> PooledStats(agg, OfChannel(agg, c[1], c[2])).n],
     presence |-> [d \in Devices(agg) |-> PresenceDays(agg, d)],
     completeness |-> [d \in Devices(agg) |-> FullRounds(agg, d)],
     longestGaps |-> agg.gapHeap,
     gapShare |-> [d \in Devices(agg) |-> <<SummaryOf(agg.gapSummary, d).total, Span(agg)>>],
     gapBuckets |-> GapBucketTotals(agg)]

ChannelRow(agg, table, hist, ch, d, s) ==
    [acc |-> table[ch], quarters |-> MedianIqr(table[ch], hist[ch], s),
     nan |-> CountsOf(agg.nan, d, s), sentinel |-> CountsOf(agg.sentinel, d, s),
     oor |-> CountsOf(agg.oor, d, s)]
SanityRow(agg, s) ==
    [acc |-> PooledStats(agg, OfSensor(agg, s)),
     oor |-> IF s \in DOMAIN PhysicalRanges
             THEN PooledCount(agg.oor, {k \in DOMAIN agg.oor : k[3] = s}) ELSE NoValue]
MicHist(agg, m) == PooledHist(agg, OfMonth(agg, m, "MIC"))
MicValue(b) == BinSpec["MIC"].lo + b * BinSpec["MIC"].width
MicValues(agg) ==
    {MicValue(b) : b \in UNION {DOMAIN agg.hist[k] : k \in {c \in DOMAIN agg.hist : c[3] = "MIC"}}}
MicHists(agg) == [m \in Months(agg) |-> MicHist(agg, m)]
MicOnes(hist) == SumFunction([b \in {c \in DOMAIN hist : MicValue(c) = 1} |-> hist[b]])
MicMonths(hists) == [m \in {n \in DOMAIN hists : hists[n] # NoCounts} |->
                        <<MicOnes(hists[m]), Total(hists[m])>>]
IsDegenerate(acc, quarters) ==
    acc.min = acc.max \/ (acc.n >= 2 /\ acc.dev = 0) \/ AtMost(quarters.q3, quarters.q1)
Degenerate(rows) == {c \in DOMAIN rows : IsDegenerate(rows[c].acc, rows[c].quarters)}
ChannelRows(agg, views) == [c \in Channels(agg) |->
    ChannelRow(agg, views.byDS, views.byDSHist, c, c[1], c[2])]
EmitE3With(agg, views, rows) ==
    [channels |-> rows,
     monthly |-> [k \in DOMAIN agg.stats |-> MedianIqr(views.byMDS[k], agg.hist[k], k[3])],
     accelRecords |-> agg.accelRecords,
     accelZero |-> Total(agg.accelZero), accelNonzero |-> Total(agg.accelNonzero),
     sanity |-> [s \in Sensors(agg) |-> SanityRow(agg, s)],
     micSeen |-> MicValues(agg),
     micByMonth |-> MicMonths(MicHists(agg)), degenerate |-> Degenerate(rows)]
EmitE3(agg, views) == EmitE3With(agg, views, ChannelRows(agg, views))

(* Normal operation: the intervals that are no gaps.                         *)
WithoutGaps(c) == [k \in {j \in DOMAIN c : j <= GapThreshold} |-> c[k]]
QuantilesOf(c) == IF c = NoCounts THEN NoValue
                  ELSE [p50 |-> CounterQuantile(c, <<1, 2>>), p90 |-> CounterQuantile(c, P90),
                        p99 |-> CounterQuantile(c, P99), p999 |-> CounterQuantile(c, P999)]
BelowOverflow(c) == [k \in {j \in DOMAIN c : j < OverflowBin} |-> c[k]]
MeanInterval(c) == <<SumFunction([k \in DOMAIN BelowOverflow(c) |-> k * c[k]]),
                     Bigger(1, Total(BelowOverflow(c)))>>
AbsCounts(c) == [a \in {Abs(k) : k \in DOMAIN c} |-> CountAt(c, a) + (IF a = 0 THEN 0 ELSE CountAt(c, -a))]
SkewRow(c, outside) ==
    [n |-> Total(c), mean |-> <<SumFunction([k \in DOMAIN c |-> k * c[k]]), Total(c)>>,
     median |-> CounterQuantile(c, <<1, 2>>),
     absP99 |-> CounterQuantile(AbsCounts(c), P99), outside |-> outside]
Intervals(agg) == Restrict(agg.interarrival,
                           {d \in DOMAIN agg.interarrival : agg.interarrival[d] # NoCounts})
EmitE4With(agg, ia) ==
    [quantiles |-> [d \in DOMAIN ia |-> QuantilesOf(ia[d])],
     withoutGaps |-> [d \in DOMAIN ia |-> QuantilesOf(WithoutGaps(ia[d]))],
     mean |-> [d \in DOMAIN ia |-> MeanInterval(ia[d])],
     overflow |-> [d \in DOMAIN ia |-> CountAt(ia[d], OverflowBin)],
     skew |-> [d \in DOMAIN agg.skewHist |->
                  SkewRow(agg.skewHist[d], CountAt(agg.skewOutside, d))],
     skewRefs |-> agg.skewRefs, skewFiles |-> agg.skewSampled]
EmitE4(agg) == EmitE4With(agg, Intervals(agg))

(* Two months next to each other in the list of months that have data.       *)
NextMonth(agg, m) == Min({n \in Months(agg) : n > m})
MonthPairs(agg, ch, hists) ==
    {m \in Months(agg) \ {Max(Months(agg))} :
        hists[<<m, ch>>] # NoCounts /\ hists[<<NextMonth(agg, m), ch>>] # NoCounts}
KsOf(agg, hists, ch) ==
    [m \in MonthPairs(agg, ch, hists) |->
        KsStatistic(hists[<<m, ch>>], hists[<<NextMonth(agg, m), ch>>])]
Drifting(agg) == Range(FDetChannels) \cap Sensors(agg)
EmitE5(agg, views) ==
    [drift |-> [p \in {q \in Months(agg) \X Drifting(agg) : views.byMSHist[q] # NoCounts} |->
        [p10 |-> HistQuantile(views.byMSHist[p], p[2], <<1, 10>>),
         p50 |-> HistQuantile(views.byMSHist[p], p[2], <<1, 2>>),
         p90 |-> HistQuantile(views.byMSHist[p], p[2], <<9, 10>>)]],
     ks |-> [ch \in {c \in Drifting(agg) : MonthPairs(agg, c, views.byMSHist) # {}} |->
                KsOf(agg, views.byMSHist, ch)],
     seasonal |-> [k \in {j \in DOMAIN agg.daily : j[2] \in SeasonalChannels} |->
                      <<agg.daily[k].sum, agg.daily[k].n>>]]

----------------------------------------------------------------------------
(* The recorded data facts, and whether the measurement agrees.              *)
Accounted(agg) == agg.outcome["ok"] + agg.outcome["failed"] + agg.outcome["nonData"]
Measured(quantiles) == {d \in DOMAIN quantiles : quantiles[d] # NoValue}
JitterAsStated(ng) ==
    /\ \A d \in Measured(ng) : Abs(ng[d].p50 - NominalPeriod) <= PeriodSlack
    /\ \A d \in Measured(ng) : ng[d].p999 <= MaxJitter
CheckDataFacts(agg, views, e2, e3, e4) ==
    LET pressure == PooledStats(agg, OfSensor(agg, "Pressure"))
        fact(applies, agrees) == IF applies THEN (IF agrees THEN "agrees" ELSE "differs") ELSE "unknown"
    IN  [df1 |-> fact(DOMAIN e2.completeness # {},
                      \A d \in DOMAIN e2.completeness :
                          e2.completeness[d][1] * 100 >= 99 * e2.completeness[d][2]),
         df2 |-> fact(Measured(e4.withoutGaps) # {}, JitterAsStated(e4.withoutGaps)),
         df3 |-> fact(DateRange(agg) # {}, WatchedDevice \notin DOMAIN e2.presence
                                           \/ e2.presence[WatchedDevice] = {}),
         df5 |-> fact(e3.accelZero + e3.accelNonzero > 0, e3.accelNonzero = 0),
         df6 |-> fact(e3.micSeen # {}, e3.micSeen \subseteq MicLevels),
         df7 |-> fact(pressure.n > 0, /\ AtMost(<<PressureInPa[1], 1>>, Mean(pressure))
                                      /\ AtMost(Mean(pressure), <<PressureInPa[2], 1>>)),
         df8 |-> fact(TRUE, DOMAIN agg.patterns \subseteq DashedClasses),
         df15 |-> fact(TRUE, Accounted(agg) = agg.total),
         df10 |-> fact(agg.timeMax # NoValue, LocalDate(agg.timeMax) > FrozenDate)]

(* Python's sort: what compares equal keeps its order.                       *)
StableSort(s, Above(_, _)) ==
    LET order == SetToSortSeq(DOMAIN s, LAMBDA i, j : \/ Above(s[i], s[j])
                                                      \/ ~Above(s[j], s[i]) /\ i < j)
    IN  [n \in DOMAIN order |-> s[order[n]]]

(* The digest two runs are compared by.                                      *)
MeanKs(ks) ==           \* of a channel, over its month pairs
    [ch \in DOMAIN ks |->
        LET den == FoldFunction(LAMBDA p, acc : p[2] * acc, 1, ks[ch])
        IN  <<SumFunction([m \in DOMAIN ks[ch] |-> ks[ch][m][1] * (den \div ks[ch][m][2])]),
              den * Cardinality(DOMAIN ks[ch])>>]
Rounded4(q) ==         \* round(x, 4), in ten thousandths
    LET x == (q[1] * 10000) \div q[2]
        rest == 2 * ((q[1] * 10000) % q[2])
    IN  IF rest > q[2] \/ (rest = q[2] /\ x % 2 = 1) THEN x + 1 ELSE x
KsChannels(ks) == SelectSeq(FDetChannels, LAMBDA ch : ch \in DOMAIN ks)
KsRanking(ks, mean) ==
    StableSort(KsChannels(ks), LAMBDA c, d : Rounded4(mean[c]) > Rounded4(mean[d]))
Highest(ng) == [p99 |-> Max({0} \cup {ng[d].p99 : d \in Measured(ng)}),
                p999 |-> Max({0} \cup {ng[d].p999 : d \in Measured(ng)})]
Digest(agg, e4, e5) ==
    [presence |-> [d \in {k[1] : k \in DOMAIN agg.uptime} |->
                      Cardinality({k \in DOMAIN agg.uptime : k[1] = d})],
     gapMax |-> Max({0} \cup {agg.gapSummary[d].max : d \in DOMAIN agg.gapSummary}),
     gapTotal |-> SumFunction([d \in DOMAIN agg.gapSummary |-> agg.gapSummary[d].total]),
     iaP99 |-> Highest(e4.withoutGaps).p99, iaP999 |-> Highest(e4.withoutGaps).p999,
     ksRanking |-> KsRanking(e5.ks, MeanKs(e5.ks)),
     accelNonzero |-> Total(agg.accelNonzero), mic |-> MicValues(agg),
     lastDate |-> EmitE1(agg).last]
DiffDigests(baseline, current) ==
    {item \in DOMAIN current : baseline[item] # current[item]}

(* The unmatched files by what their content turned out to be.               *)
Rescan(agg) ==
    LET rows == agg.unmatched
        those(P(_)) == Cardinality({i \in DOMAIN rows : P(rows[i])})
    IN  [unmatched |-> Len(rows), data |-> those(LAMBDA r : r.isData),
         included |-> those(LAMBDA r : r.included),
         balanced |-> Accounted(agg) = agg.total,
         pastFrozen |-> agg.timeMax # NoValue /\ LocalDate(agg.timeMax) > FrozenDate,
         lateMonth |-> \E m \in Months(agg) : m >= LateMonth]

----------------------------------------------------------------------------
(* The two lists run_eda writes beside the aggregate, in their own order.    *)
PatternRank(f) == CASE Pattern(f) = "compact_data" -> 1 [] Pattern(f) = "compact_plain" -> 2
                    [] OTHER -> 3
InventoryBefore(r, q) ==
    \/ r.timeMin # NoValue /\ (q.timeMin = NoValue \/ r.timeMin < q.timeMin)
    \/ r.timeMin = q.timeMin /\ r.file < q.file
UnmatchedBefore(r, q) ==
    \/ r.isData /\ ~q.isData
    \/ /\ r.isData = q.isData
       /\ \/ PatternRank(r.file) < PatternRank(q.file)
          \/ PatternRank(r.file) = PatternRank(q.file) /\ r.file < q.file
WriteInventory(agg) == SortSeq(agg.inventory, InventoryBefore)
WriteUnmatched(agg) == SortSeq(agg.unmatched, UnmatchedBefore)

(* The sections of the report's text.                                        *)
InventorySection(agg) ==
    [found |-> agg.total, accounted |-> Accounted(agg), matches |-> Accounted(agg) = agg.total,
     classes |-> agg.nameClasses, patterns |-> agg.patterns,
     bytes |-> <<agg.bytesTotal, agg.bytesData, agg.bytesNonData>>, rows |-> agg.parsed,
     headers |-> <<agg.withHeader, agg.withoutHeader>>, utc |-> <<agg.timeMin, agg.timeMax>>]

RowsOfDevice(e2, d) == SumFunctionOnSet(e2.counts, {c \in DOMAIN e2.counts : c[1] = d})
CompletenessSection(agg, e2) ==
    [d \in Devices(agg) |->
        [rows |-> RowsOfDevice(e2, d), rounds |-> CountAt(agg.roundsTotal, d),
         presence |-> <<Cardinality(e2.presence[d]), Bigger(1, Cardinality(DateRange(agg)))>>,
         full |-> e2.completeness[d], gaps |-> SummaryOf(agg.gapSummary, d).count,
         longest |-> SummaryOf(agg.gapSummary, d).max, share |-> e2.gapShare[d]]]

(* A channel over all devices, from the per-device accumulators.             *)
PooledRow(acc, hist, s) == [acc |-> acc, quarters |-> MedianIqr(acc, hist, s)]
PooledChannel(views, s) ==
    LET of == {c \in DOMAIN views.byDS : c[2] = s}
    IN  PooledRow(FoldFunctionOnSet(WelfordMerge, EmptyWelford, views.byDS, of),
                  FoldFunctionOnSet(CounterMerge, NoCounts, views.byDSHist, of), s)
MicTotals(e3) ==
    <<SumFunction([m \in DOMAIN e3.micByMonth |-> e3.micByMonth[m][1]]),
      SumFunction([m \in DOMAIN e3.micByMonth |-> e3.micByMonth[m][2]])>>
NumericSection(agg, views, e3) ==
    [summary |-> [s \in Sensors(agg) |-> PooledChannel(views, s)],
     unparsable |-> agg.badValue, sentinels |-> Total(agg.sentinel), outOfRange |-> Total(agg.oor),
     accelerometer |-> <<e3.accelNonzero, e3.accelZero + e3.accelNonzero>>,
     nonzeroBy |-> agg.accelNonzero, truncated |-> agg.accelRecordsTruncated,
     mic |-> MicTotals(e3)]

(* The month before the strongest change of a channel, the first of several. *)
Strongest(ks) == Min({m \in DOMAIN ks : \A n \in DOMAIN ks : AtMost(ks[n], ks[m])})
DriftSection(e5) ==
    [insufficient |-> DOMAIN e5.ks = {},
     strongest |-> [ch \in DOMAIN e5.ks |-> <<Strongest(e5.ks[ch]), e5.ks[ch][Strongest(e5.ks[ch])]>>],
     mean |-> MeanKs(e5.ks)]

(* Failures by count; equal counts in the order they arrived.                *)
FailureTable(agg) ==
    LET keys == StableSort(agg.errorKeys, LAMBDA e, f : agg.errors[e] > agg.errors[f])
    IN  [i \in DOMAIN keys |-> <<keys[i], agg.errors[keys[i]]>>]
RobustnessSection(agg) ==
    [failed |-> agg.outcome["failed"], malformed |-> agg.malformed, badTime |-> agg.badTime,
     badKey |-> agg.badKey, badValue |-> agg.badValue, overlaps |-> agg.overlaps,
     folded |-> agg.folded, duplicates |-> <<agg.dupExtra, agg.dupKeys>>,
     errors |-> FailureTable(agg)]

(* DF-1 deviates only in part and DF-15, DF-10 state no earlier fact.        *)
Conflicts(facts) == {f \in DOMAIN facts \ {"df1", "df10", "df15"} : facts[f] = "differs"}

----------------------------------------------------------------------------
(* The eight design questions.  Q1 takes a maximum over the devices that     *)
(* have a normal interval and has no answer, not even "insufficient data",   *)
(* when there are intervals but none of them is normal: the report dies.     *)
Dies(e4) == DOMAIN e4.withoutGaps # {} /\ Measured(e4.withoutGaps) = {}
RoundUp5(x) == 5 * Ceil(<<x, 5>>)
Lateness(high) == [high |-> high, delay |-> RoundUp5(2 * Bigger(high.p999, high.p99))]
Watermark(e4) ==
    IF Measured(e4.withoutGaps) = {} THEN NoValue ELSE Lateness(Highest(e4.withoutGaps))
PivotTolerance(e4) ==
    IF DOMAIN e4.skew = {} THEN NoValue
    ELSE Max({1} \cup {e4.skew[d].absP99 : d \in DOMAIN e4.skew})
WatchedVerdict(agg, e2) ==
    LET days == IF WatchedDevice \in DOMAIN e2.presence THEN Cardinality(e2.presence[WatchedDevice]) ELSE 0
    IN  IF days = 0 THEN "absent" ELSE IF 2 * days < Cardinality(DateRange(agg)) THEN "intermittent"
        ELSE "present"

(* Q3 and Q4: which devices are there, what to do with the accelerometer.    *)
RarelyPresent(agg, e2) ==
    {d \in DOMAIN e2.presence : 2 * Cardinality(e2.presence[d]) < Cardinality(DateRange(agg))}
AccelerometerVerdict(e3) ==
    CASE e3.accelZero + e3.accelNonzero = 0 -> "unknown"
      [] e3.accelZero > 0 /\ e3.accelNonzero = 0 -> "sideChannel"
      [] OTHER -> "conflict"

(* Q5: the channels a robust scaler cannot scale, and which are constant.    *)
Bypassed(views, e3) ==
    [c \in e3.degenerate |-> views.byDS[c].min = views.byDS[c].max]

(* Q7: of the devices with the longest gap the one whose first gap came first.*)
WorstDevice(agg) ==
    LET gaps == agg.gapSummary
    IN  Head(StableSort(agg.gapKeys, LAMBDA d, e : gaps[d].max > gaps[e].max))
GapProfile(agg) ==
    LET gaps == agg.gapSummary
    IN  IF DOMAIN gaps = {} \/ Span(agg) = 0 THEN NoValue
        ELSE [longest |-> gaps[WorstDevice(agg)].max, of |-> WorstDevice(agg),
              share |-> <<SumFunction([d \in DOMAIN gaps |-> gaps[d].total]),
                          Span(agg) * Cardinality(DOMAIN gaps)>>,
              segments |-> SumFunction([d \in DOMAIN gaps |-> gaps[d].count])]

(* Q8: the channels that move most from month to month.                      *)
ByMean(ks, mean) == StableSort(KsChannels(ks), LAMBDA c, d : Less(mean[d], mean[c]))
ShiftRanking(e5) ==
    [rank |-> ByMean(e5.ks, MeanKs(e5.ks)), mean |-> MeanKs(e5.ks),
     max |-> [ch \in DOMAIN e5.ks |-> e5.ks[ch][Strongest(e5.ks[ch])]],
     months |-> [ch \in DOMAIN e5.ks |-> Strongest(e5.ks[ch])]]

AnswerEight(agg, views, e2, e3, e4, e5) ==
    [watermark |-> Watermark(e4), tolerance |-> PivotTolerance(e4),
     watched |-> WatchedVerdict(agg, e2), lowPresence |-> RarelyPresent(agg, e2),
     accelerometer |-> AccelerometerVerdict(e3), bypass |-> Bypassed(views, e3),
     mic |-> <<MicTotals(e3), e3.micByMonth>>, gaps |-> GapProfile(agg),
     ranking |-> ShiftRanking(e5)]

(* The whole report with the lists beside it; NoValue when it dies in the     *)
(* eight questions.                                                          *)
Sections(agg, views, e2, e3, e5) ==
    <<InventorySection(agg), CompletenessSection(agg, e2), NumericSection(agg, views, e3),
      DriftSection(e5), RobustnessSection(agg)>>
Verdicts(agg, facts) == [facts |-> facts, conflicts |-> Conflicts(facts), rescan |-> Rescan(agg)]
Compared(baseline, digest) ==
    [digest |-> digest,
     diff |-> IF baseline = NoValue THEN NoValue ELSE DiffDigests(baseline, digest)]
WriteReport(agg, baseline, views, e2, e3, e4, e5) ==
    IF Dies(e4) THEN NoValue
    ELSE [e1 |-> EmitE1(agg), e2 |-> e2, e3 |-> e3, e4 |-> e4, e5 |-> e5,
          files |-> WriteInventory(agg), unmatched |-> WriteUnmatched(agg),
          text |-> Sections(agg, views, e2, e3, e5),
          verdicts |-> Verdicts(agg, CheckDataFacts(agg, views, e2, e3, e4)),
          compared |-> Compared(baseline, Digest(agg, e4, e5)),
          answers |-> AnswerEight(agg, views, e2, e3, e4, e5)]
RenderReport(agg, baseline, views) ==
    WriteReport(agg, baseline, views, EmitE2(agg), EmitE3(agg, views), EmitE4(agg),
                EmitE5(agg, views))
Report(agg, baseline) == RenderReport(agg, baseline, RollUp(agg))
=============================================================================
