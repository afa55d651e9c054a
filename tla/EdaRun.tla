---------------------------- MODULE EdaRun ----------------------------
(* The dataset scan as it runs (src/eda/run_eda.py): a pool of workers takes  *)
(* the files in listing order, reuses or computes each payload and caches it; *)
(* the main process adds the payloads in whatever order they come back.  A    *)
(* run can be interrupted anywhere and repeated over the cache; the data      *)
(* directory may change under it.                                             *)
(*                                                                            *)
(* A payload is kept as what it is computed from: the size and mtime taken    *)
(* before the file was opened, the version of the content that was then       *)
(* read, and what became of the reading; Payload computes it.                 *)
EXTENDS EdaReport

CONSTANTS
    Files,           \* 1 .. n, in listing order (by relative path)
    Versions,        \* file -> the contents it has in turn; Gone is no file
    Gone,
    Workers, MaxRuns, MaxFaults,
    Starts,          \* the states of the data directory to begin with
    Options          \* command lines: [resume, sampling, limit]; limit 0 is none

ASSUME RunConstants ==
    /\ Workers \in Nat \ {0} /\ MaxRuns \in Nat /\ MaxFaults \in Nat
    /\ \A f \in Files :
          /\ Len(Versions[f]) \in Nat /\ DOMAIN Versions[f] = 1 .. Len(Versions[f])
          /\ \A v \in DOMAIN Versions[f] : Versions[f][v] # Gone => Len(Versions[f][v].lines) \in Nat
    /\ \A d \in Starts : DOMAIN d = Files /\ \A f \in Files : d[f] \in DOMAIN Versions[f]
    /\ \A o \in Options : o.resume \in BOOLEAN /\ o.sampling \in BOOLEAN /\ o.limit \in Nat

VARIABLES
    disk,            \* file -> index into Versions, which is also its mtime
    cache,           \* file -> the payload in _cache, NoValue when there is none
    run,             \* number, phase and options of the run
    job,             \* file -> how far the task of the file is
    added,           \* the payloads given to agg.add so far, in order
    written,         \* the payloads behind aggregate.json, and behind the one before
    faults           \* reads and writes that failed and files that changed so far
vars == <<disk, cache, run, job, added, written, faults>>

Content(f) == Versions[f][disk[f]]
Exists(f) == Content(f) # Gone

Compute(r) ==
    IF r.outcome = "gone" THEN Failed(EmptyPayload(r.file, 0, 0), "stat failed")
    ELSE IF r.outcome = "unreadable"
         THEN Failed(EmptyPayload(r.file, r.bytes, r.mtime), "read failed")
    ELSE ScanContent(r.file, r.bytes, r.mtime, Versions[r.file][r.version],
                     r.outcome = "read", r.skew)

(* Tabulated, for every reading a task can make: the size and mtime are those*)
(* of version m, what is read is version v.                                  *)
Present(f) == {v \in DOMAIN Versions[f] : Versions[f][v] # Gone}
Ref(f, bytes, mtime, version, outcome, skew) ==
    [file |-> f, bytes |-> bytes, mtime |-> mtime, version |-> version, outcome |-> outcome,
     skew |-> skew]
ReadingsOf(f) ==
    {Ref(f, 0, 0, 0, "gone", k) : k \in BOOLEAN} \cup
    {Ref(f, Bytes(Versions[f][m]), m, v, o, k) :
        m \in Present(f), v \in Present(f), k \in BOOLEAN, o \in {"read", "unparsed"}} \cup
    {Ref(f, Bytes(Versions[f][m]), m, v, "unreadable", k) :
        m \in Present(f), v \in DOMAIN Versions[f], k \in BOOLEAN}
Readings == UNION {ReadingsOf(f) : f \in Files}
PayloadOf == [r \in Readings |-> Compute(r)]
Payload(r) == PayloadOf[r]

NoJob == [at |-> "none"]
Tasks == {f \in Files : job[f].at # "none"}
At(f, p) == job[f].at = p
Queued == {f \in Files : At(f, "queued")}
Active == {f \in Files : job[f].at \in {"scan", "open", "save"}}

(* The first file of each day in the names.                                  *)
SkewSample(listed) ==
    {f \in listed : /\ Parsed(f)
                    /\ \A g \in listed : Parsed(g) /\ Names[g].day = Names[f].day => f <= g}

----------------------------------------------------------------------------
Init ==
    /\ disk \in Starts
    /\ cache = [f \in Files |-> NoValue]
    /\ run = [number |-> 0, phase |-> "idle", resume |-> TRUE, sampled |-> {}]
    /\ job = [f \in Files |-> NoJob]
    /\ added = <<>>
    /\ written = [now |-> NoValue, before |-> NoValue]
    /\ faults = 0

(* main up to the pool: list everything, cut to the limit, select, queue.    *)
Start(o) ==
    LET present == {f \in Files : Exists(f)}
        listed == {f \in present : \/ o.limit = 0
                                   \/ Cardinality({g \in present : g <= f}) <= o.limit}
    IN  /\ run.phase = "idle" /\ run.number < MaxRuns
        /\ listed # {}
        /\ run' = [number |-> run.number + 1, phase |-> "running", resume |-> o.resume,
                   sampled |-> IF o.sampling THEN SkewSample(listed) ELSE {}]
        /\ job' = [f \in Files |-> IF f \in listed THEN [at |-> "queued"] ELSE NoJob]
        /\ added' = <<>>
        /\ UNCHANGED <<disk, cache, written, faults>>

(* load_cached.                                                              *)
Matches(r, f) == r.mtime = disk[f] /\ r.bytes = Bytes(Content(f))
Usable(f) ==
    /\ Exists(f) /\ cache[f] # NoValue
    /\ Matches(cache[f], f)
    /\ ~ /\ f \in run.sampled
         /\ Payload(cache[f]).ok /\ Payload(cache[f]).skew = NoValue

(* A free worker takes the next task.                                        *)
Take(f) ==
    /\ run.phase = "running" /\ f \in Queued /\ \A g \in Queued : f <= g
    /\ Cardinality(Active) < Workers
    /\ job' = [job EXCEPT ![f] =
                  IF run.resume /\ Usable(f) THEN [at |-> "done", payload |-> cache[f]]
                  ELSE [at |-> "scan"]]
    /\ UNCHANGED <<disk, cache, run, added, written, faults>>

(* _base_payload: size and mtime, before the file is opened.                 *)
Sampled(f) == f \in run.sampled
Stat(f) ==
    /\ At(f, "scan")
    /\ job' = [job EXCEPT ![f] =
                  IF Exists(f) THEN [at |-> "open", bytes |-> Bytes(Content(f)), mtime |-> disk[f]]
                  ELSE [at |-> "save", payload |-> Ref(f, 0, 0, 0, "gone", Sampled(f))]]
    /\ UNCHANGED <<disk, cache, run, added, written, faults>>

(* The file is opened and read; an empty one never is.                       *)
ReadAs(f, outcome) ==
    [at |-> "save", payload |-> Ref(f, job[f].bytes, job[f].mtime, disk[f], outcome, Sampled(f))]
Read(f) ==
    /\ At(f, "open")
    /\ \/ /\ Exists(f) \/ job[f].bytes = 0
          /\ job' = [job EXCEPT ![f] =
                        IF job[f].bytes = 0
                        THEN [at |-> "save", payload |-> Ref(f, 0, job[f].mtime, job[f].mtime, "read",
                                                         Sampled(f))]
                        ELSE ReadAs(f, "read")]
          /\ UNCHANGED faults
       \/ /\ ~Exists(f) /\ job[f].bytes > 0
          /\ job' = [job EXCEPT ![f] = ReadAs(f, "unreadable")]
          /\ UNCHANGED faults
       \/ /\ Exists(f) /\ job[f].bytes > 0 /\ faults < MaxFaults
          /\ \E o \in {"unreadable", "unparsed"} : job' = [job EXCEPT ![f] = ReadAs(f, o)]
          /\ faults' = faults + 1
    /\ UNCHANGED <<disk, cache, run, added, written>>

(* write_cache: the entry is replaced at once, or stays as it was.           *)
SaveRestat(f) ==                        \* mutant: size and mtime are taken again
    /\ At(f, "save")
    /\ job' = [job EXCEPT ![f] = [at |-> "done", payload |-> job[f].payload]]
    /\ \/ /\ cache' = [cache EXCEPT ![f] =
                  IF Exists(f) /\ job[f].payload.outcome # "gone"
                  THEN [job[f].payload EXCEPT !.mtime = disk[f], !.bytes = Bytes(Content(f))]
                  ELSE job[f].payload]
          /\ UNCHANGED faults
       \/ /\ faults < MaxFaults
          /\ faults' = faults + 1
          /\ UNCHANGED cache
    /\ UNCHANGED <<disk, run, added, written>>
Save(f) ==
    /\ At(f, "save")
    /\ job' = [job EXCEPT ![f] = [at |-> "done", payload |-> job[f].payload]]
    /\ \/ /\ cache' = [cache EXCEPT ![f] = job[f].payload]
          /\ UNCHANGED faults
       \/ /\ faults < MaxFaults
          /\ faults' = faults + 1
          /\ UNCHANGED cache
    /\ UNCHANGED <<disk, run, added, written>>

(* imap_unordered hands over any finished task.                              *)
Collect(f) ==
    /\ At(f, "done")
    /\ added' = Append(added, job[f].payload)
    /\ job' = [job EXCEPT ![f] = [at |-> "added"]]
    /\ UNCHANGED <<disk, cache, run, written, faults>>

(* The aggregate is finalized and the outputs are written.                   *)
Finish ==
    /\ run.phase = "running" /\ \A f \in Tasks : At(f, "added")
    /\ written' = [now |-> added, before |-> written.now]
    /\ run' = [run EXCEPT !.phase = "finished"]
    /\ UNCHANGED <<disk, cache, job, added, faults>>

(* report_gen reads aggregate.json, with the earlier one as its baseline.    *)
Render ==
    /\ run.phase = "finished"
    /\ run' = [run EXCEPT !.phase = "idle"]
    /\ job' = [f \in Files |-> NoJob]
    /\ added' = <<>>
    /\ UNCHANGED <<disk, cache, written, faults>>

(* Ctrl-C or a crash: the workers die, nothing is written.                   *)
Interrupt ==
    /\ run.phase = "running"
    /\ run' = [run EXCEPT !.phase = "idle"]
    /\ job' = [f \in Files |-> NoJob]
    /\ added' = <<>>
    /\ UNCHANGED <<disk, cache, written, faults>>

(* Somebody rewrites, adds or removes a file.                                *)
Change(f) ==
    /\ run.phase # "finished" /\ disk[f] < Len(Versions[f]) /\ faults < MaxFaults
    /\ disk' = [disk EXCEPT ![f] = @ + 1]
    /\ faults' = faults + 1
    /\ UNCHANGED <<cache, run, job, added, written>>

Step(f) == Take(f) \/ Stat(f) \/ Read(f) \/ Save(f) \/ Collect(f)
Next ==
    \/ \E o \in Options : Start(o)
    \/ \E f \in Files : Step(f) \/ Change(f)
    \/ Finish \/ Render \/ Interrupt
Spec == Init /\ [][Next]_vars

----------------------------------------------------------------------------
AddedUp(payloads) ==
    LET upTo[n \in 0 .. Len(payloads)] ==
            IF n = 0 THEN NewAggregator ELSE Add(upTo[n - 1], Payload(payloads[n]))
    IN  upTo[Len(payloads)]
Aggregate(payloads) == Finalize(AddedUp(payloads))
Finished == run.phase = "finished"

(* Of every file of the run one row is kept and one outcome is counted, the  *)
(* bytes add up and no file whose name is not understood disappears, however *)
(* the run before was cut short.                                             *)
AccountsFor(a, tasks) ==
    /\ Len(a.inventory) = Cardinality(tasks)
    /\ {a.inventory[i].file : i \in DOMAIN a.inventory} = tasks
    /\ a.total = Cardinality(tasks) /\ Accounted(a) = a.total
    /\ Total(a.errors) = a.total - a.outcome["ok"]
    /\ Len(a.unmatched) = Cardinality({f \in tasks : NameClass(f) = "unmatched"})
    /\ a.bytesData + a.bytesNonData = a.bytesTotal
    /\ Total(a.nameClasses) = a.total /\ Total(a.patterns) = a.total
EveryFileAccounted == Finished => AccountsFor(Aggregate(written.now), Tasks)

(* A cache entry that a later run would take for the file as it is now was   *)
(* computed from the file as it is now, or says that it could not be read.   *)
CacheIsFresh == \A f \in Files :
    cache[f] # NoValue /\ Exists(f) /\ Matches(cache[f], f) =>
        cache[f].version = disk[f]

----------------------------------------------------------------------------
(* The aggregate computed from all rows at once, without partial results.    *)
UsableRows(r) ==
    SelectSeq(LinesRead(Versions[r.file][r.version], r.bytes),
              LAMBDA ln : /\ ln.fields \in 1 .. 4 /\ ln.time # NoValue
                          /\ ln.dev # NoValue /\ ln.sensor # NoValue)
Good(payloads) == {i \in DOMAIN payloads : Payload(payloads[i]).ok}
Numbered(i, rows) == {[at |-> <<i, j>>, row |-> rows[j]] : j \in DOMAIN rows}
RowsOf(payloads, good) == UNION {Numbered(i, UsableRows(payloads[i])) : i \in good}
TimesIn(rows, d, i) == {x.row.time : x \in {y \in rows : y.row.dev = d /\ y.at[1] = i}}
TimesOf(rows, d) == {x.row.time : x \in {y \in rows : y.row.dev = d}}
ValuesOf(rows, c) ==
    LET mine == {x \in rows : /\ x.row.value # NoValue /\ x.row.value \notin Sentinels
                              /\ c = <<LocalMonth(x.row.time), x.row.dev, x.row.sensor>>}
    IN  [x \in mine |-> x.row.value]

(* No two files of the device overlap or touch.                              *)
Apart(rows, good, d) == \A i, j \in good :
    i # j /\ TimesIn(rows, d, i) # {} /\ TimesIn(rows, d, j) # {} =>
        \/ Max(TimesIn(rows, d, i)) < Min(TimesIn(rows, d, j))
        \/ Max(TimesIn(rows, d, j)) < Min(TimesIn(rows, d, i))
GapsAreExact(summary, durs) ==
    /\ summary.count = Cardinality(DOMAIN durs) /\ summary.total = SumFunction(durs)
    /\ summary.max = Max({0} \cup Range(durs))
RhythmIs(a, d, e) ==
    /\ a.interarrival[d] = e.ia /\ a.roundsTotal[d] = e.n
    /\ GapsAreExact(SummaryOf(a.gapSummary, d), [g \in e.gaps |-> g.end - g.start])
RhythmIsExact(a, rows, d) == RhythmIs(a, d, RoundsEntry(TimesOf(rows, d)))

(* The true q-quantile of the values lies within a bin of the reported one.  *)
TrueQuantile(values, q) ==
    Min({v \in Range(values) : Cardinality({x \in DOMAIN values : values[x] <= v}) * q[2]
                                   >= q[1] * Cardinality(DOMAIN values)})
Near(reported, true, width) == Abs(true * reported[2] - reported[1]) <= width * reported[2]
WithinBin(values, hist, ch, q) ==
    Near(HistQuantile(hist, ch, q), TrueQuantile(values, q), BinSpec[ch].width)

(* The aggregate of the partial results, merged in the order they came and   *)
(* stitched at the end, is that of all rows at once: exact moments and       *)
(* histograms, quantiles within a bin, the intervals and gaps across files   *)
(* that lie apart, every boundary counted once, no round inside a gap between*)
(* files, and a clock measurement of every selected file with two devices.   *)
CellIs(a, c, values) ==
    /\ a.stats[c] = WelfordFromArray(values) /\ a.hist[c] = HistFromArray(values, c[3])
    /\ WithinBin(values, a.hist[c], c[3], <<1, 2>>)
SkewIsTaken(payloads, rows, good) == \A i \in good :
    /\ payloads[i].file \in run.sampled
    /\ Cardinality({x.row.dev : x \in {y \in rows : y.at[1] = i}}) > 1
    => Payload(payloads[i]).skew # NoValue
GapsAreEmpty(a, rows) == \A g \in a.gapHeap :
    g.file = NoValue => \A t \in TimesOf(rows, g.dev) : t <= g.start \/ g.end <= t
RhythmsAre(a, rows, good, devs) ==
    /\ DOMAIN a.roundsTotal = devs
    /\ \A d \in devs : Apart(rows, good, d) => RhythmIsExact(a, rows, d)
    /\ a.folded + a.overlaps =
          SumFunction([d \in devs |-> Cardinality({i \in good : TimesIn(rows, d, i) # {}}) - 1])
IsExact(a, payloads, rows, good) ==
    /\ \A c \in DOMAIN a.stats : CellIs(a, c, ValuesOf(rows, c))
    /\ RhythmsAre(a, rows, good, {x.row.dev : x \in rows})
    /\ SkewIsTaken(payloads, rows, good)
    /\ GapsAreEmpty(a, rows)
AggregateIsExact == Finished =>
    \A good \in {Good(written.now)} :
        IsExact(Aggregate(written.now), written.now, RowsOf(written.now, good), good)

(* The order the workers finished in shows in the report only where the code *)
(* keeps what came first:                                                    *)
(*   - which of the gaps as long as the shortest one listed are listed, when *)
(*     there are more gaps than rows (merge.py:269);                         *)
(*   - which accelerometer records survive the cap, which the report says    *)
(*     (merge.py:332-337);                                                   *)
(*   - failures of equal count, in the table of reasons (report.py:1376);    *)
(*   - which of several devices with the longest gap is named (report.py:1596)*)
(* Not shown by the model: rows of one gap that two files hold come in the   *)
(* order of the heap, and sums of floats depend on their order.              *)
InListingOrder(payloads) == SortSeq(payloads, LAMBDA r, s : r.file < s.file)
DigestOf(a) == Digest(a, EmitE4(a), EmitE5(a, RollUp(a)))
Baseline == IF written.before = NoValue THEN NoValue ELSE DigestOf(Aggregate(written.before))
GapsFound(agg) == SumFunction([d \in DOMAIN agg.gapSummary |-> agg.gapSummary[d].count])
SettledGaps(agg) ==
    {g \in agg.gapHeap : \/ GapsFound(agg) <= GapsTopN
                         \/ \E h \in agg.gapHeap : Dur(h) < Dur(g)}
SeveralWorst(agg) ==
    \E d, e \in DOMAIN agg.gapSummary :
        d # e /\ \A f \in DOMAIN agg.gapSummary : /\ agg.gapSummary[f].max <= agg.gapSummary[d].max
                                                 /\ agg.gapSummary[f].max <= agg.gapSummary[e].max
Comparable(report, agg) ==
    IF report = NoValue THEN NoValue
    ELSE [report EXCEPT
            !.e2.longestGaps = [rows |-> Cardinality(@), durs |-> {Dur(g) : g \in @},
                                settled |-> SettledGaps(agg)],
            !.e3.accelRecords = IF agg.accelRecordsTruncated THEN Len(@) ELSE @,
            !.text[5].errors = [rows |-> Range(@), counts |-> [i \in DOMAIN @ |-> @[i][2]]],
            !.answers.gaps = IF SeveralWorst(agg) THEN [@ EXCEPT !.of = NoValue] ELSE @]
Shown(agg, baseline) == Comparable(Report(agg, baseline), agg)
ReportIsOrderFree == Finished =>
    \A baseline \in {Baseline} :
        Shown(Aggregate(written.now), baseline)
            = Shown(Aggregate(InListingOrder(written.now)), baseline)

(* What merge.py:263-265 says: the list of the longest gaps is the same      *)
(* however the payloads arrive.  TLC refutes it: a gap as long as the        *)
(* shortest one listed does not displace it, so the earlier of the two stays.*)
GapsTopIsReproducible == Finished =>
    Aggregate(written.now).gapHeap = Aggregate(InListingOrder(written.now)).gapHeap
=============================================================================
