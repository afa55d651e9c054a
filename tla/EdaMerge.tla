---------------------------- MODULE EdaMerge ----------------------------
(* The whole-dataset aggregate: payloads are added one at a time, in the      *)
(* order the worker pool returns them, and finalize stitches the boundaries   *)
(* between files (src/eda/edalib/merge.py, class Aggregator).                 *)
EXTENDS EdaScan

CONSTANTS
    Names,           \* file -> [stamped, dashed, suffix, day]: is it a date and time and
                     \* .csv, with a separator in the time, with _data; day is NoValue
                     \* when there is no such date
    GapHistEdges,    \* set of bucket edges
    GapsTopN, AccelCapTotal

ASSUME MergeConstants == GapsTopN \in Nat \ {0} /\ AccelCapTotal \in Nat

Outcomes == {"ok", "failed", "nonData"}

(* What a name says of a file; it never decides whether the file is read.    *)
Parsed(f) == Names[f].stamped /\ Names[f].day # NoValue
Pattern(f) ==
    CASE ~Parsed(f) -> "unparsed"
      [] Parsed(f) /\ Names[f].dashed -> IF Names[f].suffix THEN "dashed_data" ELSE "dashed_plain"
      [] OTHER -> IF Names[f].suffix THEN "compact_data" ELSE "compact_plain"
DashedClasses == {"dashed_data", "dashed_plain"}
NameClass(f) == IF Pattern(f) \in DashedClasses THEN Pattern(f) ELSE "unmatched"

(* The tables whose order shows in the report or decides it are written out   *)
(* and read in the order their keys first came: that of failures, of the     *)
(* devices' segments and of the gap summaries.                               *)
NewAggregator ==
    [total |-> 0, outcome |-> [o \in Outcomes |-> 0],
     bytesTotal |-> 0, bytesData |-> 0, bytesNonData |-> 0,
     linesRaw |-> 0, parsed |-> 0, malformed |-> 0, badTime |-> 0, badKey |-> 0, badValue |-> 0,
     withHeader |-> 0, withoutHeader |-> 0, accelTruncatedFiles |-> 0, skewSampled |-> 0,
     nameClasses |-> NoCounts, patterns |-> NoCounts, unmatched |-> <<>>, errors |-> NoCounts,
     errorKeys |-> <<>>, weekly |-> NoCounts, timeMin |-> NoValue, timeMax |-> NoValue,
     stats |-> NoCounts, hist |-> NoCounts, nan |-> NoCounts, sentinel |-> NoCounts,
     oor |-> NoCounts, uptime |-> NoCounts, daily |-> NoCounts,
     interarrival |-> NoCounts, roundSize |-> NoCounts, roundsTotal |-> NoCounts,
     segments |-> NoCounts, segmentKeys |-> <<>>, dupExtra |-> 0, dupKeys |-> 0,
     accelZero |-> NoCounts, accelNonzero |-> NoCounts, accelRecords |-> <<>>,
     accelRecordsTruncated |-> FALSE,
     skewHist |-> NoCounts, skewOutside |-> NoCounts, skewRefs |-> NoCounts,
     gapHeap |-> {}, gapSummary |-> NoCounts, gapKeys |-> <<>>,
     inventory |-> <<>>,
     folded |-> 0, overlaps |-> 0]

One(k) == [x \in {k} |-> 1]
Noted(keys, new) == keys \o SelectSeq(new, LAMBDA k : k \notin Range(keys))

----------------------------------------------------------------------------
(* Every gap counts in the device's summary; the list keeps the longest.     *)
(* A gap as long as the shortest one kept does not displace it.              *)
NoGaps == [count |-> 0, total |-> 0, max |-> 0, hist |-> NoCounts]
GapBucket(dur) == Cardinality({e \in GapHistEdges : e <= dur})
SummaryOf(summary, dev) == IF dev \in DOMAIN summary THEN summary[dev] ELSE NoGaps
Dur(g) == g.end - g.start
Before(g, h) == g.dev < h.dev \/ (g.dev = h.dev /\ g.start < h.start)
FileBefore(g, h) == h.file # NoValue /\ (g.file = NoValue \/ g.file < h.file)
HeapLess(g, h) ==        \* tuple order (dur, dev, start, end, kind, file)
    \/ Dur(g) < Dur(h)
    \/ /\ Dur(g) = Dur(h)
       /\ \/ Before(g, h)
          \/ g.dev = h.dev /\ g.start = h.start /\ FileBefore(g, h)
HeapMin(heap) == CHOOSE g \in heap : \A h \in heap : g = h \/ HeapLess(g, h)

Summarize(summary, g) ==
    LET s == SummaryOf(summary, g.dev)
    IN  (g.dev :> [count |-> s.count + 1, total |-> s.total + Dur(g),
                   max |-> Bigger(s.max, Dur(g)),
                   hist |-> CounterMerge(s.hist, One(GapBucket(Dur(g))))]) @@ summary

KeepLongest(heap, g) ==
    IF Cardinality(heap) < GapsTopN THEN heap \cup {g}
    ELSE IF Dur(g) > Dur(HeapMin(heap)) THEN (heap \ {HeapMin(heap)}) \cup {g}
    ELSE heap

GapsSeen(agg) == [summary |-> agg.gapSummary, keys |-> agg.gapKeys, heap |-> agg.gapHeap]
RecordGap(g, seen) == [summary |-> Summarize(seen.summary, g), keys |-> Noted(seen.keys, <<g.dev>>),
                       heap |-> KeepLongest(seen.heap, g)]
WithGaps(agg, seen) ==
    [agg EXCEPT !.gapSummary = seen.summary, !.gapKeys = seen.keys, !.gapHeap = seen.heap]

(* A file's own gaps are recorded device by device, in the order the devices *)
(* come in the file, and those of a device in time order.                    *)
GapsOf(p, d) ==
    SetToSortSeq({[dev |-> d, start |-> g.start, end |-> g.end, file |-> p.file] :
                      g \in p.rounds[d].gaps}, Before)
RecordGaps(p, seen) ==
    FoldLeft(LAMBDA s, d : FoldLeft(LAMBDA t, g : RecordGap(g, t), s, GapsOf(p, d)), seen, p.devices)

----------------------------------------------------------------------------
UnmatchedRow(p) == [file |-> p.file, isData |-> p.isData, included |-> p.ok /\ p.isData,
                    bytes |-> p.bytes, parsed |-> p.parsed, reason |-> p.error]
InventoryRow(p) == [file |-> p.file, class |-> NameClass(p.file), bytes |-> p.bytes,
                    ok |-> p.ok, isData |-> p.isData, error |-> p.error,
                    parsed |-> p.parsed, malformed |-> p.malformed,
                    timeMin |-> p.timeMin, timeMax |-> p.timeMax, nRounds |-> p.nRounds,
                    nDevices |-> Cardinality(DOMAIN p.rounds), skewSampled |-> p.skew # NoValue]

OutcomeOf(p) == IF p.ok THEN "ok" ELSE IF p.isData THEN "failed" ELSE "nonData"

(* What every payload counts for, whatever became of the file.               *)
CountFileReadable(agg, p) ==            \* mutant: an unusable file is not listed
    LET data == p.ok \/ p.isData
    IN  [agg EXCEPT
          !.total = @ + 1, !.outcome[OutcomeOf(p)] = @ + 1,
          !.bytesTotal = @ + p.bytes,
          !.bytesData = @ + (IF data THEN p.bytes ELSE 0),
          !.bytesNonData = @ + (IF data THEN 0 ELSE p.bytes),
          !.nameClasses = CounterMerge(@, One(NameClass(p.file))),
          !.patterns = CounterMerge(@, One(Pattern(p.file))),
          !.unmatched = IF p.ok /\ NameClass(p.file) = "unmatched" THEN Append(@, UnmatchedRow(p)) ELSE @,
          !.errors = IF p.ok THEN @ ELSE CounterMerge(@, One(p.error)),
          !.errorKeys = IF p.ok THEN @ ELSE Noted(@, <<p.error>>),
          !.inventory = Append(@, InventoryRow(p))]
CountFile(agg, p) ==
    LET data == p.ok \/ p.isData
    IN  [agg EXCEPT
          !.total = @ + 1, !.outcome[OutcomeOf(p)] = @ + 1,
          !.bytesTotal = @ + p.bytes,
          !.bytesData = @ + (IF data THEN p.bytes ELSE 0),
          !.bytesNonData = @ + (IF data THEN 0 ELSE p.bytes),
          !.nameClasses = CounterMerge(@, One(NameClass(p.file))),
          !.patterns = CounterMerge(@, One(Pattern(p.file))),
          !.unmatched = IF NameClass(p.file) = "unmatched" THEN Append(@, UnmatchedRow(p)) ELSE @,
          !.errors = IF p.ok THEN @ ELSE CounterMerge(@, One(p.error)),
          !.errorKeys = IF p.ok THEN @ ELSE Noted(@, <<p.error>>),
          !.inventory = Append(@, InventoryRow(p))]

AddSums(a, b) == [n |-> a.n + b.n, sum |-> a.sum + b.sum]
AddRecords(have, p) ==
    have \o [i \in 1 .. Smaller(Len(p.accelRecords), AccelCapTotal - Len(have)) |->
                 p.accelRecords[i] @@ ("file" :> p.file)]
Widen(t, new, pick(_, _)) == IF t = NoValue THEN new ELSE pick(t, new)
AddSkew(agg, skew) ==
    IF skew = NoValue THEN agg
    ELSE [agg EXCEPT !.skewSampled = @ + 1, !.skewRefs = CounterMerge(@, One(skew.ref)),
                     !.skewHist = TableMerge(@, skew.hist, CounterMerge),
                     !.skewOutside = CounterMerge(@, skew.outside)]

(* What the payload of a usable file adds: lines, values and rhythm.         *)
MergeLines(agg, p) ==
    [agg EXCEPT
      !.linesRaw = @ + p.linesRaw, !.parsed = @ + p.parsed, !.malformed = @ + p.malformed,
      !.badTime = @ + p.badTime, !.badKey = @ + p.badKey, !.badValue = @ + p.badValue,
      !.withHeader = @ + (IF p.hasHeader THEN 1 ELSE 0),
      !.withoutHeader = @ + (IF p.hasHeader THEN 0 ELSE 1),
      !.accelTruncatedFiles = @ + (IF p.accelTruncated THEN 1 ELSE 0),
      !.timeMin = Widen(@, p.timeMin, Smaller), !.timeMax = Widen(@, p.timeMax, Bigger),
      !.weekly = CounterMerge(@, One(LocalWeek(p.timeMin)))]
MergeValues(agg, p) ==
    [agg EXCEPT
      !.stats = TableMerge(@, p.stats, WelfordMerge),
      !.hist = TableMerge(@, p.hist, CounterMerge),
      !.nan = CounterMerge(@, p.nan), !.sentinel = CounterMerge(@, p.sentinel),
      !.oor = CounterMerge(@, p.oor), !.uptime = CounterMerge(@, p.uptime),
      !.daily = TableMerge(@, p.daily, AddSums),
      !.dupExtra = @ + p.dupExtra, !.dupKeys = @ + p.dupKeys,
      !.accelZero = CounterMerge(@, p.accelZero),
      !.accelNonzero = CounterMerge(@, p.accelNonzero),
      !.accelRecordsTruncated = @ \/ Len(agg.accelRecords) + Len(p.accelRecords) > AccelCapTotal,
      !.accelRecords = AddRecords(@, p)]
MergeRounds(agg, p) ==
    [agg EXCEPT
      !.interarrival = TableMerge(@, [d \in DOMAIN p.rounds |-> p.rounds[d].ia], CounterMerge),
      !.roundsTotal = CounterMerge(@, [d \in DOMAIN p.rounds |-> p.rounds[d].n]),
      !.segments = TableMerge(@, [d \in DOMAIN p.rounds |->
                      <<[first |-> p.rounds[d].first, last |-> p.rounds[d].last]>>],
                      LAMBDA a, b : a \o b),
      !.segmentKeys = Noted(@, p.devices),
      !.roundSize = TableMerge(@, p.roundSize, CounterMerge)]
MergeData(agg, p) == MergeRounds(MergeValues(MergeLines(agg, p), p), p)

Add(agg, p) ==
    IF p.ok THEN AddSkew(WithGaps(MergeData(CountFile(agg, p), p),
                                  RecordGaps(p, GapsSeen(agg))), p.skew)
    ELSE CountFile(agg, p)

----------------------------------------------------------------------------
(* The boundaries between one device's files, in time order.  The last time  *)
(* seen so far is a maximum: a file may lie inside an earlier one.           *)
SegmentOrder(a, b) == a.first < b.first \/ (a.first = b.first /\ a.last < b.last)
InArrivalOrder(segs) == segs            \* mutant: stitched without the sort
InOrder(segs) == SortSeq(segs, SegmentOrder)

Interval(delta) == One(Smaller(delta, OverflowBin))
StitchOneToLast(dev, seg, s) ==         \* mutant: the last file, not the latest round
    LET delta == seg.first - s.last
        gap == [dev |-> dev, start |-> s.last, end |-> seg.first, file |-> NoValue]
    IN  IF s.last = NoValue THEN [s EXCEPT !.last = seg.last]
        ELSE IF delta < 0 THEN [s EXCEPT !.overlaps = @ + 1, !.last = seg.last]
        ELSE [s EXCEPT !.interarrival[dev] = CounterMerge(@, Interval(delta)), !.folded = @ + 1,
                       !.gaps = IF delta > GapThreshold THEN RecordGap(gap, @) ELSE @,
                       !.last = seg.last]
StitchOne(dev, seg, s) ==
    LET delta == seg.first - s.last
        gap == [dev |-> dev, start |-> s.last, end |-> seg.first, file |-> NoValue]
    IN  IF s.last = NoValue THEN [s EXCEPT !.last = seg.last]
        ELSE IF delta < 0 THEN [s EXCEPT !.overlaps = @ + 1, !.last = Bigger(@, seg.last)]
        ELSE [s EXCEPT !.interarrival[dev] = CounterMerge(@, Interval(delta)), !.folded = @ + 1,
                       !.gaps = IF delta > GapThreshold THEN RecordGap(gap, @) ELSE @,
                       !.last = Bigger(@, seg.last)]

StitchDevice(segs, dev, s) ==
    FoldLeft(LAMBDA t, seg : StitchOne(dev, seg, t), [s EXCEPT !.last = NoValue], InOrder(segs))

SortRecords(records) ==
    SortSeq(records, LAMBDA r, q : \/ r.time < q.time
                                   \/ r.time = q.time /\ r.dev < q.dev
                                   \/ r.time = q.time /\ r.dev = q.dev /\ r.file < q.file)

Stitched(agg) ==
    FoldLeft(LAMBDA s, d : StitchDevice(agg.segments[d], d, s),
             [interarrival |-> agg.interarrival, gaps |-> GapsSeen(agg), folded |-> 0,
              overlaps |-> 0, last |-> NoValue], agg.segmentKeys)
Closed(agg, end) ==
    [WithGaps(agg, end.gaps) EXCEPT !.interarrival = end.interarrival, !.folded = end.folded,
        !.overlaps = end.overlaps, !.accelRecords = SortRecords(@)]
Finalize(agg) == Closed(agg, Stitched(agg))
=============================================================================
