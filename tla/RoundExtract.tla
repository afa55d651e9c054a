---------------------------- MODULE RoundExtract ----------------------------
(* The rounds as the offline scripts take them from the same files:           *)
(* eda/m5a_extract.py, eda/m6a_extract.py, eda/m7_extract.py and              *)
(* eda/count_rounds.py; and the scripts that check rounds and gaps against    *)
(* those files, deploy/scripts/m1_pivot_check.py, eda/gap_check.py and        *)
(* eda/daily_channel_profile.py.  Here SegEnd is not part of the span.  The   *)
(* guard flags of the tables are those of DayExtract.                         *)
EXTENDS Replay

CONSTANTS
    CalibRounds, ColdGap,        \* CALIB_ROUNDS, COLD_GAP_SEC
    Light, LightCensor, Log1p,   \* the channel that is logged, and from where it is cut off
    Sync,                        \* the channels of the synchronous-change test
    HourLength, Minute,
    NearBy,                      \* how far from a round a file's name may be (window_sec)
    Margin                       \* what is read on either side of the span (--margin)

ASSUME ExtractConstants ==
    /\ CalibRounds \in Nat \ {0} /\ ColdGap \in Nat /\ Sync \subseteq Detection
    /\ HourLength \in Nat \ {0} /\ SecondsPerDay % HourLength = 0
    /\ Minute \in Nat \ {0} /\ NearBy \in Nat /\ Margin \in Nat

NoChannel == "none"
InSpan(t) == SegStart <= t /\ t < SegEnd

(* What the CSV reader keeps of the files that look like data.               *)
DataFiles(files) ==
    {f \in DOMAIN files : SniffSchema(files[f].content.header, Prefix(files[f].content))}
RowsOfFiles(files) ==
    UNION {{[at |-> <<f, j>>, row |-> files[f].content.lines[j]] :
               j \in DOMAIN files[f].content.lines} : f \in DataFiles(files)}
RowsWithin(files, from, to) ==
    {r \in RowsOfFiles(files) : /\ r.row.fields \in 1 .. 4 /\ r.row.time # NoValue
                                /\ r.row.dev # NoValue
                                /\ from <= r.row.time /\ r.row.time < to}
Kept(files) == RowsWithin(files, SegStart, SegEnd)

(* Any reading that parses makes a round; of equal ones the first counts.    *)
Parsable(files) == {r \in Kept(files) : r.row.value # NoValue}
Stamps(files) == {<<r.row.dev, r.row.time>> : r \in Parsable(files)}
SameReading(r, q) ==
    /\ r.row.dev = q.row.dev /\ r.row.sensor = q.row.sensor /\ r.row.time = q.row.time
FirstOf(read) == {p \in read : \A q \in read : SameReading(p, q) => ~Precedes(q.at, p.at)}
FirstReadings(files) ==
    {[dev |-> r.row.dev, ch |-> r.row.sensor, t |-> r.row.time, v |-> r.row.value] :
        r \in FirstOf({p \in Parsable(files) : p.row.sensor \in Detection})}

(* m5a_extract.load: a placeholder row for a stamp without a reading of a    *)
(* detection channel; nothing at all when no file has one.                   *)
WithPlaceholders(d, stamps) ==
    IF d = {} THEN {}
    ELSE d \cup {[dev |-> s[1], ch |-> NoChannel, t |-> s[2], v |-> NoValue] :
                    s \in stamps \ {<<r.dev, r.t>> : r \in d}}
LoadWithPlaceholders(files) == WithPlaceholders(FirstReadings(files), Stamps(files))

(* m6a_extract.load: the readings, and the stamps beside them.               *)
LoadWithStamps(files) == [readings |-> FirstReadings(files), stamps |-> Stamps(files)]

(* A device's readings by round and channel.                                 *)
ByChannel(read) == [c \in {r.ch : r \in read} |-> (CHOOSE r \in read : r.ch = c).v]
Rows(d, ts) ==
    [i \in DOMAIN ts |-> [ts |-> ts[i],
                          x |-> ByChannel({r \in d : r.t = ts[i] /\ r.ch # NoChannel})]]
Wide(d, times) == Rows(d, SetToSortSeq(times, <))
OfDevice(d, dev) == {r \in d : r.dev = dev}
Pivot(d) == Wide(d, {r.t : r \in d})
PivotRounds(files, dev) == Pivot(OfDevice(LoadWithPlaceholders(files), dev))

(* m6a_extract.main: the table of the rounds of each device with readings.   *)
RoundTable(w, readings) ==
    [rounds |-> [i \in DOMAIN w |-> [ts |-> w[i].ts, x |-> w[i].x,
                                     cold |-> i > 1 /\ w[i].ts - w[i - 1].ts > ColdGap]],
     empty |-> Len(w) - Cardinality({r.t : r \in readings}),
     freeze |-> IF Len(w) < CalibRounds THEN NoValue ELSE w[CalibRounds].ts]
DeviceTable(readings, times) == RoundTable(Wide(readings, times), readings)
TablesOf(l) ==
    [dev \in {r.dev : r \in l.readings} |->
        DeviceTable(OfDevice(l.readings, dev), {s[2] : s \in {p \in l.stamps : p[1] = dev}})]
RoundTables(files) == TablesOf(LoadWithStamps(files))

----------------------------------------------------------------------------
(* m7_extract.py: counts and sums by local hour.                             *)
LocalHourStart(t) == t - (ToLocal(t) % HourLength)
HourOfDay(t) == (ToLocal(t) % SecondsPerDay) \div HourLength
Transformed(c, v) == IF c # Light THEN v ELSE IF v = LightCensor THEN NoValue ELSE Log1p[v]

(* The transformed readings of a channel in some rounds.                     *)
CountAndSum(tv) == [n |-> Cardinality(DOMAIN tv), sum |-> SumFunction(tv)]
TransformedOf(rounds, I, c) ==
    CountAndSum([i \in {j \in I : /\ c \in DOMAIN rounds[j].x
                                  /\ Transformed(c, rounds[j].x[c]) # NoValue} |->
                 Transformed(c, rounds[i].x[c])])

(* Nothing of a device that never freezes.                                   *)
HourRow(rounds, inHour, after) ==
    [rounds |-> Cardinality(inHour),
     admitted |-> Cardinality({i \in inHour \cap after : DOMAIN rounds[i].x = Detection}),
     all |-> [c \in Detection |-> TransformedOf(rounds, inHour, c)],
     post |-> [c \in Sync |-> TransformedOf(rounds, inHour \cap after, c)]]
HourTables(rounds, freeze, after) ==
    [freeze |-> freeze,
     hourly |-> [h \in {LocalHourStart(rounds[i].ts) : i \in DOMAIN rounds} |->
        HourRow(rounds, {i \in DOMAIN rounds : LocalHourStart(rounds[i].ts) = h}, after)],
     calib |-> [h \in 0 .. SecondsPerDay \div HourLength - 1 |-> [c \in Detection |->
        TransformedOf(rounds, {i \in DOMAIN rounds \ after : HourOfDay(rounds[i].ts) = h}, c)]]]
ProcessDevice(rounds) ==
    IF Len(rounds) < CalibRounds THEN NoValue
    ELSE HourTables(rounds, rounds[CalibRounds].ts,
                    {i \in DOMAIN rounds : rounds[i].ts > rounds[CalibRounds].ts})

(* count_rounds.main: every row with a time and a device counts, whatever    *)
(* its value.                                                                *)
CountedRounds(files) == {<<r.row.dev, r.row.time>> : r \in Kept(files)}
RoundsPerDay(counted, dev) ==
    Tally([c \in {r \in counted : r[1] = dev} |-> c[2] \div SecondsPerDay])

----------------------------------------------------------------------------
(* gap_check.main: the gaps of a device that touch the span, with their ends *)
(* looked for in the margin; one that began before that begins with it.      *)
RoundsNear(files) ==
    {<<r.row.dev, r.row.time>> : r \in RowsWithin(files, SegStart - Margin, SegEnd + Margin)}
GapsTouching(ts) ==
    LET d == Deltas(ts)
    IN  {[start |-> t, end |-> t + d[t]] :
            t \in {u \in DOMAIN d : d[u] > ColdGap /\ u + d[u] > SegStart /\ u < SegEnd}}
        \cup IF Min(ts) > SegStart THEN {[start |-> SegStart - Margin, end |-> Min(ts)]} ELSE {}
GapList(near) ==
    [dev \in {s[1] : s \in near} |-> GapsTouching({s[2] : s \in {q \in near : q[1] = dev}})]
RoundsPerMinute(near) ==
    Tally([s \in {q \in near : InSpan(q[2])} |-> <<s[1], s[2] \div Minute>>])

(* daily_channel_profile.main: every value of a channel on a day, repeated   *)
(* ones too (those of rows without a device are left out here).              *)
Profile(files, channels) ==
    Tally([r \in {q \in Parsable(files) : q.row.sensor \in channels} |->
              <<r.row.dev, r.row.sensor, r.row.time \div SecondsPerDay>>])

----------------------------------------------------------------------------
(* m1_pivot_check.py looks for a round's readings in the files whose name    *)
(* tells a time near it, in the order of those times; the last one counts.   *)
(* It reads a name's time as the replay source does.                         *)
FileIndex(files) ==
    ByKey([f \in DOMAIN files |-> IF files[f].named THEN files[f].key ELSE NoValue])
CandidateFiles(files, t) ==
    SelectSeq(FileIndex(files), LAMBDA f : Abs(files[f].key - t) <= NearBy)
RowsFor(file, t) ==
    SelectSeq(file.content.lines, LAMBDA ln : /\ ln.fields = 4 /\ ln.value # NoValue
                                              /\ ln.time = t /\ ln.dev = Device)
OriginalValues(files, t) ==
    LET paths == CandidateFiles(files, t)
        read == FlattenSeq([i \in DOMAIN paths |-> RowsFor(files[paths[i]], t)])
        last(c) == Max({i \in DOMAIN read : read[i].sensor = c})
    IN  [c \in {read[i].sensor : i \in DOMAIN read} |-> read[last(c)].value]
CompareRound(r, orig) ==
    IF DOMAIN orig = {} THEN "UNMATCHED"
    ELSE IF \E c \in DOMAIN r.round.x : c \notin DOMAIN orig \/ r.round.x[c] # orig[c]
         THEN "MISMATCH" ELSE "OK"
PivotCheck(files, rounds) ==
    [i \in DOMAIN rounds |-> CompareRound(rounds[i], OriginalValues(files, rounds[i].ts))]

----------------------------------------------------------------------------
(* When is the stream comparable?                                            *)

(* The same files in the same order, by content as by name.                  *)
SameFiles ==
    LET found == DiscoverFiles(rec)
    IN  /\ Range(found) = DataFiles(rec)
        /\ \A i, j \in DOMAIN found : i < j => found[i] < found[j]

(* No row is further behind the files before its own than the merger, the    *)
(* watermark and the round wait together.                                    *)
InReach ==
    \A i, j \in DOMAIN Order : Order[i].at[1] < Order[j].at[1] =>
        Order[i].row.time - Order[j].row.time <= CarryOver + OutOfOrderness + CloseDelay

----------------------------------------------------------------------------
(* Agreement.  A timestamp at the end of the segment is replayed only.       *)
Emitted == SelectSeq(m1.rounds, LAMBDA r : InSpan(r.ts))
StillOpen == {t \in DOMAIN m1.open : InSpan(t)}
Prefixed(s, n) == SubSeq(s, 1, n)

(* Every row of the device that was sent is in a round or was malformed.     *)
RowsAddUp ==
    LET mine == {i \in DOMAIN sent : Order[sent[i]].row.dev = Device}
        size(r) == Cardinality(DOMAIN r.x) + Cardinality(r.quality) + r.dup + r.unknown
    IN  Cardinality(mine) =
            SumFunction([i \in DOMAIN m1.rounds |-> size(m1.rounds[i].round)
                                                     + m1.rounds[i].malformed])
            + SumFunction([t \in DOMAIN m1.open |-> size(m1.open[t])]) + m1.pending

(* The spot check finds fault with a round of the job only where the files   *)
(* give a channel of it two values, or where a row of it is in a file whose  *)
(* name tells no time near.                                                  *)
FaultsAreRepeats(files) ==
    LET found == PivotCheck(files, m1.rounds)
        rows(t) == UNION {{<<f, i>> : i \in DOMAIN RowsFor(files[f], t)} : f \in DOMAIN files}
        reading(p, t) == RowsFor(files[p[1]], t)[p[2]]
    IN  \A i \in DOMAIN found : found[i] # "OK" =>
            \E p \in rows(m1.rounds[i].ts) : \E t \in {m1.rounds[i].ts} :
               \/ p[1] \notin Range(CandidateFiles(files, t))
               \/ \E q \in rows(t) : /\ reading(p, t).sensor = reading(q, t).sensor
                                     /\ reading(p, t).value # reading(q, t).value

(* The rounds that came out are the first of the table, with its readings:   *)
(* each once, in order, and none of them was reopened.                       *)
RoundsAgree(table) ==
    LET n == Len(Emitted)
    IN  /\ n + Cardinality(StillOpen) = Len(table.rounds)
        /\ \A i \in 1 .. n : /\ Emitted[i].ts = table.rounds[i].ts
                             /\ Emitted[i].round.x = table.rounds[i].x
        /\ \A i \in n + 1 .. Len(table.rounds) :
              /\ table.rounds[i].ts \in StillOpen
              /\ m1.open[table.rounds[i].ts].x = table.rounds[i].x
        /\ table.freeze # NoValue /\ n >= CalibRounds => Emitted[CalibRounds].ts = table.freeze

(* The device's tables of a recording, from the three extractions.           *)
TablesFrom(pivot, tables) == [pivot |-> pivot, hours |-> ProcessDevice(pivot), byDevice |-> tables]
ExtractTables ==
    [files \in Recordings |-> TablesFrom(PivotRounds(files, Device), RoundTables(files))]

(* The three extractions take the same rounds, and their hours add up.       *)
Together(f) == [n |-> SumFunction([h \in DOMAIN f |-> f[h].n]),
                sum |-> SumFunction([h \in DOMAIN f |-> f[h].sum])]
ExtractionsAgree(pivot, table, p) ==
    /\ [i \in DOMAIN pivot |-> pivot[i].ts] = [i \in DOMAIN table.rounds |-> table.rounds[i].ts]
    /\ \A i \in DOMAIN pivot : pivot[i].x = table.rounds[i].x
    /\ table.empty = Cardinality({i \in DOMAIN pivot : pivot[i].x = <<>>})
    /\ p = NoValue <=> table.freeze = NoValue
    /\ p # NoValue =>
          /\ p.freeze = table.freeze
          /\ \A c \in Sync :
                Together(<<Together([h \in DOMAIN p.calib |-> p.calib[h][c]]),
                           Together([h \in DOMAIN p.hourly |-> p.hourly[h].post[c]])>>)
                   = Together([h \in DOMAIN p.hourly |-> p.hourly[h].all[c]])

(* The hours of the rounds that came out, up to the hour of the last.        *)
HoursAgree(p) ==
    LET last == LocalHourStart(Emitted[Len(Emitted)].ts)
        inHour(h) == {i \in DOMAIN Emitted : LocalHourStart(Emitted[i].ts) = h}
        whole(i) == i > CalibRounds /\ DOMAIN Emitted[i].round.x = Detection
    IN  p # NoValue /\ Emitted # <<>> =>
           \A h \in DOMAIN p.hourly : h < last =>
              /\ p.hourly[h].rounds = Cardinality(inHour(h))
              /\ p.hourly[h].admitted = Cardinality({i \in inHour(h) : whole(i)})

(* The count by which a replay is reconciled misses nothing but rounds none  *)
(* of whose readings parse.                                                  *)
CountAgrees(files) ==
    LET counted == CountedRounds(files)
        unread == {<<r.row.dev, r.row.time>> : r \in Kept(files)} \ Stamps(files)
    IN  SumFunction(RoundsPerDay(counted, Device)) =
            Len(Emitted) + Cardinality(StillOpen) + Cardinality({s \in unread : s[1] = Device})

(* Between two rounds of the table a gap is one of the gap list, unless rows *)
(* without a reading that parses divide it; and the minutes count every      *)
(* round of the span.                                                        *)
GapsAgree(files, table) ==
    LET near == RoundsNear(files)
        within == {g \in GapList(near)[Device] : SegStart <= g.start /\ g.end < SegEnd}
        colds == {[start |-> table.rounds[i - 1].ts, end |-> table.rounds[i].ts] :
                     i \in {j \in DOMAIN table.rounds : table.rounds[j].cold}}
        divided(g) == \E t \in g.start + 1 .. g.end - 1 : <<Device, t>> \in near
    IN  /\ {g \in colds : ~divided(g)} \subseteq within
        /\ \A g \in within : \/ g \in colds
                             \/ \E t \in {g.start, g.end} : <<Device, t>> \notin Stamps(files)
        /\ SumFunction(RoundsPerMinute(near)) = Cardinality(CountedRounds(files))

(* Each value of the profile is a reading of a round, or was dropped from    *)
(* one as repeated.                                                          *)
ProfileAgrees(files) ==
    LET p == Profile(files, Detection \cup Quality)
        size(r) == Cardinality(DOMAIN r.x) + Cardinality(r.quality) + r.dup
        total == SumFunction([i \in DOMAIN Emitted |-> size(Emitted[i].round)])
                 + SumFunction([t \in StillOpen |-> size(m1.open[t])])
        known == SumFunction([k \in {q \in DOMAIN p : q[1] = Device} |-> p[k]])
    IN  known = total

(* A resumed replay loses only rows that others had overtaken.  Once          *)
(* everything is sent, after resumes that skipped just what was sent, no row  *)
(* lies too far behind and files are taken alike, the rounds of the job are   *)
(* those of the offline tables and of the reconciliation count.               *)
RoundsAreOffline ==
    /\ LostRowsWereOvertaken /\ RowsAddUp /\ FaultsAreRepeats(rec)
    /\ replayer.phase = "done" /\ replayer.exact /\ InReach /\ SameFiles =>
          /\ CountAgrees(rec) /\ ProfileAgrees(rec)
          /\ \A tab \in {ExtractTables[rec]} : Device \in DOMAIN tab.byDevice =>
                /\ RoundsAgree(tab.byDevice[Device])
                /\ GapsAgree(rec, tab.byDevice[Device])
                /\ ExtractionsAgree(tab.pivot, tab.byDevice[Device], tab.hours)
                /\ HoursAgree(tab.hours)
=============================================================================
