------------------------------ MODULE DayReports ------------------------------
(***************************************************************************)
(* The offline report of the data drift module (m5a/run_offline.py): the   *)
(* long-memory events, state transitions, threshold crossings and bursts   *)
(* of a pass over the data, set against days, periods and injections.      *)
(*                                                                         *)
(* A pass over the data is what main() derives once for all sections: the  *)
(* judged days, the other tests each day and channel met (a subset of      *)
(* Hits), deviation days, transitions, crossings, bursts and performance   *)
(* events.  There are two passes: with injections and without.             *)
(* The study says which days and periods the report is about.              *)
(***************************************************************************)
EXTENDS FleetDecision, TLC

CONSTANT Study
  \* [event, episodes, evening: periods; eventDays, raised: days; sun: days of device one;
  \*  stable: pairs of device and day; injections: segments; profile: rows]

AttrTail == Hour           \* what happens this long after a segment is still its own
Hits == {"p01", "pB", "pG", "G", "pos", "wide"}
Schemes == {"p01", "pB and D", "pB", "pG and G", "pG"}

Pairs == Devices \X Channels

\* The three families: deviation days, transitions, crossings.
LongMemory(verdicts) ==
  UNION {{[device |-> x[1], ch |-> x[2], day |-> day] : day \in LmEvents(verdicts[x[1]], x[2])} : x \in Pairs}

AllTransitions(verdicts) ==
  UNION {{[device |-> x[1], ch |-> x[2], day |-> t.day, kind |-> t.kind] :
            t \in LmTransitions(verdicts[x[1]], x[2], LastDay)} : x \in Pairs}

JudgedDays(verdicts) ==
  {x \in Devices \X (1..LastDay) : x[2] \in DOMAIN verdicts[x[1]] /\ verdicts[x[1]][x[2]].evaluable}

Crossings(verdicts, hits) ==
  {[device |-> x[1], ch |-> ch, day |-> x[2], kind |-> kind] :
     <<x, ch, kind>> \in {y \in JudgedDays(verdicts) \X Channels \X {"pos", "wide"} :
                            y[3] \in hits[y[1][1]][y[1][2]][y[2]]}}

Pass(verdicts, hits, bursts, perf) ==
  [judged |-> JudgedDays(verdicts), hits |-> hits, lm |-> LongMemory(verdicts),
   tr |-> AllTransitions(verdicts), cr |-> Crossings(verdicts, hits), bursts |-> bursts, perf |-> perf]

Evaluated(p, d, day) == <<d, day>> \in p.judged
OfChannel(rows, d, ch) == {r \in rows : r.device = d /\ r.ch = ch}
StateAt(p, d, ch, day) == StateOn(OfChannel(p.tr, d, ch), day)
DeviatedAt(p, d, day) == {ch \in Channels : StateAt(p, d, ch, day)}
EnteredOn(p, d, day) == {t.ch : t \in {u \in p.tr : u.device = d /\ u.day = day /\ u.kind = "DEVIATE"}}
DaysOf(rows) == {r.day : r \in rows}

SchemeAlarm(p, d, ch, day, scheme) ==
  LET hits == p.hits[d][day][ch]
  IN  CASE scheme = "p01" -> "p01" \in hits
        [] scheme = "pB and D" -> [device |-> d, ch |-> ch, day |-> day] \in p.lm
        [] scheme = "pB" -> "pB" \in hits
        [] scheme = "pG and G" -> {"pG", "G"} \subseteq hits
        [] scheme = "pG" -> "pG" \in hits

--------------------------------------------------------------------------------
(* Segments: what happened in a period, to a device. *)

Attributed(ts, seg) == seg.start <= ts /\ ts <= seg.end + AttrTail

SegmentBursts(seg, bursts) == {b \in bursts : b.device = seg.device /\ Attributed(b.ts, seg)}
SegmentBurst(seg, bursts) ==
  LET own == SegmentBursts(seg, bursts)
  IN  [n |-> Cardinality(own), first |-> IF own = {} THEN 0 ELSE Min({b.ts : b \in own})]

\* Mutant: only the days of the full hours.
SegmentDaysHourly(seg) == {LDay(seg.start + k * Hour) : k \in 0..((seg.end - seg.start) \div Hour)}

\* The days of every full hour from the start, and the day of the end.
SegmentDays(seg) ==
  {LDay(seg.start + k * Hour) : k \in 0..((seg.end - seg.start) \div Hour)} \cup {LDay(seg.end)}

DayEnd(day) == DayStart(day + 1)

\* Days of the profile whose width is more than three times that of the reference.
Registered(d) == {r \in Study.profile : r.device = d /\ r.ref > 0 /\ r.width > 3 * r.ref}
ScaleDays(d) == {r.day : r \in Registered(d)}
ScaleChannels(d, day) == {r.ch : r \in {s \in Registered(d) : s.day = day}}

Segment(item, d, start, end) == [item |-> item, device |-> d, start |-> start, end |-> end]
Segments ==
  {Segment(2, d, Study.event.start, Study.event.end) : d \in Devices}
  \cup {Segment(4, d, e.start, e.end) : d \in Devices, e \in Study.episodes}
  \cup {Segment(5, Study.sunny, DayStart(day), DayStart(day) + Hour) : day \in Study.sun}
  \cup {Segment(5, d, Study.evening.start, Study.evening.end) : d \in Devices}
  \cup UNION {{Segment(3, d, DayStart(day), DayEnd(day)) : day \in ScaleDays(d)} : d \in Devices}

--------------------------------------------------------------------------------
(* The sections. *)

Stable(d) == {day \in 1..LastDay : <<d, day>> \in Study.stable}

\* Days that could not be judged; those only because of the injections.
NotJudged(p) == {x \in Devices \X (2..LastDay) : ~Evaluated(p, x[1], x[2])}
OnlyInjected(clean, injected) == {x \in NotJudged(injected) : Evaluated(clean, x[1], x[2])}

\* Item 1, per device: stable days, those not judged, transitions and deviation
\* days of each channel, bursts on stable days.
StableRow(p, d) ==
  [days |-> Stable(d),
   notJudged |-> Cardinality({day \in Stable(d) : ~Evaluated(p, d, day)}),
   transitions |-> [ch \in Channels |-> OfChannel(p.tr, d, ch)],
   deviations |-> [ch \in Channels |-> DaysOf(OfChannel(p.lm, d, ch)) \cap Stable(d)],
   bursts |-> Cardinality({b \in p.bursts : b.device = d /\ LDay(b.ts) \in Stable(d)})]

\* Deviation days on stable days: how many devices share a day, and, for the
\* channels where none was expected, whether the state was entered that day.
Sharing(p, ch) == [day \in 1..LastDay |->
  Cardinality({r \in p.lm : r.ch = ch /\ r.day = day /\ day \in Stable(r.device)})]

Unexpected(p) ==
  {r @@ [state |-> IF r.ch \in EnteredOn(p, r.device, r.day) THEN "entered" ELSE "before"] :
     r \in {x \in p.lm : x.ch \in Active /\ x.day \in Stable(x.device)}}

\* The first of some days, or none.
FirstDay(days) == IF days = {} THEN 0 ELSE Min(days)

\* Item 2: the event, per device and channel.
EventRow(p, d, ch) ==
  LET ours(S) == DaysOf(OfChannel(S, d, ch)) \cap Study.eventDays
  IN  [before |-> StateAt(p, d, ch, LDay(Study.event.start)),
       entered |-> Study.eventDays \cap {day \in 1..LastDay : ch \in EnteredOn(p, d, day)},
       deviated |-> FirstDay(ours(p.lm)),
       moved |-> FirstDay(ours({r \in p.cr : r.kind = "pos"})),
       widened |-> FirstDay(ours({r \in p.cr : r.kind = "wide"}))]

\* Item 3: registered scale days against the crossings and deviations of the pass;
\* days registered for light alone are listed and not counted.
ScaleRow(p, d, day) ==
  IF ~Evaluated(p, d, day) THEN "not judged"
  ELSE IF ScaleChannels(d, day) \subseteq {Study.light} THEN "light"
  ELSE LET over == \E r \in p.cr : r.device = d /\ r.day = day /\ r.kind = "wide"
           lm == \E r \in p.lm : r.device = d /\ r.day = day
       IN  IF over THEN (IF lm THEN "both" ELSE "wide only") ELSE (IF lm THEN "lm only" ELSE "neither")

ScaleSummary(p) ==
  [k \in {"both", "wide only", "lm only", "neither"} |->
     Cardinality({x \in Devices \X (1..LastDay) :
                    x[2] \in ScaleDays(x[1]) /\ ScaleRow(p, x[1], x[2]) = k})]

\* Items 4 and 5: a period, per device, for the channels it is about.
PeriodRow(p, seg, chs) ==
  LET days == SegmentDays(seg)
      ours(S) == {x \in S : x.device = seg.device /\ x.ch \in chs /\ x.day \in days}
  IN  [burst |-> SegmentBurst(seg, p.bursts),
       before |-> {ch \in chs : StateAt(p, seg.device, ch, Min(days))},
       transitions |-> ours(p.tr),
       deviations |-> ours(p.lm),
       crossings |-> ours(p.cr)]

EpisodePerDay(p, e) ==
  [day \in SegmentDays(e) |->
     Cardinality({r \in p.lm : r.ch = Study.gas /\ r.day = day})]

\* Item 6: what one pass says of an injection on its first day.
InjectionCell(p, s) ==
  LET day == LDay(s.start)
      on(S) == {x \in S : x.device = s.device /\ x.ch = s.ch /\ x.day = day}
  IN  [judged |-> Evaluated(p, s.device, day),
       deviated |-> on(p.lm) # {},
       kinds |-> {x.kind : x \in on(p.tr) \cup on(p.cr)}]

\* Bursts against the day and the next: the strongest thing the long memory says.
DayClass(p, d, day) ==
  IF ~Evaluated(p, d, day) THEN "not judged"
  ELSE IF EnteredOn(p, d, day) # {} THEN "entered"
  ELSE IF \E r \in p.lm : r.device = d /\ r.day = day THEN "deviated"
  ELSE IF \E r \in p.cr : r.device = d /\ r.day = day THEN "crossed"
  ELSE "in range"

BurstAgainstDays(p) ==
  [when \in {0, 1} |-> [class \in {"not judged", "entered", "deviated", "crossed", "in range"} |->
     Cardinality({b \in p.bursts : DayClass(p, b.device, LDay(b.ts) + when) = class})]]

ClassBase(p) ==
  [class \in {"entered", "deviated", "crossed", "in range"} |->
     Cardinality({x \in p.judged : x[2] # 1 /\ DayClass(p, x[1], x[2]) = class})]

\* Item 8: everything both layers say of a segment, at its time; the long memory
\* speaks at the end of the day.
TwoLayers(p, seg) ==
  LET days == SegmentDays(seg)
      ours(S) == {x \in S : x.device = seg.device /\ x.day \in days}
  IN  [before |-> DeviatedAt(p, seg.device, Min(days)),
       items |-> {[at |-> e.ts, what |-> e.level] :
                    e \in {x \in p.perf : x.device = seg.device /\ Attributed(x.candidate, seg)}}
                 \cup {[at |-> b.ts, what |-> "BURST"] : b \in SegmentBursts(seg, p.bursts)}
                 \cup {[at |-> DayEnd(t.day), what |-> t.kind, ch |-> t.ch] : t \in ours(p.tr)}
                 \cup {[at |-> DayEnd(r.day), what |-> r.kind, ch |-> r.ch] : r \in ours(p.cr)}]

\* Item 9: the schemes side by side.
Alarms(p, scheme, chs) ==
  {x \in p.judged : \E ch \in chs : SchemeAlarm(p, x[1], ch, x[2], scheme)}

SchemeRow(p, scheme) ==
  LET alarms == Alarms(p, scheme, Channels)
      gas == Alarms(p, scheme, {Study.gas})
  IN  [stable |-> Cardinality(alarms \cap Study.stable),
       judged |-> Cardinality(p.judged \cap Study.stable),
       event |-> [d \in Devices |-> FirstDay({day \in Study.eventDays : <<d, day>> \in alarms})],
       episodes |-> [e \in Study.episodes |->
                       Max({Cardinality({x \in gas : x[2] = day}) : day \in SegmentDays(e)})]]

\* Item 10: from the start of the event to the first word of each family.
Latency(p, d) ==
  LET from == LDay(Study.event.start)
      first(S) == FirstDay({r.day : r \in {x \in S : x.device = d /\ x.day >= from}})
      seg == Segment(2, d, Study.event.start, Study.event.end)
  IN  [before |-> DeviatedAt(p, d, from),
       entered |-> first({t \in p.tr : t.kind = "DEVIATE"}),
       crossed |-> first(p.cr),
       burst |-> SegmentBurst(seg, p.bursts).first]

\* The deviations section: judged stable days, and those with any deviation.
StableAlarms(p) ==
  LET judged == {x \in Study.stable : Evaluated(p, x[1], x[2])}
  IN  [total |-> Cardinality(judged),
       alarms |-> Cardinality({x \in judged : \E r \in p.lm : r.device = x[1] /\ r.day = x[2]})]

\* The appendix: deviating devices per channel and day, and how many were judged.
Timeline(p) ==
  [day \in 1..LastDay |->
     [events |-> [ch \in Channels |-> Cardinality({r \in p.lm : r.ch = ch /\ r.day = day})],
      judged |-> Cardinality({x \in p.judged : x[2] = day})]]
================================================================================
