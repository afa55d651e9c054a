------------------------------ MODULE FleetReports ------------------------------
(***************************************************************************)
(* The tables of m7/report_tables.py over the logs of the offline run: who *)
(* was alerted and commanded in which period, how long each command waited *)
(* for its day boundary, what an hourly response would have sent, and why  *)
(* an hour was judged a site condition.  The script works out again from   *)
(* the inputs what decide.py had at hand while it ran; the tables are      *)
(* right only if the two agree.                                            *)
(*                                                                         *)
(* al and cm are the alerts and commands of a run over the inputs inp.     *)
(***************************************************************************)
EXTENDS FleetOnline, DayReports, SequencesExt

HourOf(a) == a.at - Hour             \* an alert is put out at the end of its hour
CommandDay(c) == LDay(c.at - 1)      \* the day a command decides about

Of(rows, type) == {r \in rows : r.type = type}
OnceOff(inp) == [inp EXCEPT !.timing.once = FALSE]

\* run_with_drift: the books after each day boundary, under the day they begin.
DriftBooks(bk) ==
  [d \in Devices |-> [drift |-> bk.drift[d].triggers, episode |-> {k \in Triggers : bk.episode[d][k] > 0}]]

RunWithDrift(inp) ==
  LET st[k \in 0..(LastTick \div Hour)] ==
        IF k = 0 THEN EmptyBooks ELSE TickAt(st[k - 1], inp, k * Hour).books
  IN  [day \in 2..(LastDay + 1) |-> DriftBooks(st[DayStart(day) \div Hour])]

\* The detection flags of the hours with good data, worked out again.
IsDetection(row) == ~QualityBad(row) /\ (PointFlag(row) \/ ContextFlag(row))
DetectionFlags(inp) ==
  [x \in {y \in DOMAIN inp.hours : IsDetection(inp.hours[y])} |->
     <<PointFlag(inp.hours[x]), ContextFlag(inp.hours[x])>>]

--------------------------------------------------------------------------------
(* Items 1 to 3: distributions, commands, periods. *)

LabelSet == {Labels[i] : i \in DOMAIN Labels}
Counts(al, S(_)) == [lab \in LabelSet |-> Cardinality({a \in al : a.label = lab /\ S(a)})]

Distribution(al) ==
  [lab \in LabelSet |-> [g \in BOOLEAN |-> Cardinality({a \in al : a.label = lab /\ a.global = g})]]

PerDevice(al) == [d \in Devices |-> LET own(a) == a.device = d IN Counts(al, own)]

PerDay(al, cm) ==
  [day \in {LDay(HourOf(a)) : a \in al} |->
     LET on(a) == LDay(HourOf(a)) = day
     IN  [alerts |-> Counts(al, on), commands |-> Cardinality({c \in cm : CommandDay(c) = day})]]

ByTrigger(cm) == [k \in Triggers |-> Cardinality({c \in cm : k \in c.triggers})]

\* The label of a device hour, "none" without an alert.
LabelAt(al, d, hs) ==
  LET own == {a \in al : a.device = d /\ HourOf(a) = hs}
  IN  IF own = {} THEN "none" ELSE (CHOOSE a \in own : TRUE).label

LabelCounts(al, hours) ==
  [lab \in LabelSet \cup {"none"} |-> Cardinality({x \in hours : LabelAt(al, x[1], x[2]) = lab})]

\* Hours in which two devices were flagged at once, among those of some wall hours.
SharedHours(flags, wall) ==
  {x \in DOMAIN flags : LHour(x[2]) \in wall /\ Cardinality({y \in DOMAIN flags : y[2] = x[2]}) >= 2}

InjectedHours ==
  UNION {{<<s.device, WindowOf(s.start) + k * Hour>> :
            k \in {j \in 0..((s.end - s.start) \div Hour + 1) : WindowOf(s.start) + j * Hour < s.end}} :
         s \in Study.injections}

\* A row of the matrix: the alerts of some device hours, the commands of some days.
PeriodTable(al, cm, hours, days) ==
  [alerts |-> LET in(a) == <<a.device, HourOf(a)>> \in hours IN Counts(al, in),
   commands |-> {<<c.device, CommandDay(c), c.triggers>> :
                   c \in {e \in cm : <<e.device, CommandDay(e)>> \in days}}]

HoursOfDays(days) ==
  {x \in Devices \X {k * Hour : k \in 0..(LastTick \div Hour - 1)} : <<x[1], LDay(x[2])>> \in days}

EventDays == Devices \X Study.eventDays
EventTable(al, cm) == PeriodTable(al, cm, HoursOfDays(EventDays), EventDays)
StableTable(al, cm) == PeriodTable(al, cm, HoursOfDays(Study.stable), Study.stable)
EpisodeTable(al, cm, e) ==
  PeriodTable(al, cm, {x \in HoursOfDays(Devices \X SegmentDays(e)) : e.start <= x[2] /\ x[2] <= e.end},
              Devices \X SegmentDays(e))

\* Day by day, with one command per episode and without that rule.
DayByDay(cm, free, days) ==
  [x \in Devices \X days |->
     [once |-> {c.triggers : c \in {e \in cm : e.device = x[1] /\ CommandDay(e) = x[2]}},
      free |-> {c.triggers : c \in {e \in free : e.device = x[1] /\ CommandDay(e) = x[2]}}]]

--------------------------------------------------------------------------------
(* Items 4 to 6: fewer layers, scopes, the hours of site conditions. *)

\* What a run over some of the layers sees of the inputs.
OnlyLayers(inp, layers) ==
  LET data == "data" \in layers
      detect == "detect" \in layers
  IN  [inp EXCEPT
        !.perf = [d \in Devices |-> {x \in @[d] : "perf" \in layers \/ x.rank # 0}],
        !.bursts = [d \in Devices |-> IF data THEN @[d] ELSE {}],
        !.days = [x \in DOMAIN @ |-> [@[x] EXCEPT !.deviated = data /\ @,
                                                  !.transition = IF data THEN @ ELSE "none"]],
        !.hours = [x \in DOMAIN @ |-> IF detect THEN @[x] ELSE [@[x] EXCEPT !.outliers = 0, !.ctx = 0]]]
Alone == {{"data"}, {"perf"}, {"detect"}}

\* Commands for the gas channel in the days it was raised.
GasCommands(cm) == {c \in cm : CommandDay(c) \in Study.raised /\ Study.gas \in c.triggers}

OnStable(x, day) == <<x.device, day>> \in Study.stable
Ablation(al, cm) ==
  [alerts |-> Cardinality(al), commands |-> Cardinality(cm),
   stable |-> LET S(a) == OnStable(a, LDay(HourOf(a))) IN Counts(al, S),
   stableCommands |-> Cardinality({c \in cm : OnStable(c, CommandDay(c))}),
   event |-> \E c \in cm : CommandDay(c) \in Study.eventDays,
   watched |-> \E c \in cm : c.device = Study.sunny /\ Study.watched \in c.triggers,
   gas |-> GasCommands(cm) # {}]

Scopes(rows) == [g \in BOOLEAN |-> Cardinality({r \in rows : r.global = g})]
ScopeRow(al, cm) ==
  [alerts |-> [lab \in LabelSet |-> Scopes({a \in al : a.label = lab})], commands |-> Scopes(cm)]

\* Noon is some wall hours.
SiteRow(al, d, noon) ==
  LET sites == {a \in al : a.label = "site"}
      own == {HourOf(a) : a \in {x \in sites : x.device = d}}
  IN  [hours |-> Cardinality(own), all |-> Cardinality(sites),
       byDay |-> [day \in {LDay(h) : h \in own} |-> {LHour(h) : h \in {x \in own : LDay(x) = day}}],
       noon |-> {h \in own : LHour(h) \in noon}]

--------------------------------------------------------------------------------
(* Item 7: the price of waiting for the day boundary. *)

\* When the performance layer of a device was confirmed, spell by spell.
Spells(inp, d) ==
  LET times == {x.ts : x \in inp.perf[d]}
      at(t) == Advance(NewTracker, inp.perf[d], t)
      on == {t \in times : at(t).confirmed}
  IN  {at(t).since : t \in {u \in on : {v \in times : v < u} = {} \/ Max({v \in times : v < u}) \notin on}}

Entries(inp, d, ch, kind) ==
  {x[2] : x \in {y \in DOMAIN inp.days : y[1] = d /\ y[3] = ch /\ inp.days[y].transition = kind}}

\* Starts of the deviation a trigger may stand for, up to the decision.
StartsOf(inp, spells, c, k) ==
  IF k = "perf" THEN {s \in spells[c.device] : s <= c.at}
  ELSE {DayStart(day) : day \in {e \in Entries(inp, c.device, k, "DEVIATE") : e <= CommandDay(c)}}

Opened(inp, spells, cm) ==
  {<<x[1].device, x[2], Max(StartsOf(inp, spells, x[1], x[2]))>> : x \in {y \in cm \X Triggers : y[2] \in y[1].triggers}}

\* A deviation counts once, with the first command that lists it.
WaitOf(inp, spells, cm, o) ==
  Min({c.effective : c \in {e \in cm : e.device = o[1] /\ o[2] \in e.triggers
                                       /\ Max(StartsOf(inp, spells, e, o[2])) = o[3]}}) - o[3]

\* Runs of consecutive transient hours, and the commands an hourly response with
\* the same cooldown would send at the end of their first hours.
TransientHours(al, d) == {HourOf(a) : a \in {x \in al : x.device = d /\ x.label = "transient"}}
Runs(al, d) ==
  LET hs == TransientHours(al, d)
      ends == {h + Hour : h \in {e \in hs : e + Hour \notin hs}}
  IN  {[start |-> h, end |-> Min({e \in ends : e > h})] : h \in {s \in hs : s - Hour \notin hs}}

Immediate(al, d) ==
  LET seq == SetToSortSeq(Runs(al, d), LAMBDA a, b : a.start < b.start)
      st[k \in 0..Len(seq)] ==
        IF k = 0 THEN [until |-> 0, sent |-> {}]
        ELSE LET t == seq[k].start + Hour
             IN  IF t < st[k - 1].until THEN st[k - 1]
                 ELSE [until |-> Later(t, 1), sent |-> st[k - 1].sent \cup {seq[k]}]
  IN  st[Len(seq)].sent

Matched(al, cm, d) ==
  {r \in Immediate(al, d) : \E c \in cm : c.device = d /\ r.start <= c.at /\ c.at <= Later(r.end, 2)}

\* Item 8: the hour of a device as one cell.
HourCell(flags, al, books, d, hs) ==
  [label |-> LabelAt(al, d, hs),
   flags |-> IF <<d, hs>> \in DOMAIN flags THEN flags[<<d, hs>>] ELSE <<FALSE, FALSE>>,
   state |-> IF LabelAt(al, d, hs) = "drift" /\ LDay(hs) \in DOMAIN books THEN books[LDay(hs)][d].drift ELSE {}]

--------------------------------------------------------------------------------
(* The supplements. *)

\* The commands of the event, and the episodes open when it began.
EventCommands(books, cm, free, d) ==
  LET ours(S) == {c \in S : c.device = d /\ CommandDay(c) \in Study.eventDays}
  IN  [before |-> books[Min(Study.eventDays)][d].episode, once |-> ours(cm), free |-> ours(free)]

\* The context channel in the hours of sunshine, and what became of them.
SunCells(inp, al) ==
  [x \in {y \in HoursOfDays({Study.sunny} \X Study.sun) : y \in DOMAIN inp.hours} |->
     <<inp.hours[x].ctx, LabelAt(al, x[1], x[2]),
       \E a \in al : a.device = x[1] /\ HourOf(a) = x[2] /\ a.flags[2]>>]

\* The deviation a trigger channel was in, and the recovery after it.
SegmentOf(inp, d, ch, day) ==
  LET start == {e \in Entries(inp, d, ch, "DEVIATE") : e <= day}
      end == {e \in Entries(inp, d, ch, "RECOVER") : start # {} /\ e > Max(start)}
  IN  [start |-> IF start = {} THEN 0 ELSE Max(start), end |-> FirstDay(end)]

EpisodeVerdict(inp, c, ch, days) ==
  LET s == SegmentOf(inp, c.device, ch, CommandDay(c))
  IN  IF s.start \in days THEN (IF s.end # 0 THEN "long transient" ELSE "entered, not recovered")
      ELSE IF s.start # 0 /\ s.start < Min(days) THEN "coincides" ELSE "other"

\* Bursts at one moment around an episode: of the fleet, or of fewer devices.
BurstsAround(inp, e, k) ==
  LET near == {x \in UNION {{<<d, b.ts>> : b \in inp.bursts[d]} : d \in Devices} :
                 e.start - HoursPerDay * Hour <= x[2] /\ x[2] <= e.end + Hour}
      at(t) == {x[1] : x \in {y \in near : y[2] = t}}
  IN  {<<t, at(t)>> : t \in {x[2] : x \in {y \in near : Cardinality(at(y[2])) >= k}}}

\* The hourly means of the first days after the freeze, summed again.
SiteBase(inp, d, ch, hod) ==
  LET first == LDay(inp.freeze[d])
      hours == {x \in DOMAIN inp.hours : x[1] = d /\ LHour(x[2]) = hod
                                         /\ LDay(x[2]) \in first..(first + Params.baselineDays - 1)}
      n(x) == inp.hours[x].n[ch]
      sum(x) == inp.hours[x].sum[ch]
  IN  <<SumOf(hours, sum), SumOf(hours, n)>>

Abs(x) == IF x < 0 THEN -x ELSE x

\* Channels that moved with the flags of a site hour, by more than half the width.
SiteChannels(inp, a) ==
  LET row == Row(inp, a.device, HourOf(a))
      width(ch) == inp.refs[<<a.device, ch>>][2] - inp.refs[<<a.device, ch>>][1]
      base(ch) == SiteBase(inp, a.device, ch, LHour(HourOf(a)))
      gap(ch) == row.sum[ch] * base(ch)[2] - base(ch)[1] * row.n[ch]
  IN  {ch \in Active : /\ row.n[ch] > 0 /\ base(ch)[2] > 0
                       /\ 2 * Abs(gap(ch)) > width(ch) * row.n[ch] * base(ch)[2]}

\* Why an injected hour was put down to quality.
QualityReason(row) ==
  IF 5 * row.guard > Nominal THEN "guard"
  ELSE IF 5 * (Nominal - row.rounds) > Nominal THEN "missing" ELSE "unexplained"

--------------------------------------------------------------------------------
(* What the tables rely on. *)


\* The two passes over the data days of the scenario.
PassOver(verdicts) ==
  Pass(verdicts, scenario.hits, scenario.bursts, {[candidate |-> e.ts] @@ e : e \in scenario.perf})

\* The flags worked out again are those of the alerts, and none is without an alert.
FlagsAgree(flags, al) ==
  /\ \A x \in DOMAIN flags : LabelAt(al, x[1], x[2]) # "none"
  /\ \A a \in al : a.label # "quality" =>
       HourCell(flags, al, << >>, a.device, HourOf(a)).flags = <<a.flags[1], a.flags[2]>>

\* A device hour has one label at most, so every table adds up to its hours.
SumUp(f) == FoldFunction(LAMBDA x, acc : x + acc, 0, f)
CountsAddUp(flags, al, cm) ==
  /\ \A a, b \in al : a.device = b.device /\ a.at = b.at => a = b
  /\ \A total \in {SumUp([lab \in LabelSet |-> SumUp(Distribution(al)[lab])]),
                   SumUp([d \in Devices |-> SumUp(PerDevice(al)[d])]),
                   SumUp([day \in DOMAIN PerDay(al, cm) |-> SumUp(PerDay(al, cm)[day].alerts)])} :
       total = Cardinality(al)
  /\ \A hours \in {HoursOfDays(EventDays), InjectedHours, SharedHours(flags, {1})} :
       SumUp(LabelCounts(al, hours)) = Cardinality(hours)
  /\ SumUp([day \in DOMAIN PerDay(al, cm) |-> PerDay(al, cm)[day].commands]) <= Cardinality(cm)
  /\ \A x \in {EventTable(al, cm), StableTable(al, cm)} \cup {EpisodeTable(al, cm, e) : e \in Study.episodes} :
       Cardinality(x.commands) <= SumUp(ByTrigger(cm))

\* A spell starts at a confirmation, every trigger of a command has a start before it, and a channel has
\* not recovered by then; a deviation waits a positive time.
WaitsAreReal(inp, spells, cm) ==
  /\ \A d \in Devices : spells[d] \subseteq {x.ts : x \in {y \in inp.perf[d] : y.level = "CONFIRM"}}
  /\ \A c \in cm : \A k \in c.triggers :
       /\ StartsOf(inp, spells, c, k) # {}
       /\ k # "perf" => LET s == SegmentOf(inp, c.device, k, CommandDay(c))
                        IN  /\ s.end = 0 \/ s.end > CommandDay(c)
                            /\ EpisodeVerdict(inp, c, k, {CommandDay(c)}) # "other"
  /\ \A o \in Opened(inp, spells, cm) : WaitOf(inp, spells, cm, o) > 0

\* Where decisions fall on day boundaries only, an hour labelled drift finds its
\* triggers in the books of the boundary its day began with.
BooksExplain(flags, books, inp, al) ==
  inp.timing.cmd = 0 =>
    \A a \in al : a.label = "drift" =>
      HourCell(flags, al, books, a.device, HourOf(a)).state # {}

\* Without the once rule the k-th command of a device is never later.
OnceDelays(cm, free) ==
  \A c \in cm : \E f \in free : f.device = c.device /\ f.seq = c.seq /\ f.at <= c.at

\* An hourly response sends at most one command per run, and at least one where
\* there is any run; the runs cover the transient hours.
ImmediateIsBounded(al, cm, d, hours, runs, sent) ==
  /\ UNION {{h \in hours : r.start <= h /\ h < r.end} : r \in runs} = hours
  /\ runs # {} => sent # {}
  /\ \A r, s \in sent : r.start < s.start => s.start + Hour >= Later(r.start + Hour, 1)
  /\ Matched(al, cm, d) \subseteq sent

\* What the supplements list has a reason.
SupplementsHold(inp, al) ==
  /\ \A a \in al : a.label = "site" => SiteChannels(inp, a) # {}
  /\ \A a \in al : a.label = "quality" => QualityReason(Row(inp, a.device, HourOf(a))) # "unexplained"
  /\ \A e \in Study.episodes : BurstsAround(inp, e, 2) \subseteq BurstsAround(inp, e, 1)

\* One layer alone: the same hours of bad quality, no command it has no trigger for, no
\* alert where all layers together give none, and no device commanded earlier than by them.
LayersAdd(al, cm, layers, alone, commands) ==
  /\ LET bad(rows) == {<<a.device, a.at, a.global, a.co>> : a \in {x \in rows : x.label = "quality"}}
     IN  bad(alone) = bad(al)
  /\ \A a \in alone : LabelAt(al, a.device, HourOf(a)) # "none"
  /\ \A c \in commands :
       /\ c.triggers \subseteq (IF "data" \in layers THEN Active ELSE {}) \cup (layers \cap {"perf"})
       /\ \E e \in cm : e.device = c.device /\ e.at <= c.at

LayersAgree(inp, al, cm) ==
  \A layers \in Alone : \A out \in {Run(OnlyLayers(inp, layers)).out} :
    LayersAdd(al, cm, layers, Of(out, "alert"), Of(out, "command"))

\* The tables of items 4 to 6 count what those of items 1 to 3 do.
ItemsAgree(al, cm) ==
  /\ LET row == Ablation(al, cm)
     IN  /\ row.stable = StableTable(al, cm).alerts
         /\ row.stableCommands = Cardinality(StableTable(al, cm).commands)
         /\ row.event <=> EventTable(al, cm).commands # {}
         /\ Cardinality(GasCommands(cm)) <= ByTrigger(cm)[Study.gas]
  /\ ScopeRow(al, cm).alerts = Distribution(al)
  /\ SumUp(ScopeRow(al, cm).commands) = Cardinality(cm)
  /\ LET row == [d \in Devices |-> SiteRow(al, d, {1})]
     IN  /\ SumUp([d \in Devices |-> row[d].hours]) = SumUp(Distribution(al)["site"])
         /\ \A d \in Devices :
              row[d].hours = SumUp([day \in DOMAIN row[d].byDay |-> Cardinality(row[d].byDay[day])])

\* A command of the event has a trigger without an open episode, or the performance
\* layer, whose episode may have ended and begun again since.
OpenedInEvent(books, inp, cm, free) ==
  \A d \in Devices : \A row \in {EventCommands(books, cm, free, d)} :
    /\ row.once # {} => row.free # {}
    /\ inp.timing.once /\ inp.timing.cmd = 0 =>
         \A c \in row.once : "perf" \in c.triggers \/ ~(c.triggers \subseteq books[CommandDay(c)][d].episode)

\* A sunny hour over the limit has the flag, in the alert it must have.
SunExplained(inp, al) ==
  \A cells \in {SunCells(inp, al)} : \A x \in DOMAIN cells :
    ContextFlag(inp.hours[x]) => cells[x][2] # "none" /\ cells[x][3]

AgainstFreeRun(inp, cm, free) ==
  /\ OnceDelays(cm, free)
  /\ \A table \in {DayByDay(cm, free, 1..LastDay)} : \A x \in DOMAIN table :
       Cardinality(table[x].once) > 1 => inp.timing.cmd # 0

DecisionReportAgrees(inp, al, cm) ==
  /\ \A flags \in {DetectionFlags(inp)}, books \in {RunWithDrift(inp)} :
       /\ FlagsAgree(flags, al) /\ CountsAddUp(flags, al, cm)
       /\ BooksExplain(flags, books, inp, al)
       /\ OpenedInEvent(books, inp, cm, Of(Run(OnceOff(inp)).out, "command"))
  /\ ItemsAgree(al, cm) /\ LayersAgree(inp, al, cm) /\ SunExplained(inp, al)
  /\ WaitsAreReal(inp, [d \in Devices |-> Spells(inp, d)], cm)
  /\ \A d \in Devices : ImmediateIsBounded(al, cm, d, TransientHours(al, d), Runs(al, d), Immediate(al, d))
  /\ SupplementsHold(inp, al)
  /\ AgainstFreeRun(inp, cm, Of(Run(OnceOff(inp)).out, "command"))

\* The segments' days have no hole, also over the short day.
DaysAreWhole(segs) ==
  \A s \in segs : SegmentDays(s) = LDay(s.start)..LDay(s.end)

\* The transitions of a segment alternate from the state at its first day.
StatesAlternate(p) ==
  \A s \in Segments, ch \in Channels :
    LET own == PeriodRow(p, s, {ch}).transitions
    IN  own # {} =>
          LET first == CHOOSE t \in own : \A u \in own : t.day <= u.day
          IN  /\ (ch \in PeriodRow(p, s, {ch}).before) = (first.kind = "RECOVER")
              /\ \A i \in TwoLayers(p, s).items : i.at >= s.start

\* A deviation day was entered that day or found the channel deviated; the days of
\* entering are among them and those of recovery are not.
StatesExplainDays(p) ==
  /\ \A r \in Unexpected(p) : r.state = "before" => StateAt(p, r.device, r.ch, r.day)
  /\ \A t \in p.tr :
       (t.kind = "DEVIATE") = (\E r \in p.lm : r.device = t.device /\ r.ch = t.ch /\ r.day = t.day)
  /\ \A d \in Devices, ch \in Channels :
       LET row == EventRow(p, d, ch)
       IN  row.deviated # 0 /\ ~row.before => row.entered # {} /\ Min(row.entered) <= row.deviated
  /\ \A d \in Devices :
       LET row == Latency(p, d)
       IN  row.entered # 0 => row.entered >= LDay(Study.event.start)

\* Two sections that count the same stable days agree; a stricter scheme alarms on
\* fewer days and later.
SectionsAgree(p) ==
  LET main == SchemeRow(p, "pB and D")
      loose == SchemeRow(p, "pB")
  IN  /\ StableAlarms(p) = [total |-> main.judged, alarms |-> main.stable]
      /\ \A s \in {"pB", "p01"} : main.stable <= SchemeRow(p, s).stable
      /\ SchemeRow(p, "pG and G").stable <= SchemeRow(p, "pG").stable
      /\ \A d \in Devices : main.event[d] # 0 => loose.event[d] # 0 /\ loose.event[d] <= main.event[d]
      /\ \A e \in Study.episodes :
           main.episodes[e] = Max({EpisodePerDay(p, e)[day] : day \in SegmentDays(e)})
      /\ SumUp([day \in 1..LastDay |-> SumUp(Timeline(p)[day].events)]) = Cardinality(p.lm)
      /\ \A day \in 1..LastDay, ch \in Channels : Timeline(p)[day].events[ch] <= Timeline(p)[day].judged
      /\ \A ch \in Channels : SumUp(Sharing(p, ch)) = SumUp([d \in Devices |-> Cardinality(StableRow(p, d).deviations[ch])])
      /\ SumUp(ClassBase(p)) = Cardinality({x \in p.judged : x[2] # 1})
      /\ \A when \in {0, 1} : SumUp(BurstAgainstDays(p)[when]) = Cardinality(p.bursts)
      /\ SumUp(ScaleSummary(p)) <= SumUp([d \in Devices |-> Cardinality(ScaleDays(d))])

\* The injected pass differs on the injected days only.
InjectionsShow(clean, injected) ==
  /\ \A s \in Study.injections : InjectionCell(injected, s).judged => InjectionCell(injected, s).deviated
  /\ OnlyInjected(clean, injected) \subseteq NotJudged(injected)

DayReportAgrees ==
  /\ DaysAreWhole(Segments \cup Study.episodes \cup Study.injections)
  /\ \A v \in {scenario.verdicts, scenario.injected} : \A p \in {PassOver(v)} :
       StatesAlternate(p) /\ StatesExplainDays(p) /\ SectionsAgree(p)
  /\ InjectionsShow(PassOver(scenario.verdicts), PassOver(scenario.injected))
================================================================================
