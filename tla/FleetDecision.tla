----------------------------- MODULE FleetDecision -----------------------------
(***************************************************************************)
(* The decision function of M7 (FleetDecisionFunction, and its Python      *)
(* reference m7/decide.py): alert ticks that attribute every device hour   *)
(* to one of seven labels, decision ticks that keep the drift books and    *)
(* issue level-0 commands, and the review at the local day boundary.       *)
(*                                                                         *)
(* Inputs and books are records.  In the books an empty set of triggers is *)
(* a device that is not in drift, and a count of zero a trigger class      *)
(* without an open episode.                                                *)
(***************************************************************************)
EXTENDS DataDays, Sequences, FiniteSetsExt

(***************************************************************************)
(* Local days on the time line.  Time counts from local midnight of day 1. *)
(* A local day has HoursPerDay wall-clock hours, except that on the days   *)
(* of ShortDays the clocks go forward and the wall hour Skipped does not   *)
(* exist (27 March 2022 in Europe/London).                                 *)
(***************************************************************************)
CONSTANTS HoursPerDay, ShortDays, Skipped

ASSUME CalendarAssumption ==
  /\ HoursPerDay \in Nat \ {0, 1}
  /\ ShortDays \subseteq Nat \ {0} /\ IsFiniteSet(ShortDays)
  /\ Skipped \in 0..(HoursPerDay - 1)

Slide == 1          \* 60 seconds
Bin == 2            \* 600 seconds: an element of a drift stream
Hour == 4           \* 3600 seconds

HoursOf(day) == HoursPerDay - (IF day \in ShortDays THEN 1 ELSE 0)

DayStart(day) ==
  ((day - 1) * HoursPerDay - Cardinality({d \in ShortDays : d < day})) * Hour

\* Only days within LastDay + 3 are ever asked for.
LocalDay(ts, lastDay) ==
  CHOOSE d \in 1..(lastDay + 3) : DayStart(d) <= ts /\ ts < DayStart(d + 1)

\* The wall-clock hour of the i-th hour (from 0) of a day, and back; a wall
\* hour that does not exist is read with the offset before the change.
WallHour(day, i) == IF day \in ShortDays /\ i >= Skipped THEN i + 1 ELSE i
HourIndex(day, wall) == IF day \in ShortDays /\ wall > Skipped THEN wall - 1 ELSE wall

HourOn(day, ts) == WallHour(day, (ts - DayStart(day)) \div Hour)
LocalHour(ts, lastDay) == HourOn(LocalDay(ts, lastDay), ts)

\* k local days later on the same wall clock.
SameClock(day, ts, k) ==
  DayStart(day + k) + HourIndex(day + k, HourOn(day, ts)) * Hour + ((ts - DayStart(day)) % Hour)
AddLocalDays(ts, k, lastDay) == SameClock(LocalDay(ts, lastDay), ts, k)

LocalHours(day) == {DayStart(day) + i * Hour : i \in 0..(HoursOf(day) - 1)}

--------------------------------------------------------------------------------

CONSTANTS
  Devices, LastDay,
  Params      \* the parameters of common mode and site condition (class Params)

Triggers == Active \cup {"perf"}
ASSUME TriggerAssumption == "perf" \notin Active
NoTs == -1

Nominal == 2            \* rounds of a full hour
CtxPerHour == 1         \* context windows of an hour
FallbackElements == 2   \* elements of a fallback median (even; six in the code)

ParamSet ==
  [kSite : Nat, siteWindow : Nat, kSiteDrift : Nat, siteDriftWindow : Nat,
   baselineDays : Nat, minGlobal : Nat, commonNum : Nat, commonDen : Nat \ {0}]

\* The options of a run: one command per episode, lead time, waiting time and
\* decision period; zero stands for one local day.
Timings == [once : BOOLEAN, delta : Nat, wait : Nat, cmd : Nat]

ASSUME ParamsAssumption == Params \in ParamSet /\ LastDay \in Nat \ {0}

LDay(ts) == LocalDay(ts, LastDay)
LHour(ts) == LocalHour(ts, LastDay)
Later(ts, k) == AddLocalDays(ts, k, LastDay)

\* Common-mode threshold, in integers.
Threshold(n) ==
  Max({Params.minGlobal, (n * Params.commonNum + Params.commonDen - 1) \div Params.commonDen})

\* More than a fifth of the hour's rounds are missing, or marked by the guard.
QualityBad(row) == 5 * (Nominal - row.rounds) > Nominal \/ 5 * row.guard > Nominal

\* The point rate is above its limit of one half, the limit a 99th percentile
\* derived from the reference days takes here.
PointFlag(row) == 2 * row.admitted >= Nominal /\ 2 * row.outliers > row.admitted
ContextFlag(row) == 2 * row.ctx >= CtxPerHour

--------------------------------------------------------------------------------
(* The performance layer: confirmation and fallback of one device. *)

NewTracker ==
  [done |-> {}, confirmed |-> FALSE, confirmTs |-> NoTs, since |-> NoTs,
   threshold |-> 0, post |-> << >>]

Before(a, b) == a.ts < b.ts \/ (a.ts = b.ts /\ a.rank < b.rank)

LastOf(s, n) == IF Len(s) <= n THEN s ELSE SubSeq(s, Len(s) - n + 1, Len(s))

\* The median of two elements is at or below the threshold.
FallsBack(post, threshold) ==
  Len(post) = FallbackElements /\ post[1] + post[2] <= 2 * threshold

\* One more element after the confirmation.
Waited(tr, post) == [tr EXCEPT !.post = post, !.confirmed = ~FallsBack(post, tr.threshold)]

\* One item: a confirmation (again) starts a new wait for the fallback.
TrackerStep(tr, x) ==
  IF x.rank = 0
    THEN IF x.level # "CONFIRM" THEN tr
         ELSE [tr EXCEPT !.since = IF tr.confirmed THEN @ ELSE x.ts, !.confirmed = TRUE,
                         !.confirmTs = x.ts, !.threshold = x.value, !.post = << >>]
  ELSE IF tr.confirmed /\ x.ts > tr.confirmTs
    THEN Waited(tr, LastOf(Append(tr.post, x.value), FallbackElements))
  ELSE tr

\* All items up to t that have not been processed yet, in order.
Processed(tr, due) ==
  LET st[S \in SUBSET due] ==
        IF S = {} THEN tr
        ELSE LET After(last) == TrackerStep(st[S \ {last}], last)
             IN  After(CHOOSE x \in S : \A y \in S \ {x} : Before(y, x))
  IN  [st[due] EXCEPT !.done = @ \cup due]

Advance(tr, items, t) == Processed(tr, {x \in items : x.ts <= t} \ tr.done)

--------------------------------------------------------------------------------
(* The books and the inputs. *)

EmptyBooks ==
  [perf |-> [d \in Devices |-> NewTracker],
   flagHist |-> [d \in Devices |-> [h \in 0..(HoursPerDay - 1) |-> {}]],
   siteHist |-> [d \in Devices |-> [h \in 0..(HoursPerDay - 1) |-> {}]],
   base |-> [d \in Devices |-> [c \in Active |-> [h \in 0..(HoursPerDay - 1) |-> <<0, 0>>]]],
   drift |-> [d \in Devices |-> [scope |-> "local", triggers |-> {}]],
   episode |-> [d \in Devices |-> [k \in Triggers |-> 0]],
   cooldown |-> [d \in Devices |-> 0],
   seq |-> [d \in Devices |-> 0],
   dayAlerts |-> {}]

NoRow == [rounds |-> 0, admitted |-> 0, guard |-> 0, outliers |-> 0, ctx |-> 0,
          n |-> [c \in Active |-> 0], sum |-> [c \in Active |-> 0]]

EmptyInputs(timing) ==
  [timing |-> timing,
   hours |-> [x \in {} |-> NoRow],
   perf |-> [d \in Devices |-> {}],
   days |-> [x \in {} |-> [evaluable |-> FALSE, deviated |-> FALSE, transition |-> "none"]],
   evaluable |-> [x \in {} |-> FALSE],
   bursts |-> [d \in Devices |-> {}],
   refs |-> [x \in {} |-> <<0, 0>>],
   freeze |-> [x \in {} |-> 0]]

HasRow(inp, d, hs) == <<d, hs>> \in DOMAIN inp.hours
Row(inp, d, hs) == inp.hours[<<d, hs>>]
DataDev(inp, d, day, ch) == <<d, day, ch>> \in DOMAIN inp.days /\ inp.days[<<d, day, ch>>].deviated
DataTrans(inp, d, day, ch) ==
  IF <<d, day, ch>> \in DOMAIN inp.days THEN inp.days[<<d, day, ch>>].transition ELSE "none"
Evaluable(inp, d, day) == <<d, day>> \in DOMAIN inp.evaluable /\ inp.evaluable[<<d, day>>]
Entered(inp, d, day) == \E ch \in Active : DataTrans(inp, d, day, ch) = "DEVIATE"

--------------------------------------------------------------------------------
(* The alert tick of the hour [hs, hs + Hour).  A moment m holds the hour's *)
(* start, its local day and wall hour, and the devices with readings.       *)

Moment(inp, hs) ==
  [hs |-> hs, day |-> LDay(hs), hod |-> LHour(hs), rows |-> {d \in Devices : HasRow(inp, d, hs)}]

\* Local days since the freeze of a device.
DaysSince(inp, d, day) == day - LDay(inp.freeze[d])
InBaseline(inp, d, day) ==
  d \in DOMAIN inp.freeze /\ DaysSince(inp, d, day) \in 0..(Params.baselineDays - 1)
AfterBaseline(inp, d, day) ==
  d \in DOMAIN inp.freeze /\ DaysSince(inp, d, day) >= Params.baselineDays

\* A burst of the last two hours that has been emitted.
BurstFlag(inp, d, hs) ==
  \E b \in inp.bursts[d] : hs - 2 * Hour < b.ts /\ b.ts <= hs /\ b.emitted <= hs + Hour

\* The data layer of the two days before.
RecentData(inp, d, day, ch) == \E e \in {1, 2} : DataDev(inp, d, day - e, ch)

SiteDays(hist, day) == {e \in hist : day - Params.siteWindow <= e /\ e < day}

\* The hour's mean is off its baseline <<sum, n>> by more than half the width.
IsOff(row, ch, base, width) ==
  \E gap \in {row.sum[ch] * base[2] - base[1] * row.n[ch]} :
    2 * Max({gap, -gap}) > width * row.n[ch] * base[2]

OffBaseline(inp, bk, d, ch, row, hod) ==
  /\ row.n[ch] > 0 /\ bk.base[d][ch][hod][2] > 0 /\ <<d, ch>> \in DOMAIN inp.refs
  /\ IsOff(row, ch, bk.base[d][ch][hod], inp.refs[<<d, ch>>][2] - inp.refs[<<d, ch>>][1])

SiteCondition(inp, bk, d, m) ==
  /\ Cardinality(SiteDays(bk.flagHist[d][m.hod], m.day)) >= Params.kSite - 1
  /\ AfterBaseline(inp, d, m.day)
  /\ \E ch \in Active : OffBaseline(inp, bk, d, ch, Row(inp, d, m.hs), m.hod)

\* What the tick knows of a device with readings.
Info(inp, bk, d, row, m) ==
  [bad |-> QualityBad(row), point |-> PointFlag(row), ctx |-> ContextFlag(row),
   perf |-> bk.perf[d].confirmed, burst |-> BurstFlag(inp, d, m.hs),
   data |-> {ch \in Channels : RecentData(inp, d, m.day, ch)}]

Flagged(x) == x.point \/ x.ctx

Labels == <<"quality", "switch", "drift", "site", "transient", "environment", "anomaly">>

\* The label of a device is the first rule that applies.
Applies(inp, bk, x, global, d, m) ==
  << x.bad,
     x.burst /\ \E e \in {1, 2} : Entered(inp, d, m.day - e),
     bk.drift[d].triggers # {},
     Flagged(x) /\ SiteCondition(inp, bk, d, m),
     x.perf \/ x.data \cap Active # {},
     (x.point /\ global["point"]) \/ (x.ctx /\ global["ctx"]),
     Flagged(x) >>

\* Whose signals stand beside this alert, per label; bad devices have no signals.
Companions(bk, info, label, d) ==
  CASE label = "quality" -> {e \in DOMAIN info : info[e].bad}
    [] label = "switch" -> {e \in DOMAIN info : ~info[e].bad /\ info[e].burst}
    [] label = "drift" -> {e \in Devices : bk.drift[e].triggers # {}}
    [] label = "site" -> {}
    [] label = "transient" ->
         {e \in DOMAIN info : ~info[e].bad /\ (info[e].perf \/ info[e].data \cap Active # {})}
    [] label = "environment" -> {e \in DOMAIN info : ~info[e].bad /\ Flagged(info[e])}
    [] label = "anomaly" -> {d}

IsShared(devs, present) == Cardinality(devs) >= Threshold(Cardinality(present))

Global(info, label, global, d, bk) ==
  CASE label = "quality" -> IsShared({e \in DOMAIN info : info[e].bad}, DOMAIN info)
    [] label = "switch" -> global["burst"]
    [] label = "drift" -> bk.drift[d].scope = "global"
    [] label = "transient" ->
         (info[d].perf /\ global["perf"]) \/ \E ch \in info[d].data \cap Active : global[ch]
    [] label = "environment" -> TRUE
    [] OTHER -> FALSE

\* The common-mode counts over the devices with good data.
SignalsOver(info, present) ==
  [k \in Channels \cup {"point", "ctx", "perf", "burst"} |->
     IsShared({e \in present : CASE k = "point" -> info[e].point [] k = "ctx" -> info[e].ctx
                                 [] k = "perf" -> info[e].perf [] k = "burst" -> info[e].burst
                                 [] OTHER -> k \in info[e].data},
              present)]
GlobalSignals(info) == SignalsOver(info, {e \in DOMAIN info : ~info[e].bad})

\* Sums of the first days after the freeze, per wall hour.
Baseline(bk, inp, m) ==
  [d \in Devices |-> [ch \in Active |->
     IF d \in m.rows /\ InBaseline(inp, d, m.day)
       THEN [bk.base[d][ch] EXCEPT
               ![m.hod] = <<@[1] + Row(inp, d, m.hs).sum[ch], @[2] + Row(inp, d, m.hs).n[ch]>>]
       ELSE bk.base[d][ch]]]

\* The books the tick judges by.
BroughtUp(bk, inp, m) ==
  [bk EXCEPT !.perf = [d \in Devices |-> IF d \in m.rows THEN Advance(@[d], inp.perf[d], m.hs + Hour)
                                                          ELSE @[d]],
             !.base = Baseline(bk, inp, m)]

Marked(hist, devs, m) ==
  [d \in Devices |-> IF d \in devs THEN [hist[d] EXCEPT ![m.hod] = @ \cup {m.day}] ELSE hist[d]]

SiteDrift(bk, d, m) ==
  Cardinality({e \in bk.siteHist[d][m.hod] :
                 m.day - (Params.siteDriftWindow - 1) <= e /\ e < m.day}) + 1 >= Params.kSiteDrift

Alert(bk, m, info, global, d, label) ==
  [type |-> "alert", device |-> d, at |-> m.hs + Hour, label |-> label,
   global |-> Global(info, label, global, d, bk), co |-> Companions(bk, info, label, d),
   flags |-> <<info[d].point, info[d].ctx, info[d].burst>>,
   data |-> info[d].data \cap Active, perf |-> info[d].perf,
   note |-> label = "site" /\ SiteDrift(bk, d, m)]

\* The rules a device meets; without any there is no alert.
Rules(inp, bk, m, info, global) ==
  [d \in m.rows |-> {i \in 1..7 : Applies(inp, bk, info[d], global, d, m)[i]}]

Alerts(bk, m, info, global, rules) ==
  {Alert(bk, m, info, global, d, Labels[Min(rules[d])]) : d \in {e \in m.rows : rules[e] # {}}}

Recorded(bk, m, info, alerts) ==
  [books |-> [bk EXCEPT !.siteHist = Marked(@, {a.device : a \in {x \in alerts : x.label = "site"}}, m),
                        !.flagHist = Marked(@, {d \in m.rows : Flagged(info[d])}, m),
                        !.dayAlerts = @ \cup alerts],
   out |-> alerts]

\* The stages of the tick, last to first: rules and alerts, common mode, what is
\* known of each device, the books.
AlertBy(inp, bk, m, info, global) ==
  Recorded(bk, m, info, Alerts(bk, m, info, global, Rules(inp, bk, m, info, global)))
AlertOn(inp, bk, m, info) == AlertBy(inp, bk, m, info, GlobalSignals(info))
AlertAt(inp, bk, m) == AlertOn(inp, bk, m, [d \in m.rows |-> Info(inp, bk, d, Row(inp, d, m.hs), m)])
AlertHour(bk, inp, m) == AlertAt(inp, BroughtUp(bk, inp, m), m)
AlertTick(bk, inp, hs) == AlertHour(bk, inp, Moment(inp, hs))

--------------------------------------------------------------------------------
(* The decision tick at t; c holds t, the day it decides about and whether  *)
(* it is the day's end.  found is what is persistent, per device.           *)

DecisionOn(t, day) == [t |-> t, day |-> day, boundary |-> t = DayStart(day + 1)]
DecisionAt(t) == DecisionOn(t, LDay(t - 1))

IsCmdTick(timing, c) ==
  c.boundary \/ (timing.cmd # 0 /\ (c.t - DayStart(c.day)) % timing.cmd = 0)

\* Confirmed before midnight and not fallen back; or, with a waiting time,
\* confirmed for that long.
PerfPersistent(inp, tr, c) ==
  /\ tr.confirmed
  /\ IF inp.timing.wait = 0 THEN tr.since < DayStart(c.day) ELSE c.t - tr.since >= inp.timing.wait

\* Two days in a row, or the data and the performance layer on one day.
DataPersistent(inp, bk, d, day, ch) ==
  /\ Evaluable(inp, d, day) /\ DataDev(inp, d, day, ch)
  /\ DataDev(inp, d, day - 1, ch) \/ bk.perf[d].confirmed

\* The trigger classes a tick finds persistent; data classes only at the boundary.
Persistent(inp, bk, d, c) ==
  {ch \in Active : c.boundary /\ DataPersistent(inp, bk, d, c.day, ch)}
    \cup (IF PerfPersistent(inp, bk.perf[d], c) THEN {"perf"} ELSE {})

\* The trigger classes that have ended.
Fallen(inp, bk, d, c) ==
  {ch \in Active : c.boundary /\ Evaluable(inp, d, c.day) /\ ~DataDev(inp, d, c.day, ch)}
    \cup (IF bk.perf[d].confirmed THEN {} ELSE {"perf"})

\* Mutant: only the drift book ends, the episode stays open.
EndedBookOnly(bk, fallen) ==
  [bk EXCEPT !.drift = [d \in Devices |-> [@[d] EXCEPT !.triggers = @ \ fallen[d]]]]

\* Each class leaves the drift book and the open episode on its own.
Ended(bk, fallen) ==
  [bk EXCEPT
     !.drift = [d \in Devices |-> [bk.drift[d] EXCEPT !.triggers = @ \ fallen[d]]],
     !.episode = [d \in Devices |-> [k \in Triggers |-> IF k \in fallen[d] THEN 0 ELSE @[d][k]]]]

Present(inp, c) ==
  {d \in Devices : Evaluable(inp, d, IF c.boundary THEN c.day ELSE c.day - 1)}

\* A trigger class is global when enough evaluable devices share it.
GlobalDrift(found, present, d) ==
  \E k \in found[d] : IsShared({e \in present : k \in found[e]}, present)

\* The drift book: the scope is the one of the first trigger.
Drifting(bk, found, present) ==
  [d \in Devices |->
     IF found[d] = {} THEN bk.drift[d]
     ELSE IF bk.drift[d].triggers # {} THEN [bk.drift[d] EXCEPT !.triggers = @ \cup found[d]]
     ELSE [scope |-> IF GlobalDrift(found, present, d) THEN "global" ELSE "local",
           triggers |-> found[d]]]

FreshClasses(inp, bk, found, d) == {k \in found[d] : ~inp.timing.once \/ bk.episode[d][k] = 0}

\* Mutant: only what enters the drift book is commanded.
CommandedOnEntry(inp, bk, found, t) ==
  {d \in Devices : /\ bk.cooldown[d] <= t /\ FreshClasses(inp, bk, found, d) # {}
                   /\ bk.drift[d].triggers = {}}

\* A device that is not cooling down and has a class without a command gets one.
Commanded(inp, bk, found, t) ==
  {d \in Devices : bk.cooldown[d] <= t /\ FreshClasses(inp, bk, found, d) # {}}

EffectiveAt(inp, t) ==
  IF inp.timing.delta # 0 THEN t + inp.timing.delta
  ELSE IF inp.timing.cmd = 0 THEN Later(t, 1) ELSE t + inp.timing.cmd

\* Mutant: the cooldown counts from the decision.
CooldownFromDecision(inp, t) == Later(t, 1)

CooldownUntil(inp, t) == Later(EffectiveAt(inp, t), 1)

\* The commands of a tick, and the books after them.
Issued(inp, bk, c, found, present, devs) ==
  [books |-> [bk EXCEPT
     !.drift = Drifting(bk, found, present),
     !.episode = [d \in Devices |-> [k \in Triggers |->
        @[d][k] + (IF d \in devs /\ k \in FreshClasses(inp, bk, found, d) THEN 1 ELSE 0)]],
     !.seq = [d \in Devices |-> @[d] + (IF d \in devs THEN 1 ELSE 0)],
     !.cooldown = [d \in Devices |-> IF d \in devs THEN CooldownUntil(inp, c.t) ELSE @[d]]],
   out |-> {[type |-> "command", device |-> d, at |-> c.t, effective |-> EffectiveAt(inp, c.t),
             seq |-> bk.seq[d] + 1, global |-> GlobalDrift(found, present, d),
             triggers |-> found[d], co |-> {e \in present : found[e] \cap found[d] # {}},
             n |-> 1 + Max({bk.episode[d][k] : k \in FreshClasses(inp, bk, found, d)})] : d \in devs}]

\* The stages of the tick, last to first.
CmdFor(inp, bk, c, found) ==
  Issued(inp, bk, c, found, Present(inp, c), Commanded(inp, bk, found, c.t))
CmdOn(inp, bk, c) == CmdFor(inp, bk, c, [d \in Devices |-> Persistent(inp, bk, d, c)])
CmdAfter(inp, bk, c) == CmdOn(inp, Ended(bk, [d \in Devices |-> Fallen(inp, bk, d, c)]), c)
CmdTick(bk, inp, c) ==
  CmdAfter(inp, [bk EXCEPT !.perf = [d \in Devices |-> Advance(@[d], inp.perf[d], c.t)]], c)

\* The review of a day: what could not be judged, and the anomalies that a burst
\* explains now that a channel has entered deviation.
Explained(inp, c, a) ==
  \E b \in inp.bursts[a.device] :
    /\ a.at - Hour < b.ts /\ b.ts <= a.at
    /\ b.emitted <= c.t + Slide

Review(bk, inp, c) ==
  {[type |-> "review", device |-> d, at |-> c.t, kind |-> "not evaluable", hour |-> 0] :
     d \in {e \in Devices : <<e, c.day>> \in DOMAIN inp.evaluable /\ ~Evaluable(inp, e, c.day)}}
  \cup {[type |-> "review", device |-> a.device, at |-> c.t, kind |-> "switch", hour |-> a.at] :
           a \in {x \in bk.dayAlerts : x.label = "anomaly" /\ Entered(inp, x.device, c.day)
                                        /\ Explained(inp, c, x)}}

--------------------------------------------------------------------------------
(* One tick, and the whole offline run. *)

\* The day's end: the review, over the day's alerts.
Reviewed(inp, c, cmd) ==
  IF c.boundary THEN [books |-> [cmd.books EXCEPT !.dayAlerts = {}],
                      out |-> cmd.out \cup Review(cmd.books, inp, c)]
  ELSE cmd

\* What a step puts out, after what came before.
AlsoOut(out, step) == [books |-> step.books, out |-> out \cup step.out]

Decided(inp, c, alert) ==
  IF IsCmdTick(inp.timing, c) THEN AlsoOut(alert.out, CmdTick(alert.books, inp, c)) ELSE alert

TickOf(bk, inp, c) == Reviewed(inp, c, Decided(inp, c, AlertTick(bk, inp, c.t - Hour)))
TickAt(bk, inp, t) == TickOf(bk, inp, DecisionAt(t))

LastTick == DayStart(LastDay + 1)

NextTick(run, inp, t) == AlsoOut(run.out, TickAt(run.books, inp, t))

\* decide.py run: every hour of every day, with all inputs at hand.
Run(inp) ==
  LET st[k \in 0..(LastTick \div Hour)] ==
        IF k = 0 THEN [books |-> EmptyBooks, out |-> {}]
        ELSE NextTick(st[k - 1], inp, k * Hour)
  IN  st[LastTick \div Hour]

\* compare_logs.py: the moment a row belongs to; --cut keeps the rows up to one.
TickTime(row) == row.at + Slide
UpTo(rows, cut) == {r \in rows : TickTime(r) <= cut}
================================================================================
