------------------------------ MODULE FleetTiming ------------------------------
(***************************************************************************)
(* What the two scripts about time say of a run: m7/scan_time_params.py    *)
(* runs the decisions again under every choice of period, waiting time and *)
(* lead time, and says of every long spell of the performance layer that   *)
(* led to no command which rule stood in its way; m7/latency_table.py sets *)
(* the first signal of the event against the first alert that carries it.  *)
(***************************************************************************)
EXTENDS FleetReports

OfDevice(rows, d) == {r \in rows : r.device = d}
FirstAt(rows) == CHOOSE r \in rows : \A s \in rows : r.at <= s.at

--------------------------------------------------------------------------------
(* scan_time_params.py *)

\* An hour's lead with decisions every day, 24 hours for a day's with hourly ones.
ScanTimings ==
  {[once |-> TRUE, cmd |-> c, wait |-> w,
    delta |-> IF c # 0 /\ l = 0 THEN HoursPerDay * Hour ELSE l] :
     c \in {Hour, 0}, w \in Study.waits \cup {0}, l \in {Hour, 0}}

\* Confirmed spells with the moment of their fallback, zero for none.
PerfSpells(inp, d) ==
  LET times == {x.ts : x \in inp.perf[d]}
      at == [t \in times |-> Advance(NewTracker, inp.perf[d], t)]
      was(t) == LET past == {u \in times : u < t} IN past # {} /\ at[Max(past)].confirmed
      falls == {t \in times : ~at[t].confirmed /\ was(t)}
  IN  {[device |-> d, since |-> at[t].since, fallen |-> FirstDay({f \in falls : f > t})] :
         t \in {u \in times : at[u].confirmed /\ ~was(u)}}

InCommon(ts) == \E s \in Study.common : s.start <= ts /\ ts <= s.end
CommonDays == UNION {LDay(s.start)..LDay(s.end) : s \in Study.common}

\* The confirmation a command of the performance layer rests on.
SinceOf(spells, c) == Max({s.since : s \in {x \in spells : x.device = c.device /\ x.since <= c.at}})

Summary(spells, cm) ==
  LET perf == {c \in cm : "perf" \in c.triggers}
  IN  [commands |-> Cardinality(cm), perf |-> perf,
       common |-> {c \in perf : InCommon(SinceOf(spells, c))},
       gas |-> {c \in cm : Study.gas \in c.triggers /\ CommandDay(c) \in CommonDays}]

\* The decision ticks in a..b; of the days, those found by going hour by hour.
DecisionTicks(timing, a, b) ==
  IF timing.cmd # 0 THEN {t \in a..b : t % Hour = 0}
  ELSE {DayStart(LDay(x) + 1) : x \in {t \in a..b : (t - a) % Hour = 0}} \cap (a..b)

LongSpells(timing, spells) ==
  {s \in spells : timing.wait # 0 /\ InCommon(s.since) /\ s.fallen # 0 /\ s.fallen - s.since >= timing.wait}

CoolingUntil(cm, d, t) ==
  Max({0} \cup {Later(c.effective, 1) : c \in {x \in cm : x.device = d /\ x.at < t}})

\* What became of a long spell.
Outcome(timing, cm, s) ==
  LET hit == {c \in cm : c.device = s.device /\ "perf" \in c.triggers
                         /\ s.since <= c.at /\ c.at <= s.fallen}
      ticks == DecisionTicks(timing, s.since + timing.wait, s.fallen)
  IN  IF hit # {} THEN {"command"}
      ELSE IF ticks = {} THEN {"no tick"}
      ELSE {IF CoolingUntil(cm, s.device, t) > t THEN "cooldown" ELSE "other" : t \in ticks}

\* From the deviation the data layer entered last, or the confirmation.
ScanLatency(inp, spells, c, chs) ==
  LET entered == UNION {{e \in Entries(inp, c.device, ch, "DEVIATE") : e <= CommandDay(c)} : ch \in chs}
      from == IF chs # {} THEN DayStart(Max(entered)) ELSE SinceOf(spells, c)
  IN  [decision |-> (c.at - from) \div Hour, effective |-> (c.effective - from) \div Hour]

ScanLatencies(inp, spells, cm) ==
  LET watched == {c \in cm : c.device = Study.sunny /\ Study.watched \in c.triggers}
  IN  {ScanLatency(inp, spells, c, c.triggers \ {"perf"}) : c \in {x \in cm : CommandDay(x) \in Study.eventDays}}
      \cup (IF watched = {} THEN {} ELSE {ScanLatency(inp, spells, FirstAt(watched), {Study.watched})})

--------------------------------------------------------------------------------
(* latency_table.py *)

\* The moment a transition of those days is put out.
DeviateEmissions(inp, d, ch, days) == {DayStart(e + 1) : e \in Entries(inp, d, ch, "DEVIATE") \cap days}

EventFrom == DayStart(Min(Study.eventDays))
EventUntil == DayStart(Max(Study.eventDays) + 1)

Signal(at, kind) == [at |-> at, kind |-> kind]

EventSignals(inp, d) ==
  LET hours(Flag(_)) == {Signal(x[2] + Hour, "") : x \in {y \in DOMAIN inp.hours :
                           y[1] = d /\ EventFrom <= y[2] /\ y[2] < EventUntil /\ Flag(inp.hours[y])}}
      named(S, kind) == {[s EXCEPT !.kind = kind] : s \in S}
  IN  named(hours(PointFlag), "point") \cup named(hours(ContextFlag), "ctx")
      \cup {Signal(x.ts, x.level) : x \in {y \in inp.perf[d] : y.level \in {"CANDIDATE", "CONFIRM"}
                                                              /\ EventFrom <= y.ts /\ y.ts < EventUntil}}
      \cup {Signal(b.emitted, "burst") : b \in {x \in inp.bursts[d] : EventFrom <= x.emitted
                                                  /\ x.emitted < EventUntil + HoursPerDay * Hour}}
      \cup UNION {{Signal(t, ch) : t \in DeviateEmissions(inp, d, ch, Study.eventDays)} : ch \in Active}

\* Of one moment the first by name, as the sort of the pairs has it.
KindOrder == <<"ctx", "CANDIDATE", "CONFIRM">> \o SetToSeq(Active) \o <<"point", "burst">>
FirstSignal(sig) ==
  LET rank(s) == CHOOSE i \in DOMAIN KindOrder : KindOrder[i] = s.kind
  IN  CHOOSE s \in sig : \A x \in sig : s.at < x.at \/ (s.at = x.at /\ rank(s) <= rank(x))

Carries(a, kind) ==
  CASE kind = "point" -> a.flags[1]
    [] kind = "ctx" -> a.flags[2]
    [] kind = "burst" -> a.flags[3]
    [] kind \in {"CANDIDATE", "CONFIRM"} -> a.perf
    [] OTHER -> kind \in a.data

\* When the first alert that carries a signal, and the first of some commands, go out.
Response(al, cm, d, s) ==
  LET carrying == {a \in OfDevice(al, d) : a.at >= s.at /\ Carries(a, s.kind)}
      own == OfDevice(cm, d)
  IN  [alert |-> IF carrying = {} THEN 0 ELSE FirstAt(carrying).at + Slide,
       decided |-> IF own = {} THEN 0 ELSE FirstAt(own).at + Slide,
       effective |-> IF own = {} THEN 0 ELSE FirstAt(own).effective]

EventResponse(al, cm, d, s) == Response(al, {c \in cm : CommandDay(c) \in Study.eventDays}, d, s)

\* One channel over some days: from its first deviation.
ChannelResponse(inp, al, cm, d, ch, days) ==
  {Response(al, {c \in cm : ch \in c.triggers /\ CommandDay(c) \in days}, d, Signal(Min(ts), ch)) :
     ts \in {DeviateEmissions(inp, d, ch, days)} \ {{}}}

--------------------------------------------------------------------------------
(* What the two scripts rely on. *)

ConfirmedAt(spells, d, t) ==
  \E s \in spells : s.device = d /\ s.since <= t /\ (s.fallen = 0 \/ t < s.fallen)

\* A spell before fell back and no decision tick saw it: its episode is still open.
UnseenFallback(timing, spells, cm, s) ==
  \E c \in cm : /\ c.device = s.device /\ "perf" \in c.triggers /\ c.at < s.since
                /\ \A t \in {k * Hour : k \in 0..(LastTick \div Hour)} :
                     c.at < t /\ t <= s.since /\ IsCmdTick(timing, DecisionAt(t)) => ConfirmedAt(spells, s.device, t)

\* The scan names the rule that held a long spell back.  It has none to name only
\* at the tick of the fallback itself, or when an open episode hides the spell.
OutcomesExplained(timing, spells, cm) ==
  \A s \in LongSpells(timing, spells) :
    "other" \in Outcome(timing, cm, s) =>
      \/ UnseenFallback(timing, spells, cm, s)
      \/ s.fallen \in DecisionTicks(timing, s.since + timing.wait, s.fallen)

ScanRowAgrees(inp, timing, spells, cm) ==
  /\ OutcomesExplained(timing, spells, cm)
  /\ \A sum \in {Summary(spells, cm)} :
       /\ \A c \in sum.perf : ConfirmedAt(spells, c.device, c.at)
       /\ sum.common \subseteq sum.perf /\ Cardinality(sum.perf \cup sum.gas) <= sum.commands
  /\ \A r \in ScanLatencies(inp, spells, cm) : 0 <= r.decision /\ r.decision <= r.effective

ScanAgrees(inp, spells) ==
  \A timing \in ScanTimings :
    ScanRowAgrees(inp, timing, spells, Of(Run([inp EXCEPT !.timing = timing]).out, "command"))

\* A signal is in the alert of the first hour that can know of it.
AnsweredBy(r, ends) == ends # {} => r.alert # 0 /\ r.alert <= Min(ends) + Slide
SignalIsCarried(spells, d, ends, s, r) ==
  /\ r.alert # 0 => r.alert >= s.at + Slide
  /\ s.kind \in {"point", "ctx"} => r.alert = s.at + Slide
  /\ s.kind = "CONFIRM" => AnsweredBy(r, {t \in ends : t >= s.at /\ ConfirmedAt(spells, d, t)})
  /\ s.kind \in Active => AnsweredBy(r, {t \in ends : LDay(t - Hour) - LDay(s.at) \in {0, 1}})

SignalsAreCarried(inp, spells, al, cm) ==
  \A d \in Devices : \A sig \in {EventSignals(inp, d)} \ {{}} :
    SignalIsCarried(spells, d, {x[2] + Hour : x \in {y \in DOMAIN inp.hours : y[1] = d}},
                    FirstSignal(sig), EventResponse(al, cm, d, FirstSignal(sig)))

TimingReportAgrees(inp, al, cm) ==
  /\ \A spells \in {UNION {PerfSpells(inp, d) : d \in Devices}} :
       /\ \A d \in Devices : {s.since : s \in OfDevice(spells, d)} = Spells(inp, d)
       /\ ScanAgrees(inp, spells)
       /\ SignalsAreCarried(inp, spells, al, cm)
  /\ \A d \in Devices, ch \in Active : \A r \in ChannelResponse(inp, al, cm, d, ch, 1..LastDay) :
       r.decided # 0 => r.effective > r.decided - Slide

\* The reports on a finished run are consistent with it and with each other: each
\* script works out again, in its own way, what the decisions were made from.
FleetReportAgrees ==
  next = NoTick =>
    /\ \A inp \in {Prepare(scenario)} :
         /\ DecisionReportAgrees(inp, Of(offline, "alert"), Of(offline, "command"))
         /\ TimingReportAgrees(inp, Of(offline, "alert"), Of(offline, "command"))
    /\ DayReportAgrees
================================================================================
