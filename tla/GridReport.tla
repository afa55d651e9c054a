-------------------------------- MODULE GridReport --------------------------------
(***************************************************************************)
(* m5b/run_grid.py: every combination of critical values, granularity and  *)
(* K over the recorded element streams, and what is counted in its events; *)
(* m5b/prepare_streams.py makes the streams.  The fleet is the device of   *)
(* DriftStream, whose scores are those that arrived there, and a second    *)
(* one with the scores Other.  Days are the days of universal time.        *)
(*                                                                         *)
(* A pass is a set of events, a set fwr of [device, ts] where the variance *)
(* rose without the mean, and the times of the elements of each device.    *)
(***************************************************************************)
EXTENDS DriftStream

CONSTANTS
  AttrTail,               \* ATTR_TAIL, 6 hours
  SlotsPerDay,
  Other,                  \* the second device's scores, [ts, x]
  Combos, Default,        \* the grid, and the combination of the online module
  Stable,                 \* [device, day] of the stable days
  Profile,                \* daily channel profile: [device, day, channel, ref, width]
  TailSpan, SunSpans, EveningSpan,    \* the registered periods
  InjectedSpans           \* the intervals injected into It

It == "it"
Devices == {It, "other"}

ASSUME GridAssumption ==
  /\ AttrTail \in Nat /\ SlotsPerDay \in Nat \ {0}
  /\ \A i \in DOMAIN Other : Other[i].ts \in Nat /\ Other[i].x \in Nat
  /\ \A i, j \in DOMAIN Other : i < j => Other[i].ts < Other[j].ts
  /\ Default \in Combos
  /\ \A c \in Combos : c.k \in Nat /\ c.k >= MedianSpan /\ c.hourly \in BOOLEAN
  /\ \A r \in Profile : r.device \in Devices /\ r.ref \in Nat /\ r.width \in Nat
  /\ \A s \in {TailSpan, EveningSpan} \cup SunSpans \cup InjectedSpans : s.start \in Nat /\ s.end \in Nat

SumOver(S, f(_)) == FoldSet(LAMBDA x, acc : acc + f(x), 0, S)
DayOf(ts) == ts \div SlotsPerDay
DayStart(day) == day * SlotsPerDay

--------------------------------------------------------------------------------
(* prepare_streams.py *)

\* A window overlaps an injected interval, or the length of one window after it.
Overlaps(ts, s) == ts > s.start /\ ts - 1 < s.end + 1

Excluded(scores) == SelectSeq(scores, LAMBDA r : \A s \in InjectedSpans : ~Overlaps(r.ts, s))

\* A stream file: the elements of each device in the order of time.
StreamOf(scores, hourly) ==
  LET of(d) == IF d = It THEN scores ELSE Other
  IN  [d \in Devices |->
         IF hourly THEN SetToSortSeq(HourlyMedians(of(d)), LAMBDA a, b : a.ts < b.ts) ELSE of(d)]

--------------------------------------------------------------------------------
(* A combination over a stream *)

Grid(k, f, t) == INSTANCE OptWin WITH K <- k, FCrit <- f, TCrit <- t

\* run_combo for one device.
Ran(s, u, g, unraisedAt) ==
  [det |-> u.det, gate |-> g.gate, events |-> s.events \o g.out,
   fwr |-> IF u.unraised THEN s.fwr \cup {unraisedAt} ELSE s.fwr]
RunGate(s, e, u, device, c) ==
  Ran(s, u, Grid(c.k, c.f, c.t)!OnElement(s.gate, e.ts, e.x, u.alarm), [device |-> device, ts |-> e.ts])
RunDevice(device, elements, c) ==
  LET step(s, e) == RunGate(s, e, Grid(c.k, c.f, c.t)!Update(s.det, e.x), device, c)
  IN  FoldLeft(step, [det |-> NewDetector, gate |-> NewGate, events |-> <<>>, fwr |-> {}], elements)

WithDevice(device, sequence) ==
  {[device |-> device, ts |-> e.ts, level |-> e.level, test |-> e.test,
    candidateTs |-> e.candidateTs, duringCheck |-> e.duringCheck] : e \in ToSet(sequence)}
TimesOf(elements) == [i \in DOMAIN elements |-> elements[i].ts]

PassOf(recorded, ran) ==
  [events |-> UNION {WithDevice(d, ran[d].events) : d \in Devices},
   fwr |-> UNION {ran[d].fwr : d \in Devices},
   times |-> [d \in Devices |-> TimesOf(recorded[d])]]
RunCombo(recorded, c) == PassOf(recorded, [d \in Devices |-> RunDevice(d, recorded[d], c)])

--------------------------------------------------------------------------------
(* Helpers of the counts *)

Level(p, level) == {e \in p.events : e.level = level}
Candidates(p) == Level(p, "CANDIDATE")
Starts(p) == {e \in Candidates(p) : ~e.duringCheck}
FirstOf(S) == CHOOSE e \in S : \A f \in S : e.ts <= f.ts
Own(S, device) == {e \in S : e.device = device}

\* A candidate belongs to every segment it lies in, or follows within AttrTail.
Attributed(ts, seg) == seg.start <= ts /\ ts <= seg.end + AttrTail

\* The outcome of each candidate that began a check.
GateOutcomes(p) ==
  [c \in Starts(p) |->
     LET ends == {e \in Level(p, "CONFIRM") \cup Level(p, "REVOKE") :
                    e.device = c.device /\ e.candidateTs = c.ts}
     IN  IF ends = {} THEN [level |-> "UNRESOLVED", ts |-> 0]
         ELSE LET e == CHOOSE x \in ends : TRUE IN [level |-> e.level, ts |-> e.ts]]

IndexIn(times, ts) == CHOOSE i \in DOMAIN times : times[i] = ts

\* From each candidate to the BLIND_ELEMENTS-th element after it.
BlindIntervals(p, device) ==
  LET times == p.times[device]
      end(ts) == LET i == IndexIn(times, ts) + WMin IN times[IF i <= Len(times) THEN i ELSE Len(times)]
  IN  {[start |-> c.ts, end |-> end(c.ts)] : c \in Own(Candidates(p), device)}

\* Elements after the start of the segment, up to the event.
Delay(p, seg, ts) ==
  LET times == p.times[seg.device]
  IN  Cardinality({i \in DOMAIN times : seg.start < times[i] /\ times[i] <= ts})

\* Mutant: a confirmation belongs to the segment it falls in itself.
ConfirmsAtTime(p, seg) == {e \in Own(Level(p, "CONFIRM"), seg.device) : Attributed(e.ts, seg)}

\* A confirmation belongs to the segments of its candidate.
ConfirmsOf(p, seg) == {e \in Own(Level(p, "CONFIRM"), seg.device) : Attributed(e.candidateTs, seg)}
CandidatesOf(p, seg) == {e \in Own(Candidates(p), seg.device) : Attributed(e.ts, seg)}

SegmentStats(p, seg) ==
  LET cands == CandidatesOf(p, seg)
      confs == ConfirmsOf(p, seg)
      blind == \E b \in BlindIntervals(p, seg.device) : b.start <= seg.end /\ b.end >= seg.start
  IN  [candidates |-> Cardinality(cands),
       hasCandidate |-> cands # {},
       hasConfirm |-> confs # {},
       firstTest |-> IF cands = {} THEN "" ELSE FirstOf(cands).test,
       fwr |-> Cardinality({w \in Own(p.fwr, seg.device) : seg.start <= w.ts /\ w.ts < seg.end}),
       blindMiss |-> blind /\ cands = {},
       candDelay |-> IF cands = {} THEN -1 ELSE Delay(p, seg, FirstOf(cands).ts),
       confirmDelay |-> IF confs = {} THEN -1 ELSE Delay(p, seg, FirstOf(confs).ts)]

--------------------------------------------------------------------------------
(* Inputs *)

StableOf(device) == {s.day : s \in Own(Stable, device)}

\* The device days with a channel wider than three times its reference, and those
\* with Gas at least one and a half times as wide.
Wide == {[device |-> r.device, day |-> r.day] : r \in {q \in Profile : q.ref > 0 /\ q.width > 3 * q.ref}}
WideGas ==
  {[device |-> r.device, day |-> r.day] :
     r \in {q \in Profile : q.channel = "Gas" /\ q.ref > 0 /\ 2 * q.width >= 3 * q.ref}}

SegmentAt(item, device, span) == [item |-> item, device |-> device, start |-> span.start, end |-> span.end]

Segments ==
  {SegmentAt("tail", d, TailSpan) : d \in Devices}
  \cup {SegmentAt("scale", w.device, [start |-> DayStart(w.day), end |-> DayStart(w.day + 1)]) : w \in Wide}
  \cup {SegmentAt("sun", It, s) : s \in SunSpans}
  \cup {SegmentAt("evening", d, EveningSpan) : d \in Devices}
InjectionSegments == {SegmentAt("injection", It, s) : s \in InjectedSpans}

--------------------------------------------------------------------------------
(* analyse *)

OnDays(S, days) == {e \in S : DayOf(e.ts) \in days}

\* Item 1: a device's stable days; an outcome belongs to the day of its candidate.
StableDays(p, device, days) ==
  LET outcomes == GateOutcomes(p)
      cands == OnDays(Own(Candidates(p), device), days)
      starts == {e \in cands : ~e.duringCheck}
      ended(level) == Cardinality({c \in starts : outcomes[c].level = level})
  IN  [confirms |-> Cardinality(OnDays(Own(Level(p, "CONFIRM"), device), days)),
       candidates |-> Cardinality(cands),
       starting |-> Cardinality(starts),
       during |-> Cardinality(cands) - Cardinality(starts),
       revoked |-> ended("REVOKE"), confirmed |-> ended("CONFIRM"), unresolved |-> ended("UNRESOLVED"),
       fwr |-> Cardinality(OnDays(Own(p.fwr, device), days))]

\* A line of item1_per_day, for the stable days with events.
StableDay(p, device, day) ==
  [confirms |-> Cardinality(OnDays(Own(Level(p, "CONFIRM"), device), {day})),
   candidates |-> Cardinality(OnDays(Own(Candidates(p), device), {day}))]

\* Items 2, 3, 4 on the clean streams, item 7 on those with the injections.
SegmentRows(p, injected) ==
  {[seg |-> s, st |-> SegmentStats(p, s)] : s \in Segments}
  \cup {[seg |-> s, st |-> SegmentStats(injected, s)] : s \in InjectionSegments}
ItemRows(rowset, item) == {r \in rowset : r.seg.item = item}

\* Item 3: a wide day with a confirmation, by the confirmation's own day.
ScaleRow(p, w) ==
  LET on == OnDays(Own(Level(p, "CONFIRM"), w.device), {w.day})
      f == Cardinality({e \in on : e.test = "F"})
  IN  [confirms |-> Cardinality(on), f |-> f, t |-> Cardinality(on) - f]
ScaleColumn(p, days) ==
  [days |-> Cardinality(days), confirmed |-> Cardinality({w \in days : ScaleRow(p, w).confirms > 0}),
   f |-> SumOver(days, LAMBDA w : ScaleRow(p, w).f), t |-> SumOver(days, LAMBDA w : ScaleRow(p, w).t)]

TriggerTests(p, device) ==
  LET confirms == Own(Level(p, "CONFIRM"), device)
      f == Cardinality({e \in confirms : e.test = "F"})
  IN  [confirms |-> Cardinality(confirms), f |-> f, t |-> Cardinality(confirms) - f]

\* The summary of a combination and its long tables.
Analyse(p, injected) ==
  LET segs == SegmentRows(p, injected)
      stable == [d \in Devices |-> StableDays(p, d, StableOf(d))]
      over(field(_)) == SumOver(Devices, LAMBDA d : field(stable[d]))
      with(item, has(_)) == Cardinality({r \in ItemRows(segs, item) : has(r.st)})
      fwr(item) == SumOver(ItemRows(segs, item), LAMBDA r : r.st.fwr)
      candidate(st) == st.hasCandidate
      confirm(st) == st.hasConfirm
      inTail == {e \in Candidates(p) : TailSpan.start <= e.ts /\ e.ts < TailSpan.end}
  IN  [confirms |-> Cardinality(Level(p, "CONFIRM")), revokes |-> Cardinality(Level(p, "REVOKE")),
       candidates |-> Cardinality(Candidates(p)),
       stableConfirms |-> over(LAMBDA r : r.confirms), starting |-> over(LAMBDA r : r.starting),
       revoked |-> over(LAMBDA r : r.revoked), confirmed |-> over(LAMBDA r : r.confirmed),
       unresolved |-> over(LAMBDA r : r.unresolved), stableFwr |-> over(LAMBDA r : r.fwr),
       tailConfirmed |-> with("tail", confirm), tailCandidates |-> Cardinality(inTail),
       sun |-> <<with("sun", candidate), with("sun", confirm)>>,
       evening |-> <<with("evening", candidate), with("evening", confirm)>>,
       injections |-> <<with("injection", candidate), with("injection", confirm)>>,
       blindMisses |-> Cardinality({r \in segs : r.st.blindMiss}),
       fwr |-> [item \in {"tail", "sun", "evening", "injection"} |-> fwr(item)],
       scale |-> ScaleColumn(p, Wide), gas |-> ScaleColumn(p, WideGas),
       perDevice |-> stable,
       perDay |-> {r \in {StableDay(p, s.device, s.day) @@ s : s \in Stable} : r.confirms + r.candidates > 0},
       segments |-> segs,
       triggers |-> [d \in Devices |-> TriggerTests(p, d)]]

\* The baseline's alarms against the segments of a device.
Hit(alarms, seg) == \E ts \in alarms : Attributed(ts, seg)
BaseRow(alarms, injected, device) ==
  LET hits(item, pool) == Cardinality({s \in Own(Segments \cup InjectionSegments, device) :
                                         s.item = item /\ Hit(pool, s)})
  IN  [total |-> Cardinality(alarms), tail |-> hits("tail", alarms), scale |-> hits("scale", alarms),
       sun |-> hits("sun", alarms), evening |-> hits("evening", alarms), inj |-> hits("injection", injected)]

--------------------------------------------------------------------------------
(* selection: section 4 of the protocol *)

\* The default confirms clearly more on stable days: half as many again, and three.
ClearlyHigher(a, b) == 2 * a >= 3 * b /\ a - b >= 3
Better(default, s) ==
  /\ ClearlyHigher(default.stableConfirms, s.stableConfirms)
  /\ s.tailConfirmed >= default.tailConfirmed
  /\ s.scaleConfirmed >= default.scaleConfirmed

\* The default stays unless exactly one neighbour is better; "ask" if several are.
Selection(default, neighbours) ==
  LET hits == {n \in DOMAIN neighbours : Better(default, neighbours[n])}
  IN  IF hits = {} THEN "default"
      ELSE IF Cardinality(hits) = 1 THEN CHOOSE n \in hits : TRUE ELSE "ask"
================================================================================
