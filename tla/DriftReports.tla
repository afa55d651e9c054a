------------------------------- MODULE DriftReports -------------------------------
(***************************************************************************)
(* The bursts that m5a/run_offline.py finds, and the properties that hold  *)
(* between the stream, its events and what run_grid.py counts in them; and *)
(* the streams and the days (DayLayer, DayExtract) in one specification.   *)
(***************************************************************************)
EXTENDS GridReport, DayExtract

CONSTANT FullStream      \* elements of a stream that goes through the whole grid

IndexOf(ts) == CHOOSE i \in DOMAIN rows : rows[i].ts = ts

\* The online module's own events as a pass.
Online ==
  [events |-> WithDevice(It, events), fwr |-> {[device |-> It, ts |-> t] : t \in unraised},
   times |-> [d \in Devices |-> IF d = It THEN TimesOf(rows) ELSE <<>>]]
Alarmed == {e \in ToSet(events) : e.level = "CANDIDATE"}

--------------------------------------------------------------------------------
(* run_offline.py *)

\* The run of nonzero elements around element i, or just before it.
RunLength(i) ==
  LET j == IF rows[i].x > 0 THEN i ELSE i - 1
      nonzero(a, b) == \A k \in a..b : rows[k].x > 0
      from == {a \in 1..j : nonzero(a, j)}
      to == {b \in j..Len(rows) : nonzero(j, b)}
  IN  IF from = {} THEN 0 ELSE Max(to) - Min(from) + 1

Bursts ==
  LET of(ts) == {i \in DOMAIN rows : ts <= rows[i].ts /\ rows[i].ts <= ts + Horizon}
      num(ts) == LET S == {i \in DOMAIN arrived : arrived[i].ts = ts}
                 IN  arrived[CHOOSE i \in S : TRUE].outliers
  IN  {[ts |-> c.ts,
        size |-> MapThenSumSet(LAMBDA i : num(rows[i].ts), of(c.ts)),
        peak |-> Max({rows[i].x : i \in of(c.ts)}),
        duration |-> RunLength(IndexOf(c.ts))] : c \in Alarmed}

--------------------------------------------------------------------------------
(* Properties *)

\* The elements since the last alarm, as far as the window reaches.
WindowAt(i) ==
  LET from == Max({0} \cup {k \in 1..i : \E c \in Alarmed : c.ts = rows[k].ts /\ k < i})
      all == [k \in 1..(i - from) |-> rows[from + k].x]
  IN  SubSeq(all, Max({1, Len(all) - WMax + 1}), Len(all))

\* The detector's running sums, its ring and its boundary always describe exactly
\* the last elements since the last alarm, however often they moved
\* (optwin_offline.Detector.update, with clear() after an alarm).
SumsAreExact ==
  LET alarmed == \E c \in Alarmed : Len(rows) > 0 /\ c.ts = rows[Len(rows)].ts
      w == IF alarmed THEN <<>> ELSE WindowAt(Len(rows))
      h == IF Len(w) < WMin THEN 0 ELSE Cut[Len(w)]
  IN  /\ det.n = Len(w) /\ det.h = h
      /\ \A i \in DOMAIN w : Get(det, i - 1) = w[i]
      /\ det.sumH = Total(1..h, w) /\ det.sqH = Squares(1..h, w)
      /\ det.sumN = Total((h + 1)..Len(w), w) /\ det.sqN = Squares((h + 1)..Len(w), w)

\* A check ends once: revoked at the first median of MedianSpan elements after the
\* candidate that is not above the threshold, confirmed at the K-th element if there
\* is none, and open as long as neither has come.  The threshold is that of the window
\* of the candidate (DriftGate.onElement, read by run_grid.gate_outcomes).
ExpectedOutcome(c) ==
  LET i == IndexOf(c.ts)
      w == WindowAt(i)
      hist == SubSeq(w, 1, Cut[Len(w)])
      origin == [median |-> Median(hist),
                 var |-> Variance(Total(1..Len(hist), hist), Squares(1..Len(hist), hist),
                                  Len(hist))]
      med(j) == Median([k \in 1..MedianSpan |-> rows[i + j - MedianSpan + k].x])
      after == IF Len(rows) - i <= K THEN Len(rows) - i ELSE K
      under == {j \in MedianSpan..after : ~Above(med(j), origin)}
  IN  IF under # {} THEN [level |-> "REVOKE", ts |-> rows[i + Min(under)].ts]
      ELSE IF Len(rows) - i >= K THEN [level |-> "CONFIRM", ts |-> rows[i + K].ts]
      ELSE [level |-> "UNRESOLVED", ts |-> 0]

ChecksConcludeOnce ==
  LET outcomes == GateOutcomes(Online)
  IN  /\ \A c \in DOMAIN outcomes : outcomes[c] = ExpectedOutcome(c)
      /\ \A i, j \in DOMAIN events :
           events[i].level # "CANDIDATE" /\ events[j].level # "CANDIDATE"
             /\ events[i].candidateTs = events[j].candidateTs => i = j
      /\ gate.pending <=> \E c \in DOMAIN outcomes : outcomes[c].level = "UNRESOLVED"

\* The blind spot of the report is the detector's: within an interval there is neither
\* another candidate nor a count of f_without_rise, so a segment counted as missed in the
\* blind spot could not have been seen (run_grid.blind_intervals, BLIND_ELEMENTS = W_MIN).
BlindMeansBlind ==
  \A b \in BlindIntervals(Online, It) :
    /\ \A c \in Alarmed : ~(b.start < c.ts /\ c.ts < b.end)
    /\ \A t \in unraised : ~(b.start < t /\ t < b.end)

SegmentsAgree(p) ==
  \A a, z \in 1..Slots[kind] :
    a <= z =>
      LET s == SegmentStats(p, SegmentAt("any", It, [start |-> a, end |-> z]))
      IN  /\ s.hasConfirm => s.hasCandidate /\ s.confirmDelay >= s.candDelay + K
          /\ s.blindMiss => ~s.hasConfirm

AllDays == {DayOf(ts) : ts \in 0..Slots[kind]}
DaysAddUp(p) ==
  /\ \A days \in SUBSET AllDays :
       LET r == StableDays(p, It, days)
       IN  r.starting = r.revoked + r.confirmed + r.unresolved /\ r.unresolved <= 1
  /\ LET all == StableDays(p, It, AllDays)
         scale == ScaleColumn(p, {[device |-> It, day |-> d] : d \in AllDays})
         tests == TriggerTests(p, It)
     IN  all.confirmed = all.confirms /\ all.confirms = scale.f + scale.t /\ tests.f = scale.f

\* One device's rows do not reach another's detector, a longer check neither sees other
\* candidates nor begins more checks, and what it confirms the shorter one confirms too if
\* it looked at it; stricter critical values do not raise the first candidate earlier.
ConfirmedToo(short, long) ==
  \A e \in DOMAIN short \cap DOMAIN long :
    long[e].level = "CONFIRM" => short[e].level = "CONFIRM"
CombinationsAgree(pass) ==
  /\ Own(pass[Default].events, It) = WithDevice(It, events)
  /\ \A c, d \in Combos :
       LET a == pass[c]
           b == pass[d]
       IN  /\ c.hourly = d.hourly /\ c.f = d.f /\ c.t = d.t /\ c.k < d.k =>
                /\ {<<e.device, e.ts>> : e \in Candidates(a)} = {<<e.device, e.ts>> : e \in Candidates(b)}
                /\ Cardinality(Starts(a)) >= Cardinality(Starts(b))
                /\ ConfirmedToo(GateOutcomes(a), GateOutcomes(b))
           /\ c.hourly = d.hourly /\ (\A n \in Windows : c.f[n] <= d.f[n] /\ c.t[n] <= d.t[n]) =>
                \A e \in Candidates(b) : \E q \in Candidates(a) : q.device = e.device /\ q.ts <= e.ts

\* The exclusion of the injections changes nothing before them.
ExclusionIsLocal(clean, injected) ==
  LET before(p, s) == {e \in p.events : e.ts <= s.start}
  IN  \A s \in InjectedSpans : (\A q \in InjectedSpans : s.start <= q.start) =>
        before(clean, s) = before(injected, s)

\* The tables of a combination say the same of the same events.
TablesAgree(p, injected, S) ==
  LET candidateTimes(pass, d) == {e.ts : e \in Own(Candidates(pass), d)}
      count(item, d) == Cardinality({r \in ItemRows(S.segments, item) : r.seg.device = d /\ r.st.hasCandidate})
  IN  /\ S.starting = S.revoked + S.confirmed + S.unresolved
      /\ S.confirms = SumOver(Devices, LAMBDA d : S.triggers[d].confirms)
      /\ S.stableConfirms = SumOver(S.perDay, LAMBDA r : r.confirms)
      /\ S.scale.f + S.scale.t <= S.confirms /\ S.scale.confirmed <= S.scale.f + S.scale.t
      /\ S.tailCandidates > 0 => \E r \in ItemRows(S.segments, "tail") : r.st.hasCandidate
      /\ \A d \in Devices :
           LET base == BaseRow(candidateTimes(p, d), candidateTimes(injected, d), d)
           IN  /\ base.tail = count("tail", d) /\ base.scale = count("scale", d)
               /\ base.sun = count("sun", d) /\ base.evening = count("evening", d)
               /\ base.inj = count("injection", d)

\* The whole experiment over the scores that arrived, as soon as they are complete.
Passes(scores) == [c \in Combos |-> RunCombo(StreamOf(scores, c.hourly), c)]
PassesAgree(clean, injected) ==
  /\ CombinationsAgree(injected)
  /\ \A c \in Combos : /\ ~c.hourly => ExclusionIsLocal(clean[c], injected[c])
                        /\ TablesAgree(clean[c], injected[c], Analyse(clean[c], injected[c]))
GridAgrees == PassesAgree(Passes(Excluded(arrived)), Passes(arrived))

\* The rule of section 4 never goes back: what it changed to does not change again to
\* what it was.
RuleSettles ==
  LET summaries == [stableConfirms : 0..5, tailConfirmed : 0..1, scaleConfirmed : 0..1]
  IN  \A s, n \in summaries :
        Selection(s, [one |-> n]) # "default" => Selection(n, [one |-> s]) = "default"

\* Whatever the segment: it has no confirmation without a candidate, the confirmation
\* comes a whole check after the first candidate, and a segment is not both missed and
\* hit.  On any set of stable days the checks that began there are revoked, confirmed or,
\* at most one, without an outcome; the tables count the same events the same; and the
\* combinations of the grid differ only as their parameters do
\* (run_grid.segment_stats, analyse, run_combo).
ReportAgrees ==
  /\ clock = 0 => RuleSettles
  /\ clock = Slots[kind] => SegmentsAgree(Online) /\ DaysAddUp(Online)
  /\ kind = "tenMinutes" /\ clock = Slots[kind] /\ Len(rows) >= FullStream => GridAgrees

\* A burst that is out is the one the offline script finds, and stays so; those that
\* are not out are still within the hour or in an open run, and none is lost
\* (M5aCore.element, prepare_inputs.simulate_bursts, run_offline.bursts).
OnlineBurstsAreOffline ==
  kind = "rate" =>
    /\ emitted \subseteq Bursts
    /\ {c.ts : c \in Alarmed} = {b.ts : b \in emitted \cup pending}
    /\ {b.ts : b \in emitted} \cap {q.ts : q \in pending} = {}
    /\ \A q \in pending : q.open \/ rows[Len(rows)].ts <= q.ts + Horizon

\* The hours given to the detector are the offline hours, each once and in order; only
\* the open one is missing, however the timers and the windows interleave
\* (M5bFunction.processElement and onTimer, prepare_streams.py).
HourlyIsOffline ==
  kind = "hourly" =>
    /\ ToSet(rows) = {r \in HourlyMedians(arrived) : r.ts # bucket.hour}
    /\ \A i, j \in DOMAIN rows : i < j => rows[i].ts < rows[j].ts
    /\ bucket.hour # NoHour => bucket.values = ValuesIn(arrived, bucket.hour)

--------------------------------------------------------------------------------
(* The streams of DriftStream and the days of DayLayer: one run of one      *)
(* device looks at one of them.                                             *)

LayersInit == Init /\ DayInit /\ (kind # "days" => plan = CHOOSE p \in Plans : TRUE)

LayersNext ==
  \/ kind # "days" /\ Next /\ UNCHANGED dayVars
  \/ kind = "days" /\ DayNext /\ UNCHANGED vars

LayersSpec == LayersInit /\ [][LayersNext]_<<vars, dayVars>>
================================================================================
