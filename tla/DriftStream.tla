------------------------------- MODULE DriftStream -------------------------------
(***************************************************************************)
(* One device's stream of elements through the detector, in the three      *)
(* places the program does so:                                             *)
(*   "tenMinutes", "hourly"  M5bFunction: main scores of the context       *)
(*                           windows, or their hourly median               *)
(*   "rate"                  the outlier rate of each ten minutes, with    *)
(*                           the bursts of M5aCore.element, which          *)
(*                           prepare_inputs.simulate_bursts replays        *)
(* and the gate after it, as run_stream puts it after every detector.      *)
(* "days" is the kind of a device whose days alone are looked at.          *)
(*                                                                         *)
(* Time is counted in slots of ten minutes; a window or a bin is at its    *)
(* end.  arrived is what came in, rows what the detector was given.        *)
(***************************************************************************)
EXTENDS OptWin, SequencesExt

CONSTANTS Kinds, Values, Bins, RateUnit, Slots, SlotsPerHour

ASSUME StreamAssumption ==
  /\ Kinds \subseteq {"tenMinutes", "hourly", "rate", "days"}
  /\ Values \subseteq Nat
  /\ Bins \subseteq [outliers : Nat, admitted : Nat]
  /\ \A b \in Bins : b.outliers <= b.admitted
  /\ RateUnit \in Nat /\ Slots \in [Kinds -> Nat] /\ SlotsPerHour \in Nat \ {0}

VARIABLES kind, clock, arrived, rows, det, gate, events, unraised,
          bucket, timers,                \* the open hour, and the event timers set
          pending, lastRun, emitted      \* the bursts

vars == <<kind, clock, arrived, rows, det, gate, events, unraised, bucket, timers,
          pending, lastRun, emitted>>
stream == <<det, gate, rows, events, unraised>>
hours == <<bucket, timers>>
bursts == <<pending, lastRun, emitted>>

Horizon == SlotsPerHour      \* HORIZON, 3600 seconds
Fallback == 2 * SlotsPerHour \* HOUR_FALLBACK_SEC
NoHour == -1

Init ==
  /\ kind \in Kinds
  /\ clock = 0 /\ arrived = <<>> /\ rows = <<>>
  /\ det = NewDetector /\ gate = NewGate
  /\ events = <<>> /\ unraised = {}
  /\ bucket = [hour |-> NoHour, values |-> <<>>] /\ timers = {}
  /\ pending = {} /\ lastRun = 0 /\ emitted = {}

--------------------------------------------------------------------------------
\* One element into the detector and the gate: M5bFunction.feed, run_stream.
FeedGate(ts, x, u) ==
  \E g \in {OnElement(gate, ts, x, u.alarm)} :
    /\ det' = u.det
    /\ gate' = g.gate
    /\ rows' = Append(rows, [ts |-> ts, x |-> x])
    /\ events' = events \o g.out
    /\ unraised' = IF u.unraised THEN unraised \cup {ts} ELSE unraised
Feed(ts, x) == \E u \in {Update(det, x)} : FeedGate(ts, x, u)

Arrives(r) == clock < Slots[kind] /\ clock' = clock + 1 /\ arrived' = Append(arrived, r)

\* No window in these ten minutes; a bin without rounds has none admitted.
Nothing ==
  /\ kind \in {"tenMinutes", "hourly"}
  /\ clock < Slots[kind] /\ clock' = clock + 1
  /\ UNCHANGED <<kind, arrived, stream, hours, bursts>>

ScoreWindow(x) ==
  /\ kind = "tenMinutes"
  /\ Arrives([ts |-> clock + 1, x |-> x])
  /\ Feed(clock + 1, x)
  /\ UNCHANGED <<kind, hours, bursts>>

--------------------------------------------------------------------------------
(* The hourly granularity *)

HourOf(ts) == (ts \div SlotsPerHour) * SlotsPerHour

\* The first window of another hour closes the open one.
HourWindow(x) ==
  LET ts == clock + 1
      same == bucket.hour = HourOf(ts)
  IN  /\ kind = "hourly"
      /\ Arrives([ts |-> ts, x |-> x])
      /\ IF bucket.hour # NoHour /\ ~same THEN Feed(bucket.hour, Median(bucket.values))
                                          ELSE UNCHANGED stream
      /\ bucket' = IF same THEN [bucket EXCEPT !.values = Append(@, x)]
                           ELSE [hour |-> HourOf(ts), values |-> <<x>>]
      /\ timers' = IF same THEN timers ELSE timers \cup {HourOf(ts) + Fallback}
      /\ UNCHANGED <<kind, bursts>>

\* Mutant: whatever hour is open is closed.
ClosesAny(t) == bucket.hour # NoHour

\* onTimer: only if the hour the timer was set for is still open.
Closes(t) == bucket.hour # NoHour /\ bucket.hour + Fallback = t

\* A timer fires some time after every window up to it has arrived, in order.
HourTimer ==
  \E t \in timers :
    /\ kind = "hourly"
    /\ t <= clock /\ \A u \in timers : t <= u
    /\ timers' = timers \ {t}
    /\ IF Closes(t)
         THEN Feed(bucket.hour, Median(bucket.values)) /\ bucket' = [hour |-> NoHour, values |-> <<>>]
         ELSE UNCHANGED <<stream, bucket>>
    /\ UNCHANGED <<kind, clock, arrived, bursts>>

\* prepare_streams.py: the medians of the hours that have windows.
HoursOf(s) == {HourOf(s[i].ts) : i \in DOMAIN s}
ValuesIn(s, h) ==
  LET upTo[n \in 0..Len(s)] ==
        IF n = 0 THEN <<>>
        ELSE IF HourOf(s[n].ts) = h THEN Append(upTo[n - 1], s[n].x) ELSE upTo[n - 1]
  IN  upTo[Len(s)]
HourlyMedians(s) == {[ts |-> h, x |-> Median(ValuesIn(s, h))] : h \in HoursOf(s)}

--------------------------------------------------------------------------------
(* Bursts of the outlier rate *)

Rate(b) == (b.outliers * RateUnit) \div b.admitted

\* Mutant: an ended run goes on counting.
ExtendedPast(q, ts, b) ==
  LET within == ts <= q.ts + Horizon
      rate == Rate(b)
  IN  [q EXCEPT !.size = IF within THEN @ + b.outliers ELSE @,
                !.peak = IF within /\ rate > @ THEN rate ELSE @,
                !.duration = IF rate > 0 THEN @ + 1 ELSE @,
                !.open = @ /\ rate > 0]

\* What one more element adds to a burst that is not yet out.
Extended(q, ts, b) ==
  LET within == ts <= q.ts + Horizon
      rate == Rate(b)
  IN  [q EXCEPT !.size = IF within THEN @ + b.outliers ELSE @,
                !.peak = IF within /\ rate > @ THEN rate ELSE @,
                !.duration = IF q.open /\ rate > 0 THEN @ + 1 ELSE @,
                !.open = @ /\ rate > 0]

Finished(q, ts) == ts > q.ts + Horizon /\ ~q.open

\* M5aCore.element for a closed bin: first the bursts waiting, then the detector.
\* A bin without admitted rounds is no element.
Burst(ts, rate, b) ==
  [ts |-> ts, size |-> b.outliers, peak |-> rate, open |-> rate > 0,
   duration |-> IF rate > 0 THEN lastRun + 1 ELSE lastRun]
BurstOut(q) == [ts |-> q.ts, size |-> q.size, peak |-> q.peak, duration |-> q.duration]
RateElement(ts, rate, b) ==
  \E u \in {Update(det, rate)}, extended \in {{Extended(q, ts, b) : q \in pending}} :
    /\ FeedGate(ts, rate, u)
    /\ emitted' = emitted \cup {BurstOut(q) : q \in {p \in extended : Finished(p, ts)}}
    /\ pending' = {q \in extended : ~Finished(q, ts)}
                    \cup (IF u.alarm = NoAlarm THEN {} ELSE {Burst(ts, rate, b)})
    /\ lastRun' = IF rate > 0 THEN lastRun + 1 ELSE 0
OutlierBin(b) ==
  /\ kind = "rate"
  /\ Arrives([ts |-> clock + 1, outliers |-> b.outliers, admitted |-> b.admitted])
  /\ IF b.admitted = 0 THEN UNCHANGED <<stream, bursts>> ELSE RateElement(clock + 1, Rate(b), b)
  /\ UNCHANGED <<kind, hours>>

--------------------------------------------------------------------------------
Next ==
  \/ Nothing
  \/ \E x \in Values : ScoreWindow(x) \/ HourWindow(x)
  \/ HourTimer
  \/ \E b \in Bins : OutlierBin(b)

Spec == Init /\ [][Next]_vars
================================================================================
