------------------------------ MODULE FleetInputs ------------------------------
(***************************************************************************)
(* How the inputs of the decision function come about, twice: Prepare is   *)
(* m7/prepare_inputs.py, which tabulates the dumps of a finished run;      *)
(* Accept is M7InputAssembler.accept, which takes the same facts one by    *)
(* one from the streams.                                                   *)
(*                                                                         *)
(* A scenario is what the upstream channels put out in one run:            *)
(*   rounds   [device, ts, guard, admitted, tv, refs]  tv: readings or NaN *)
(*   outliers [device, ts, we]            judgements of the point channel  *)
(*   scores   [device, ts, value, above]  context windows, ts their end    *)
(*   perf     [device, ts, level, value]  value: the threshold             *)
(*   verdicts device -> day -> verdict    (DataDays)                       *)
(*   bursts   [device, ts, emitted]                                        *)
(*   timing   the options of the run                                       *)
(***************************************************************************)
EXTENDS FleetDecision

NaN == -1
RefWidth == <<0, 2>>        \* P10 and P90 of the reference histograms

--------------------------------------------------------------------------------
(* prepare_inputs.py *)

\* The judgement of the slide in which the round arrived, once per round.
ArrivalOutliers(sc) ==
  {<<o.device, o.ts>> : o \in {x \in sc.outliers : x.we - Slide <= x.ts /\ x.ts < x.we}}

RoundsIn(sc, d, hs) == {r \in sc.rounds : r.device = d /\ hs <= r.ts /\ r.ts < hs + Hour}

SumOf(S, f(_)) == FoldSet(LAMBDA r, acc : acc + f(r), 0, S)

\* Window ends in (hs, hs + Hour] belong to the hour.
HourRow(sc, d, hs) ==
  LET rs == RoundsIn(sc, d, hs)
  IN  [rounds |-> Cardinality(rs),
       admitted |-> Cardinality({r \in rs : r.admitted}),
       guard |-> Cardinality({r \in rs : r.guard}),
       outliers |-> Cardinality({o \in ArrivalOutliers(sc) :
                                   o[1] = d /\ hs <= o[2] /\ o[2] < hs + Hour}),
       ctx |-> Cardinality({s \in sc.scores : s.device = d /\ s.above
                                              /\ hs < s.ts /\ s.ts <= hs + Hour}),
       n |-> [ch \in Active |-> Cardinality({r \in rs : r.tv[ch] # NaN})],
       sum |-> [ch \in Active |->
                  LET val(r) == r.tv[ch] IN SumOf({r \in rs : r.tv[ch] # NaN}, val)]]

PerfItems(sc, d) ==
  {[ts |-> e.ts, rank |-> 0, level |-> e.level, value |-> e.value] :
     e \in {x \in sc.perf : x.device = d}}
  \cup {[ts |-> s.ts, rank |-> 1, level |-> "ELEMENT", value |-> s.value] :
          s \in {x \in sc.scores : x.device = d}}

\* The state per day from the transitions: prepare_inputs.py folds their kinds.
DayRow(sc, d, day, ch) ==
  LET trs == LmTransitions(sc.verdicts[d], ch, LastDay)
      on == {t \in trs : t.day = day}
  IN  [evaluable |-> sc.verdicts[d][day].evaluable,
       deviated |-> StateOn(trs, day + 1),
       transition |-> IF on = {} THEN "none" ELSE (CHOOSE t \in on : TRUE).kind]

FrozenRounds(sc, d) == {r \in sc.rounds : r.device = d /\ r.refs}

Prepare(sc) ==
  LET rows == {x \in Devices \X {k * Hour : k \in 0..(LastTick \div Hour)} :
                 RoundsIn(sc, x[1], x[2]) # {}}
      frozen == {d \in Devices : FrozenRounds(sc, d) # {}}
      days == UNION {{d} \X (DOMAIN sc.verdicts[d]) \X Channels : d \in Devices}
  IN  [timing |-> sc.timing,
       hours |-> [x \in rows |-> HourRow(sc, x[1], x[2])],
       perf |-> [d \in Devices |-> PerfItems(sc, d)],
       days |-> [x \in days |-> DayRow(sc, x[1], x[2], x[3])],
       evaluable |-> [x \in {<<y[1], y[2]>> : y \in days} |-> sc.verdicts[x[1]][x[2]].evaluable],
       bursts |-> [d \in Devices |->
                     {[ts |-> b.ts, emitted |-> b.emitted] : b \in {x \in sc.bursts : x.device = d}}],
       refs |-> [x \in frozen \X Active |-> RefWidth],
       freeze |-> [d \in frozen |-> Min({r.ts : r \in FrozenRounds(sc, d)})]]

--------------------------------------------------------------------------------
(* The streams: the mappers of M7DecisionOperator, and M5aCore.closeDay. *)

DayEvents(sc, d, ch) ==
  LET st == EndState(sc.verdicts[d], ch, LastDay)
  IN  {[at |-> DayStart(day + 1), kind |-> "DAY", device |-> d, day |-> day, ch |-> ch,
        transition |-> IF st[day] THEN "DEVIATE" ELSE "RECOVER"] :
         day \in {e \in DOMAIN sc.verdicts[d] : st[e] # st[e - 1]}}

DayRecords(sc, d, ch) ==
  LET st == EndState(sc.verdicts[d], ch, LastDay)
  IN  {[at |-> DayStart(day + 1), device |-> d, day |-> day, ch |-> ch,
        evaluable |-> sc.verdicts[d][day].evaluable, deviated |-> st[day]] :
         day \in DOMAIN sc.verdicts[d]}

PerChannel(f(_, _)) == UNION {f(x[1], x[2]) : x \in Devices \X Channels}

\* The elements of each stream, at their event time.
Streams(sc) ==
  LET events(d, ch) == DayEvents(sc, d, ch)
      records(d, ch) == DayRecords(sc, d, ch)
  IN  [rounds |-> {[at |-> r.ts, device |-> r.device, ts |-> r.ts, guard |-> r.guard,
                    admitted |-> r.admitted, tv |-> r.tv, refs |-> r.refs] : r \in sc.rounds},
       outliers |-> {[at |-> o.we, device |-> o.device, ts |-> o.ts] :
                       o \in {x \in sc.outliers : x.we - Slide <= x.ts /\ x.ts < x.we}},
       contexts |-> {[at |-> s.ts, device |-> s.device, ts |-> s.ts, value |-> s.value,
                      above |-> s.above] : s \in sc.scores},
       perf |-> {[at |-> e.ts, device |-> e.device, ts |-> e.ts, level |-> e.level,
                  value |-> e.value] : e \in sc.perf},
       dataEvents |-> {[at |-> b.emitted, kind |-> "BURST", device |-> b.device, ts |-> b.ts] :
                         b \in sc.bursts} \cup PerChannel(events),
       records |-> PerChannel(records)]

--------------------------------------------------------------------------------
(* M7InputAssembler: inp holds the open observations and what has been     *)
(* handed to the decision function, seen the outliers counted.             *)

EmptyAssembler(timing) == [inp |-> EmptyInputs(timing), books |-> EmptyBooks, seen |-> {}]

WindowOf(ts) == (ts \div Hour) * Hour

\* Window ends in (start, end] belong to the tick.
ContextWindow(ts) == WindowOf(ts - 1)

Obs(asm, d, hs) == IF HasRow(asm.inp, d, hs) THEN Row(asm.inp, d, hs) ELSE NoRow
Put(f, k, v) == [x \in DOMAIN f \cup {k} |-> IF x = k THEN v ELSE f[x]]
One(b) == IF b THEN 1 ELSE 0

\* The row of an hour with one more round.
RoundRow(o, r) ==
  [o EXCEPT !.rounds = o.rounds + 1, !.admitted = o.admitted + One(r.admitted),
            !.guard = o.guard + One(r.guard),
            !.n = [ch \in Active |-> o.n[ch] + One(r.tv[ch] # NaN)],
            !.sum = [ch \in Active |-> o.sum[ch] + (IF r.tv[ch] # NaN THEN r.tv[ch] ELSE 0)]]

AcceptRound(asm, r) ==
  LET hs == WindowOf(r.ts)
      first == r.refs /\ r.device \notin DOMAIN asm.inp.freeze
  IN  [asm EXCEPT !.inp = [asm.inp EXCEPT
         !.hours = Put(@, <<r.device, hs>>, RoundRow(Obs(asm, r.device, hs), r)),
         !.freeze = IF first THEN Put(@, r.device, r.ts) ELSE @,
         !.refs = IF first
                    THEN [x \in DOMAIN @ \cup ({r.device} \X Active) |->
                            IF x \in DOMAIN @ THEN @[x] ELSE RefWidth]
                    ELSE @]]

AcceptOutlier(asm, o) ==
  IF <<o.device, o.ts>> \in asm.seen THEN asm
  ELSE LET hs == WindowOf(o.ts)
           row == Obs(asm, o.device, hs)
       IN  [asm EXCEPT
              !.seen = @ \cup {<<o.device, o.ts>>},
              !.inp = [asm.inp EXCEPT
                         !.hours = Put(@, <<o.device, hs>>, [row EXCEPT !.outliers = row.outliers + 1])]]

\* A context window counts towards its tick, and is an element of the perf layer.
AcceptContext(asm, s) ==
  LET hs == ContextWindow(s.ts)
      row == Obs(asm, s.device, hs)
  IN  [asm EXCEPT !.inp = [asm.inp EXCEPT
         !.hours = Put(@, <<s.device, hs>>, [row EXCEPT !.ctx = row.ctx + One(s.above)]),
         !.perf[s.device] =
            @ \cup {[ts |-> s.ts, rank |-> 1, level |-> "ELEMENT", value |-> s.value]}]]

AcceptPerf(asm, e) ==
  [asm EXCEPT !.inp = [asm.inp EXCEPT !.perf[e.device] =
     @ \cup {[ts |-> e.ts, rank |-> 0, level |-> e.level, value |-> e.value]}]]

\* A day's record and its transition come on two streams, in either order; each
\* keeps what the other has set.
DayOf(asm, key) ==
  IF key \in DOMAIN asm.inp.days THEN asm.inp.days[key]
  ELSE [evaluable |-> FALSE, deviated |-> FALSE, transition |-> "none"]

AddDataDay(asm, key, s) ==
  [asm EXCEPT !.inp = [asm.inp EXCEPT
     !.days = Put(@, key, s),
     !.evaluable = Put(@, <<key[1], key[2]>>, s.evaluable)]]

AcceptRecord(asm, r) ==
  LET key == <<r.device, r.day, r.ch>>
  IN  AddDataDay(asm, key, [DayOf(asm, key) EXCEPT !.evaluable = r.evaluable, !.deviated = r.deviated])

\* Mutant: a transition overwrites what the record has set.
AcceptEventAlone(asm, e) ==
  IF e.kind = "BURST"
    THEN [asm EXCEPT !.inp.bursts[e.device] = @ \cup {[ts |-> e.ts, emitted |-> e.at]}]
    ELSE AddDataDay(asm, <<e.device, e.day, e.ch>>,
                    [evaluable |-> FALSE, deviated |-> FALSE, transition |-> e.transition])

AcceptEvent(asm, e) ==
  IF e.kind = "BURST"
    THEN [asm EXCEPT !.inp = [asm.inp EXCEPT
            !.bursts[e.device] = @ \cup {[ts |-> e.ts, emitted |-> e.at]}]]
    ELSE LET key == <<e.device, e.day, e.ch>>
         IN  AddDataDay(asm, key, [DayOf(asm, key) EXCEPT !.transition = e.transition])

Accept(asm, lane, x) ==
  CASE lane = "rounds" -> AcceptRound(asm, x)
    [] lane = "outliers" -> AcceptOutlier(asm, x)
    [] lane = "contexts" -> AcceptContext(asm, x)
    [] lane = "perf" -> AcceptPerf(asm, x)
    [] lane = "dataEvents" -> AcceptEvent(asm, x)
    [] lane = "records" -> AcceptRecord(asm, x)

\* What is older than the window, and the window itself, goes with its tick.
StillOpen(obs, hs) == {x \in DOMAIN obs : x[2] > hs}

Swept(asm, hs, step) ==
  [asm |-> [inp |-> [asm.inp EXCEPT !.hours = [x \in StillOpen(@, hs) |-> @[x]]],
            books |-> step.books,
            seen |-> {x \in asm.seen : x[2] >= hs}],
   out |-> step.out]

\* The window's rows; devices without readings are not observed.
InWindow(hours, hs) == {x \in DOMAIN hours : x[2] = hs /\ hours[x].rounds > 0}

\* M7InputAssembler.tick.
Tick(asm, t) ==
  Swept(asm, t - Hour,
        TickAt(asm.books, [asm.inp EXCEPT !.hours = [x \in InWindow(@, t - Hour) |-> @[x]]], t))
================================================================================
