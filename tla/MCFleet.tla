-------------------------------- MODULE MCFleet --------------------------------
(* Scenarios of two devices over five local days for TLC.  Day 1 is the day of
   calibration; on day 3 the clocks go forward.  Hours are numbered from 0: day 2
   has hours 2 and 3, day 3 hour 4, day 4 hours 5 and 6, day 5 hours 7 and 8. *)
EXTENDS FleetTiming

MCParams == [kSite |-> 2, siteWindow |-> 2, kSiteDrift |-> 2, siteDriftWindow |-> 3,
             baselineDays |-> 1, minGlobal |-> 2, commonNum |-> 3, commonDen |-> 4]

Daily == [once |-> TRUE, delta |-> 0, wait |-> 0, cmd |-> 0]
\* Decisions every hour, in force an hour later, for what has lasted an hour.
Hourly == [once |-> TRUE, delta |-> Hour, wait |-> Hour, cmd |-> Hour]
Repeating == [Daily EXCEPT !.once = FALSE]

Hours == 0..(LastTick \div Hour - 1)

\* Rounds at even (a) and odd (b) times; the first is still warm-up.
RoundsOf(d, x) ==
  UNION {{[device |-> d, ts |-> k * Hour + j + One(d = "b"), guard |-> <<d, k>> \in x.guard,
           admitted |-> <<k, j>> # <<0, 0>>,
           tv |-> [ch \in Active |-> IF <<k, j>> = <<0, 0>> THEN NaN
                                     ELSE IF <<d, k>> \in x.off THEN 3 ELSE 1],
           refs |-> <<k, j>> = <<0, 2>>] :
            j \in IF <<d, k>> \in x.gone THEN {} ELSE IF <<d, k>> \in x.missing THEN {0} ELSE {0, 2}}
         : k \in Hours}

OutliersOf(d, x) ==
  UNION {{[device |-> d, ts |-> k * Hour + j + One(d = "b"), we |-> k * Hour + j + 1 + One(d = "b")],
          [device |-> d, ts |-> k * Hour + j + One(d = "b"), we |-> k * Hour + j + 2 + One(d = "b")]} :
           <<k, j>> \in {y \in Hours \X {0, 2} : <<d, y[1]>> \in x.outlying}}

\* One context window an hour; the one of a ends with the hour.  Of b only those
\* above the threshold, since nothing else of them matters without a confirmation.
ScoresOf(d, x) ==
  {[device |-> d, ts |-> k * Hour + (IF d = "a" THEN Hour ELSE 2),
    value |-> IF <<d, k>> \in x.high THEN 2 ELSE 0, above |-> <<d, k>> \in x.above] :
     k \in IF d = "a" THEN Hours \ {0} ELSE {h \in Hours : <<d, h>> \in x.above}}

Verdict(days) ==
  [day \in 1..LastDay |->
     IF day = 1 \/ days[day - 1] = "bad"
       THEN [evaluable |-> FALSE, dist |-> [ch \in Channels |-> "far"]]
       ELSE [evaluable |-> TRUE, dist |-> [ch \in Channels |-> days[day - 1]]]]

\* The other tests a day meets: a far day all of them, a near one sometimes some.
HitsOf(days) ==
  [day \in 1..LastDay |-> [ch \in Channels |->
     IF day = 1 THEN {}
     ELSE CASE days[day - 1] = "far" -> {"p01", "pB", "pG", "G", "pos"}
            [] days[day - 1] = "mid" -> {"p01", "wide"}
            [] OTHER -> IF day % 2 = 0 THEN {"p01", "pB", "wide"} ELSE {"pG"}]]

\* The study: the event spans the short day, an episode begins in mid-hour.
MCStudy ==
  [event |-> [start |-> DayStart(3), end |-> DayStart(5) - 1], eventDays |-> {3, 4}, raised |-> {2, 3},
   episodes |-> {[start |-> DayStart(2) + 3, end |-> DayStart(3) + 2],
                 [start |-> DayStart(4) + 1, end |-> DayStart(4) + 6]},
   evening |-> [start |-> DayStart(5) + 4, end |-> DayStart(5) + 7],
   sunny |-> "a", sun |-> {4},
   stable |-> {<<"a", 2>>, <<"a", 5>>, <<"b", 2>>, <<"b", 3>>},
   injections |-> {[device |-> "b", ch |-> "T", start |-> DayStart(4) + 1, end |-> DayStart(4) + 6]},
   profile |-> {[device |-> "a", day |-> 3, ch |-> "T", width |-> 7, ref |-> 2],
                [device |-> "a", day |-> 4, ch |-> "H", width |-> 9, ref |-> 2],
                [device |-> "b", day |-> 5, ch |-> "T", width |-> 6, ref |-> 2]},
   gas |-> "T", light |-> "H", watched |-> "T",
   waits |-> {Hour},
   common |-> {[start |-> DayStart(1), end |-> DayStart(3) - 1], [start |-> DayStart(4), end |-> DayStart(5) - 1]}]

Sc(x) ==
  [rounds |-> RoundsOf("a", x) \cup RoundsOf("b", x),
   outliers |-> OutliersOf("a", x) \cup OutliersOf("b", x),
   scores |-> ScoresOf("a", x) \cup ScoresOf("b", x),
   perf |-> {[device |-> "a", ts |-> k * Hour, level |-> "CONFIRM", value |-> 1] : k \in x.confirmed}
              \cup {[device |-> "a", ts |-> t, level |-> "CONFIRM", value |-> 1] : t \in x.moments}
              \cup {[device |-> "b", ts |-> 18, level |-> "CANDIDATE", value |-> 1]},
   verdicts |-> [a |-> Verdict(x.a), b |-> Verdict(x.b)],
   hits |-> [a |-> HitsOf(x.a), b |-> HitsOf(x.b)],
   injected |-> [a |-> Verdict(x.a), b |-> Verdict([x.b EXCEPT ![3] = IF @ = "bad" THEN @ ELSE "far"])],
   bursts |-> x.bursts,
   timing |-> x.timing]

Hrs(d, ks) == {<<d, k>> : k \in ks}
Quiet == <<"near", "near", "near", "near">>
Usual == [a |-> Quiet, b |-> Quiet, guard |-> {}, missing |-> {}, gone |-> {}, off |-> {},
          outlying |-> {}, above |-> {}, high |-> {}, confirmed |-> {}, moments |-> {}, bursts |-> {},
          timing |-> Daily]

\* Confirmed spells of the performance layer of a: one through midnight, one that
\* falls back, one that comes again and one from the first day; high hours keep it confirmed.
Crossing == [confirmed |-> {3}, high |-> {3, 4, 5, 6, 7, 8}]
Falling == [confirmed |-> {3}, high |-> {2, 3}]
Again == [confirmed |-> {2, 6}, high |-> {2, 5, 6, 7, 8}]
Early == [confirmed |-> {1}, high |-> 1..8]
NoPerf == [confirmed |-> {}, high |-> {}]

\* Verdicts of days 2 to 5, "bad" for a day that cannot be evaluated, and spells.
Drifts == {<< <<"far", "far", "far", "mid">>, NoPerf >>,
            << <<"far", "mid", "near", "far">>, Crossing >>,
            << <<"far", "bad", "mid", "far">>, Again >>,
            << <<"far", "far", "bad", "mid">>, Falling >>,
            << <<"near", "far", "far", "bad">>, Crossing >>,
            << <<"far", "far", "near", "far">>, Falling >>,
            << <<"near", "far", "far", "far">>, Early >>,
            << Quiet, Again >> }

Burst(d, t) == [device |-> d, ts |-> t, emitted |-> t + Hour + Bin + Slide]

MCScenarios ==
  { Sc([Usual EXCEPT !.a = v[1], !.confirmed = v[2].confirmed, !.high = Hrs("a", v[2].high)]) :
      v \in Drifts }
  \cup
  { Sc([Usual EXCEPT !.a = v, !.b = v]) :
      v \in {<<"far", "far", "far", "near">>, <<"far", "near", "far", "far">>} }
  \cup
  { \* flags at the same wall hour, off the baseline; and a flag of one device
    Sc([Usual EXCEPT !.outlying = Hrs("a", {2, 5, 7}), !.above = Hrs("b", {3, 6}),
                     !.off = Hrs("a", {5, 7})]),
    \* both devices at once, then a burst that a deviation explains
    Sc([Usual EXCEPT !.outlying = Hrs("a", {2}) \cup Hrs("b", {2}), !.above = Hrs("a", {5}),
                     !.a = <<"near", "near", "far", "far">>,
                     !.bursts = {Burst("a", 26), Burst("a", 22), Burst("b", 10)}]),
    \* a spell that falls back and comes again between two day boundaries; one between none
    Sc([Usual EXCEPT !.confirmed = {1}, !.moments = {14}, !.high = Hrs("a", {1, 3, 4})]),
    Sc([Usual EXCEPT !.moments = {6}, !.high = Hrs("a", {1})]),
    \* bad, missing and absent hours
    Sc([Usual EXCEPT !.guard = Hrs("a", {2, 5}) \cup Hrs("b", {2}), !.missing = Hrs("b", {6}),
                     !.gone = Hrs("a", {4}) \cup Hrs("b", {7}), !.b = <<"bad", "far", "far", "far">>]) }
  \cup
  { Sc([Usual EXCEPT !.timing = Hourly, !.confirmed = p.confirmed, !.high = Hrs("a", p.high)]) :
      p \in {Crossing, Again} }
  \cup
  { Sc([Usual EXCEPT !.timing = tm, !.a = <<"far", "far", "near", "far">>,
                     !.confirmed = {3}, !.high = Hrs("a", {3, 4, 5, 6, 7, 8})]) :
      tm \in {Hourly, Repeating} }
================================================================================
