------------------------------- MODULE DayExtract -------------------------------
(***************************************************************************)
(* eda/m5a_extract.py over the trace of DayLayer: the same rounds taken as *)
(* a whole, with the injections applied or the injected readings left out. *)
(* rounds is a sequence of [ts, x] in the order of time.                   *)
(***************************************************************************)
EXTENDS DayLayer

Machine == INSTANCE DataDays WITH Channels <- {"it"}, Active <- {}

ValuesOf(rounds) ==
  LET in == SelectSeq(rounds, LAMBDA r : r.x # Absent) IN [i \in DOMAIN in |-> in[i].x]

\* A stuck sensor is frozen at the first reading of the interval.
ApplyInjection(rounds, s) ==
  LET hit == {i \in DOMAIN rounds : rounds[i].x # Absent /\ Within(s, rounds[i].ts)}
      first == CHOOSE i \in hit : \A j \in hit : i <= j
  IN  IF s.type = "none" THEN rounds
      ELSE [i \in DOMAIN rounds |->
              IF i \notin hit THEN rounds[i]
              ELSE [rounds[i] EXCEPT !.x = CASE s.type = "step" -> @ + s.by
                                             [] s.type = "ramp" -> @ + s.by * (rounds[i].ts - s.start)
                                             [] s.type = "stuck" -> rounds[first].x]]

\* Both ends of the interval are left out.
ExcludeInjection(rounds, s) ==
  [i \in DOMAIN rounds |->
     IF s.type # "none" /\ s.start <= rounds[i].ts /\ rounds[i].ts <= s.end
       THEN [rounds[i] EXCEPT !.x = Absent] ELSE rounds[i]]

\* guard_flags: rounds that end a run of GuardRun equal readings without a gap.
GuardFlags(rounds) ==
  LET read == {i \in DOMAIN rounds : rounds[i].x # Absent}
      next(i) == CHOOSE j \in read : j > i /\ \A k \in read : k > i => j <= k
      joined(i) == LET j == next(i)
                   IN  /\ rounds[i].x = rounds[j].x /\ rounds[j].ts - rounds[i].ts <= RunGap
                       /\ \A k \in (i + 1)..j : rounds[k].ts - rounds[k - 1].ts <= ColdGap
      whole(j, i) == \A k \in read : j <= k /\ k < i => joined(k)
  IN  {i \in read : /\ rounds[i].x \notin Floors
                    /\ \E j \in read : /\ j <= i /\ whole(j, i)
                                       /\ Cardinality({k \in read : j <= k /\ k <= i}) >= GuardRun}

Freeze(rounds) == rounds[CalibRounds].ts

\* The denominators of the outlier rate, from the readings as they were sent.
Denominators(rounds) ==
  LET admitted == {i \in DOMAIN rounds : rounds[i].ts > Freeze(rounds) /\ rounds[i].x # Absent}
  IN  [b \in {BinEnd(rounds[i].ts) : i \in admitted} |->
         Cardinality({i \in admitted : BinEnd(rounds[i].ts) = b})]

Calibration(rounds) ==
  Reference(ValuesOf(SelectSeq(rounds, LAMBDA r : r.ts <= Freeze(rounds))))

OfDay(rounds, day) == SelectSeq(rounds, LAMBDA r : LocalDay(r.ts) = day)

\* The row of a day in quality.csv.
Quality(rounds, day) ==
  LET n == Len(OfDay(rounds, day))
      guard == Cardinality({i \in GuardFlags(rounds) : LocalDay(rounds[i].ts) = day})
  IN  [rounds |-> n, guard |-> guard,
       reason |-> IF day = FirstDay THEN "calibration"
                  ELSE IF Exceeds(DayLengths[day] - n, DayLengths[day], QualityMax) THEN "missing"
                  ELSE IF Exceeds(guard, DayLengths[day], QualityMax) THEN "guard" ELSE "none"]

\* The row of a day in daily.csv; a day without readings has none.
Daily(rounds, day, ref) ==
  LET x == ValuesOf(OfDay(rounds, day))
  IN  IF day = FirstDay \/ x = <<>> THEN NoStats ELSE DayStats(x, ref)

\* process_device for one variant: days with rounds and what is known of them.
ProcessDevice(rounds) ==
  LET ref == Calibration(rounds)
  IN  [day \in {LocalDay(rounds[i].ts) : i \in DOMAIN rounds} |->
         [quality |-> Quality(rounds, day), st |-> Daily(rounds, day, ref)]]

\* run_offline.py reads a row as a verdict on the day.
Verdict(evaluable, st) ==
  [evaluable |-> evaluable,
   dist |-> [ch \in {"it"} |-> IF st.n = 0 THEN "none" ELSE IF ~st.far THEN "near"
                               ELSE IF st.p THEN "far" ELSE "mid"]]

--------------------------------------------------------------------------------
(* Agreement with the day records *)

\* What a day is judged against, and whether it is: the reference in force at its
\* first round, unless it was replaced after that.
Swapped(day) == \E i \in DOMAIN replaced : LocalDay(replaced[i]) = day
FirstRound(rounds, day) == OfDay(rounds, day)[1].ts
SwappedWithin(rounds, day) ==
  \E i \in DOMAIN replaced : LocalDay(replaced[i]) = day /\ replaced[i] > FirstRound(rounds, day)
NewFrom == IF replaced = <<>> THEN Len(DayLengths) + 1 ELSE LocalDay(replaced[1])

\* The readings of a day that its record is about.
SinceSwap(rounds, day) ==
  SelectSeq(OfDay(rounds, day), LAMBDA r : ~Swapped(day) \/ r.ts >= replaced[1])

RecordAgrees(r, rounds, rows) ==
  LET new == r.day >= NewFrom
      within == SwappedWithin(rounds, r.day)
      row == rows[r.day]
  IN  /\ r.rounds = row.quality.rounds /\ r.guard = row.quality.guard
      /\ r.reason = IF within /\ r.day # FirstDay THEN "reestimation" ELSE row.quality.reason
      /\ r.st = IF r.day = FirstDay \/ ValuesOf(SinceSwap(rounds, r.day)) = <<>> THEN NoStats
                ELSE IF new THEN DayStats(ValuesOf(SinceSwap(rounds, r.day)), Reference(NewSample))
                ELSE row.st

\* The changes of state are those of the rows before the new reference and, from no
\* deviation again, those after it.
ChangesAgree(rounds, rows) ==
  LET closed == {r.day : r \in records}
      verdicts(S) ==
        [day \in S |-> LET r == CHOOSE x \in records : x.day = day
                       IN  Verdict(r.reason = "none", r.st)]
      n == Len(DayLengths)
  IN  changes = Machine!LmTransitions(verdicts({d \in closed : d < NewFrom}), "it", n)
                \cup Machine!LmTransitions(verdicts({d \in closed : d >= NewFrom}), "it", n)

\* Cells never make the distance larger, and smaller by one cell's mass at most.
BinningIsBounded(rounds, day, ref) ==
  LET x == ValuesOf(OfDay(rounds, day))
      st == DayStats(x, ref)
      exact == KsExact(x, ref.sample)
      mass(s, k) == Largest({c * k : c \in ToSet(Cells(ref.edges, s))})
  IN  x # <<>> =>
        /\ st.num <= exact
        /\ exact <= st.num + Largest({mass(x, st.m), mass(ref.sample, st.n)})

\* Days and bins before, between and after the injected ones are the same in both variants.
VariantsAgree(injected, excluded) ==
  LET s == plan.spec
      apart(d) == DayEnd[d] <= s.start \/ s.end < DayEnd[d - 1]
      a == ProcessDevice(injected)
      b == ProcessDevice(excluded)
  IN  Calibration(injected) = Calibration(excluded) =>
        \A d \in DOMAIN a : apart(d) => a[d].st = b[d].st

\* The extraction presumes the freeze on FIRST_DAY and a reading before it.
Comparable(rounds) ==
  /\ Len(rounds) > CalibRounds /\ LocalDay(rounds[CalibRounds + 1].ts) = FirstDay
  /\ Calibration(rounds).sample # <<>>

\* compare_online.py: the records and changes of the days that ended by a cut, from both
\* sides.  Up to the lag of its timers the job misses none.
EndedBy(cut) == {d \in LocalDays : DayEnd[d] <= cut}
CutAt(rows, cut) == {r \in rows : r.day \in EndedBy(cut)}
ChangesOf(rows) ==
  Machine!LmTransitions([d \in DOMAIN rows |-> Verdict(rows[d].quality.reason = "none", rows[d].st)],
                        "it", Len(DayLengths))
Compare(rows, cut) ==
  /\ {r.day : r \in CutAt(records, cut)} = EndedBy(cut) \cap DOMAIN rows
  /\ replaced = <<>> => CutAt(changes, cut) = CutAt(ChangesOf(rows), cut)

\* The day records and state changes that M5aCore puts out, whether a day was closed
\* by its timer or by the next day's first round, are those of the offline extraction:
\* every day is judged once, on all its readings, against one reference.  (A
\* record is looked at with the first round after it.)
DaysAreOffline ==
  LET rounds == ApplyInjection(raw, plan.spec)
      excluded == ExcludeInjection(raw, plan.spec)
      rows == ProcessDevice(rounds)
  IN  core.rounds <= 1 /\ Comparable(rounds) =>
        /\ \A cut \in 0..(slot - TimerLag - 1) : Compare(rows, cut)
        /\ \A r, q \in records : r.day = q.day => r = q
        /\ {r.day : r \in records} = {d \in DOMAIN rows : core.day # d}
        /\ \A r \in records : RecordAgrees(r, rounds, rows)
        /\ ChangesAgree(rounds, rows)
        /\ core.bins = Denominators(raw)
        /\ \A r \in records : BinningIsBounded(rounds, r.day, Calibration(rounds))
        /\ plan.spec.type # "none" /\ Comparable(excluded) => VariantsAgree(rounds, excluded)
================================================================================
