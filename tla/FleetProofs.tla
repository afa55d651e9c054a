------------------------------ MODULE FleetProofs ------------------------------
(***************************************************************************)
(* Theorems about the online decision operator for every set of scenarios, *)
(* every calendar and every interleaving of its six streams.               *)
(***************************************************************************)
EXTENDS FleetOnline, FiniteSums

--------------------------------------------------------------------------------
(* The calendar. *)

\* A nonempty set of natural numbers has a smallest element.
LEMMA LeastExists ==
  ASSUME NEW S \in SUBSET Nat, S # {}
  PROVE  \E m \in S : \A x \in S : m <= x
<1>1. \E m \in S : \A x \in S : ~ (<<x, m>> \in OpToRel(<, Nat))
  BY WFMin, NatLessThanWellFounded, Zenon
<1>2. PICK m \in S : \A x \in S : ~ (<<x, m>> \in OpToRel(<, Nat))
  BY <1>1
<1>3. \A x \in S : ~ (x < m)
  BY <1>2, Zenon DEF OpToRel
<1>. QED
  BY <1>3

\* A day of the calendar is at least an hour long, and the next one follows it.
LEMMA DaysFollow ==
  ASSUME NEW day \in Int
  PROVE  /\ DayStart(day) \in Int /\ HoursOf(day) \in 1..HoursPerDay
         /\ DayStart(day + 1) = DayStart(day) + HoursOf(day) * Hour
<1>. DEFINE S == {d \in ShortDays : d < day}
            T == {d \in ShortDays : d < day + 1}
<1>0. \A d \in ShortDays : d \in Int
  BY CalendarAssumption
<1>1. IsFiniteSet(S) /\ Cardinality(S) \in Nat
  BY CalendarAssumption, FS_Subset, FS_CardinalityType
<1>2. Cardinality(T) = Cardinality(S) + (IF day \in ShortDays THEN 1 ELSE 0)
  <2>1. CASE day \in ShortDays
    <3>a. \A x \in ShortDays : x < day + 1 <=> x < day \/ x = day
      BY <1>0
    <3>0. \A x : x \in T <=> x \in S \cup {day}
      BY <2>1, <3>a, Zenon
    <3>1. day \notin S
      OBVIOUS
    <3>. HIDE DEF S, T
    <3>2. T = S \cup {day}
      BY <3>0, Zenon
    <3>. QED  BY <3>1, <3>2, <1>1, <2>1, FS_AddElement
  <2>2. CASE day \notin ShortDays
    <3>1. T = S  BY <2>2, <1>0
    <3>. HIDE DEF S, T
    <3>. QED  BY <3>1, <1>1, <2>2
  <2>. QED  BY <2>1, <2>2
<1>3. HoursPerDay \in Nat /\ HoursPerDay >= 2
  BY CalendarAssumption
<1>4. HoursOf(day) \in 1..HoursPerDay /\ HoursOf(day) = HoursPerDay - (Cardinality(T) - Cardinality(S))
  BY <1>1, <1>2, <1>3 DEF HoursOf
<1>5. /\ DayStart(day) = ((day - 1) * HoursPerDay - Cardinality(S)) * 4
      /\ DayStart(day + 1) = (day * HoursPerDay - Cardinality(T)) * 4
  BY DEF DayStart, Hour
<1>6. /\ (day - 1) * HoursPerDay \in Int /\ day * HoursPerDay \in Int
      /\ day * HoursPerDay = (day - 1) * HoursPerDay + HoursPerDay
  BY <1>3
<1>. HIDE DEF S, T
<1>7. Cardinality(T) \in Int
  BY <1>1, <1>2
<1>. DEFINE p == (day - 1) * HoursPerDay
            q == day * HoursPerDay
            h == HoursOf(day)
            s == Cardinality(S)
            t == Cardinality(T)
<1>8. p \in Int /\ q \in Int /\ q = p + HoursPerDay /\ h = HoursPerDay - (t - s) /\ s \in Int /\ t \in Int
      /\ DayStart(day) = (p - s) * 4 /\ DayStart(day + 1) = (q - t) * 4 /\ h \in Int
  BY <1>1, <1>4, <1>5, <1>6, <1>7
<1>. HIDE DEF p, q, h, s, t
<1>9. DayStart(day) \in Int /\ DayStart(day + 1) = DayStart(day) + h * 4
  BY <1>3, <1>8
<1>. QED
  BY <1>4, <1>9 DEF h, Hour

\* Days come in order, the first at zero.
LEMMA DaysInOrder ==
  /\ DayStart(1) = 0
  /\ \A i, j \in Nat : i <= j => DayStart(i) <= DayStart(j)
  /\ \A i \in Int : DayStart(i) \in Int /\ DayStart(i) + Hour <= DayStart(i + 1)
<1>1. DayStart(1) = 0
  <2>1. \A d \in ShortDays : d \in Int /\ ~(d < 1)
    BY CalendarAssumption
  <2>2. Cardinality({d \in ShortDays : d < 1}) = 0
    BY <2>1, FS_EmptySet, Zenon
  <2>. QED  BY <2>2, CalendarAssumption DEF DayStart, Hour
<1>2. \A i \in Int : DayStart(i) \in Int /\ DayStart(i) + Hour <= DayStart(i + 1)
  BY DaysFollow DEF Hour
<1>3. ASSUME NEW i \in Nat, NEW j \in Nat, i <= j, ~(DayStart(i) <= DayStart(j))
      PROVE  FALSE
  <2>. DEFINE S == {k \in Nat : i <= k /\ ~(DayStart(i) <= DayStart(k))}
  <2>1. PICK m \in S : \A x \in S : m <= x
    BY <1>3, LeastExists
  <2>0. DayStart(i) \in Int /\ m \in Nat /\ i <= m /\ ~(DayStart(i) <= DayStart(m))
    BY <1>2, <2>1
  <2>2. m # i /\ m - 1 \in Nat /\ i <= m - 1
    BY <2>0
  <2>3. DayStart(i) <= DayStart(m - 1)
    BY <2>1, <2>2
  <2>4. DayStart(m - 1) + Hour <= DayStart(m - 1 + 1) /\ m - 1 + 1 = m
    BY <1>2, <2>2
  <2>. QED  BY <1>2, <2>1, <2>2, <2>3, <2>4 DEF Hour
<1>. QED  BY <1>1, <1>2, <1>3

\* The days the model asks for cover the time before DayStart(LastDay + 4).
LEMMA LocalDayExists ==
  ASSUME NEW ts \in Nat, ts < DayStart(LastDay + 4)
  PROVE  /\ LDay(ts) \in 1..(LastDay + 3)
         /\ DayStart(LDay(ts)) <= ts /\ ts < DayStart(LDay(ts) + 1)
<1>. DEFINE S == {d \in 1..(LastDay + 3) : ts < DayStart(d + 1)}
<1>1. LastDay \in Nat
  BY ParamsAssumption
<1>2. LastDay + 3 \in S /\ S \in SUBSET Nat
  BY <1>1
<1>3. PICK m \in S : \A x \in S : m <= x
  <2>. HIDE DEF S
  <2>. QED  BY <1>2, LeastExists
<1>4. DayStart(m) <= ts
  <2>1. CASE m = 1
    BY <2>1, DaysInOrder
  <2>2. CASE m # 1
    <3>1. m - 1 \in 1..(LastDay + 3) /\ m - 1 \notin S
      BY <1>1, <1>3, <2>2
    <3>2. m - 1 + 1 = m
      BY <1>1, <1>3
    <3>3. ~(ts < DayStart(m))
      BY <3>1, <3>2
    <3>. QED  BY <3>3, <1>1, <1>3, DaysInOrder
  <2>. QED  BY <2>1, <2>2
<1>5. \E d \in 1..(LastDay + 3) : DayStart(d) <= ts /\ ts < DayStart(d + 1)
  BY <1>3, <1>4
<1>. QED
  BY <1>5 DEF LDay, LocalDay

\* One local day later is after the end of the day, and within the next day's
\* longest span.
LEMMA LaterIsAfter ==
  ASSUME NEW ts \in Nat, ts < DayStart(LastDay + 4)
  PROVE  /\ Later(ts, 1) \in Nat
         /\ Later(ts, 1) >= DayStart(LDay(ts) + 1)
         /\ Later(ts, 1) < DayStart(LDay(ts) + 1) + HoursPerDay * Hour
<1>. DEFINE D == LDay(ts)
            r == ts - DayStart(D)
            i == r \div Hour
            w == WallHour(D, i)
            j == HourIndex(D + 1, w)
<1>1. D \in Int /\ D >= 1 /\ DayStart(D) <= ts /\ ts < DayStart(D + 1)
  BY LocalDayExists, ParamsAssumption
<1>2. /\ DayStart(D) \in Int /\ DayStart(D + 1) = DayStart(D) + HoursOf(D) * Hour
      /\ HoursOf(D) \in 1..HoursPerDay
  BY <1>1, DaysFollow
<1>3. HoursPerDay \in Nat /\ Skipped \in Nat /\ Skipped <= HoursPerDay - 1
  BY CalendarAssumption
<1>. HIDE DEF D
<1>4. i \in 0..(HoursOf(D) - 1) /\ r % Hour \in 0..3
  <2>1. r \in Nat /\ r < HoursOf(D) * 4
    BY <1>1, <1>2 DEF Hour
  <2>. HIDE DEF r
  <2>. DEFINE h == HoursOf(D)
  <2>2. h \in Nat
    BY <1>2, <1>3
  <2>. HIDE DEF h
  <2>3. r \in Nat /\ r < h * 4
    BY <2>1 DEF h
  <2>4. r \div 4 \in 0..(h - 1) /\ r % 4 \in 0..3
    BY <2>2, <2>3
  <2>. QED  BY <2>4 DEF Hour, h
<1>5. w \in 0..(HoursPerDay - 1)
  BY <1>4, <1>2, <1>3 DEF WallHour, HoursOf
<1>6. j \in 0..(HoursPerDay - 1)
  BY <1>5, <1>3 DEF HourIndex
<1>7. Later(ts, 1) = DayStart(D + 1) + j * Hour + (r % Hour)
  BY Zenon DEF Later, AddLocalDays, SameClock, HourOn, D, LDay
<1>. HIDE DEF r, i, w, j
<1>8. DayStart(D + 1) \in Nat
  BY <1>1, <1>2, DaysInOrder, DaysFollow
<1>. DEFINE m == r % Hour
<1>. HIDE DEF m
<1>9. m \in 0..3 /\ Later(ts, 1) = DayStart(D + 1) + j * Hour + m
  BY <1>4, <1>7 DEF m
<1>10. /\ Later(ts, 1) \in Nat /\ Later(ts, 1) >= DayStart(D + 1)
       /\ Later(ts, 1) < DayStart(D + 1) + HoursPerDay * Hour
  BY <1>9, <1>3, <1>6, <1>8 DEF Hour
<1>. QED
  BY <1>10 DEF D

\* A command takes effect no earlier than it is decided, and the device cools
\* down until after that.
LEMMA CooldownIsAhead ==
  ASSUME NEW f, f.timing \in Timings,
         f.timing.delta <= ShortestDay, f.timing.cmd <= ShortestDay,
         NEW t \in Nat, t <= LastTick
  PROVE  /\ EffectiveAt(f, t) \in Nat /\ EffectiveAt(f, t) >= t
         /\ CooldownUntil(f, t) \in Nat /\ CooldownUntil(f, t) >= t
<1>. DEFINE e == EffectiveAt(f, t)
<1>1. LastDay \in Nat /\ HoursPerDay \in Nat /\ HoursPerDay >= 2
  BY ParamsAssumption, CalendarAssumption
<1>2. f.timing.delta \in Nat /\ f.timing.cmd \in Nat
  BY DEF Timings
<1>3. \A day \in Nat : /\ DayStart(day) \in Int /\ DayStart(day + 1) \in Int
                       /\ DayStart(day + 1) >= DayStart(day) + (HoursPerDay - 1) * Hour
  <2>1. \A day \in Nat : HoursOf(day) >= HoursPerDay - 1 /\ HoursOf(day) \in Int
    BY <1>1 DEF HoursOf
  <2>. QED  BY <1>1, <2>1, DaysFollow DEF Hour
<1>4. /\ LastTick \in Int /\ LastTick < DayStart(LastDay + 2)
      /\ DayStart(LastDay + 2) + (HoursPerDay - 1) * Hour <= DayStart(LastDay + 3)
      /\ DayStart(LastDay + 3) + (HoursPerDay - 1) * Hour <= DayStart(LastDay + 4)
      /\ DayStart(LastDay + 2) \in Int /\ DayStart(LastDay + 3) \in Int /\ DayStart(LastDay + 4) \in Int
  <2>1. LastDay + 1 \in Nat /\ LastDay + 2 \in Nat /\ LastDay + 3 \in Nat
        /\ LastDay + 1 + 1 = LastDay + 2 /\ LastDay + 2 + 1 = LastDay + 3 /\ LastDay + 3 + 1 = LastDay + 4
    BY <1>1
  <2>2. /\ DayStart(LastDay + 1) \in Int
        /\ DayStart(LastDay + 2) >= DayStart(LastDay + 1) + (HoursPerDay - 1) * Hour
    BY <1>3, <2>1
  <2>. QED  BY <1>1, <1>3, <2>1, <2>2 DEF LastTick, Hour
<1>5. t < DayStart(LastDay + 4)
  BY <1>1, <1>4 DEF Hour
<1>6. e \in Nat /\ e >= t /\ e < DayStart(LastDay + 4)
  <2>1. CASE f.timing.delta # 0
    BY <2>1, <1>1, <1>2, <1>4 DEF EffectiveAt, ShortestDay, Hour
  <2>2. CASE f.timing.delta = 0 /\ f.timing.cmd # 0
    BY <2>2, <1>1, <1>2, <1>4 DEF EffectiveAt, ShortestDay, Hour
  <2>3. CASE f.timing.delta = 0 /\ f.timing.cmd = 0
    <3>1. e = Later(t, 1)
      BY <2>3 DEF EffectiveAt
    <3>2. LDay(t) \in 1..(LastDay + 3) /\ DayStart(LDay(t)) <= t /\ t < DayStart(LDay(t) + 1)
      BY <1>5, LocalDayExists
    <3>3. LDay(t) <= LastDay + 1
      <4>1. SUFFICES ASSUME LDay(t) >= LastDay + 2  PROVE FALSE
        BY <3>2, <1>1
      <4>2. DayStart(LastDay + 2) <= DayStart(LDay(t)) /\ DayStart(LDay(t)) \in Int
        BY <4>1, <3>2, <1>1, DaysInOrder
      <4>. QED  BY <4>2, <3>2, <1>4
    <3>4. DayStart(LDay(t) + 1) <= DayStart(LastDay + 2) /\ DayStart(LDay(t) + 1) \in Int
      BY <3>2, <3>3, <1>1, DaysInOrder
    <3>5. e \in Nat /\ e >= DayStart(LDay(t) + 1) /\ e < DayStart(LDay(t) + 1) + HoursPerDay * Hour
      BY <3>1, <1>5, LaterIsAfter
    <3>. HIDE DEF e
    <3>. QED  BY <3>2, <3>4, <3>5, <1>1, <1>4 DEF Hour
  <2>. QED  BY <2>1, <2>2, <2>3
<1>. HIDE DEF e
<1>7. Later(e, 1) \in Nat /\ Later(e, 1) >= DayStart(LDay(e) + 1) /\ e < DayStart(LDay(e) + 1)
      /\ DayStart(LDay(e) + 1) \in Int
  BY <1>6, LaterIsAfter, LocalDayExists, DaysInOrder, ParamsAssumption
<1>8. CooldownUntil(f, t) = Later(e, 1)
  BY DEF CooldownUntil, e
<1>. QED
  BY <1>6, <1>7, <1>8 DEF e


--------------------------------------------------------------------------------
(* The part of the books that commands depend on, and one tick of it by the *)
(* scenario alone: no alerts, no reviews, no histories.                     *)

BookFields == {"perf", "flagHist", "siteHist", "base", "drift", "episode", "cooldown", "seq",
               "dayAlerts"}
IsBooks(bk) == DOMAIN bk = BookFields

Same(bk, h) ==
  /\ bk.perf = h.perf /\ bk.drift = h.drift /\ bk.episode = h.episode
  /\ bk.cooldown = h.cooldown /\ bk.seq = h.seq

\* What the streams tell of the performance layer and of the days.
Verdict(sc, key) == EndState(sc.verdicts[key[1]], key[3], LastDay)[key[2]]
DayKeys(sc) == {key \in Devices \X (1..LastDay) \X Channels : key[2] \in DOMAIN sc.verdicts[key[1]]}
Facts(sc) ==
  [timing |-> sc.timing,
   perf |-> [d \in Devices |-> PerfItems(sc, d)],
   days |-> [key \in DayKeys(sc) |-> [deviated |-> Verdict(sc, key)]],
   evaluable |-> [x \in {<<key[1], key[2]>> : key \in DayKeys(sc)} |-> sc.verdicts[x[1]][x[2]].evaluable]]

\* The devices that have readings in the hour at hs.
RowsAt(sc, hs) == {d \in Devices : \E r \in sc.rounds : r.device = d /\ WindowOf(r.ts) = hs}

Observed(bk, rows, items, t) ==
  [bk EXCEPT !.perf = [d \in Devices |-> IF d \in rows THEN Advance(@[d], items[d], t) ELSE @[d]]]

CoreOn(h, f, rows, c) ==
  IF IsCmdTick(f.timing, c)
    THEN CmdTick(Observed(h, rows, f.perf, c.t), f, c)
  ELSE [books |-> Observed(h, rows, f.perf, c.t), out |-> {}]

CoreTick(h, sc, t) == CoreOn(h, Facts(sc), RowsAt(sc, t - Hour), DecisionAt(t))

\* Two inputs that tell the same of the time up to the decision c.
SameFacts(inp, f, c) ==
  /\ inp.timing = f.timing
  /\ \A d \in Devices : {x \in inp.perf[d] : x.ts <= c.t} = {x \in f.perf[d] : x.ts <= c.t}
  /\ \A d \in Devices, day \in Int : DayStart(day + 1) <= c.t =>
       /\ Evaluable(inp, d, day) <=> Evaluable(f, d, day)
       /\ \A ch \in Active : DataDev(inp, d, day, ch) <=> DataDev(f, d, day, ch)

--------------------------------------------------------------------------------
(* The stages of a tick keep agreement. *)

\* What observing the hour's evidence does to each book.
LEMMA ObservedFields ==
  ASSUME NEW bk, IsBooks(bk), NEW rows, NEW items, NEW t,
         NEW b, b = Observed(bk, rows, items, t)
  PROVE  /\ IsBooks(b)
             /\ b.perf = [d \in Devices |->
                            IF d \in rows THEN Advance(bk.perf[d], items[d], t) ELSE bk.perf[d]]
             /\ b.drift = bk.drift /\ b.episode = bk.episode
             /\ b.cooldown = bk.cooldown /\ b.seq = bk.seq
BY DEF Observed, IsBooks, BookFields

\* Observing evidence touches the performance tracks only.
LEMMA ObservedKeeps ==
  ASSUME NEW bk, IsBooks(bk), NEW rows, NEW items, NEW t
  PROVE  /\ IsBooks(Observed(bk, rows, items, t))
         /\ Observed(bk, rows, items, t).drift = bk.drift
         /\ Observed(bk, rows, items, t).episode = bk.episode
         /\ Observed(bk, rows, items, t).cooldown = bk.cooldown
         /\ Observed(bk, rows, items, t).seq = bk.seq
<1>. DEFINE b == Observed(bk, rows, items, t)
            P == [d \in Devices |-> IF d \in rows THEN Advance(bk.perf[d], items[d], t) ELSE bk.perf[d]]
<1>1. b.perf = P /\ IsBooks(b) /\ b.drift = bk.drift /\ b.episode = bk.episode
        /\ b.cooldown = bk.cooldown /\ b.seq = bk.seq
  BY ObservedFields
<1>. QED  BY <1>1

\* A signal that fell back leaves the drift book and closes its episode.
LEMMA EndedFields ==
  ASSUME NEW bk, IsBooks(bk), NEW fallen, NEW b, b = Ended(bk, fallen)
  PROVE  /\ IsBooks(b)
             /\ b.perf = bk.perf /\ b.cooldown = bk.cooldown /\ b.seq = bk.seq
             /\ b.drift = [d \in Devices |-> [bk.drift[d] EXCEPT !.triggers = @ \ fallen[d]]]
             /\ b.episode = [d \in Devices |-> [k \in Triggers |->
                               IF k \in fallen[d] THEN 0 ELSE bk.episode[d][k]]]
<1>1. DOMAIN bk = {"perf", "flagHist", "siteHist", "base", "drift", "episode", "cooldown", "seq",
                   "dayAlerts"}
  BY DEF IsBooks, BookFields
<1>. DEFINE D == [d \in Devices |-> [bk.drift[d] EXCEPT !.triggers = @ \ fallen[d]]]
            E == [d \in Devices |-> [k \in Triggers |-> IF k \in fallen[d] THEN 0 ELSE bk.episode[d][k]]]
<1>2. b = [bk EXCEPT !.drift = D, !.episode = E]
  BY Zenon DEF Ended
<1>. HIDE DEF D, E
<1>3. /\ DOMAIN b = DOMAIN bk
      /\ b.perf = bk.perf /\ b.cooldown = bk.cooldown /\ b.seq = bk.seq
      /\ b.drift = D /\ b.episode = E
  BY <1>1, <1>2
<1>. QED
  BY <1>3 DEF D, E, IsBooks

\* What a decision writes to each book.
LEMMA IssuedFields ==
  ASSUME NEW bk, IsBooks(bk), NEW inp, NEW c, NEW found, NEW present, NEW devs,
         NEW b, b = Issued(inp, bk, c, found, present, devs).books
  PROVE  /\ IsBooks(b)
             /\ b.perf = bk.perf
             /\ b.drift = Drifting(bk, found, present)
             /\ b.episode = [d \in Devices |-> [k \in Triggers |-> bk.episode[d][k] +
                  (IF d \in devs /\ k \in FreshClasses(inp, bk, found, d) THEN 1 ELSE 0)]]
             /\ b.seq = [d \in Devices |-> bk.seq[d] + (IF d \in devs THEN 1 ELSE 0)]
             /\ b.cooldown = [d \in Devices |-> IF d \in devs THEN CooldownUntil(inp, c.t)
                                                ELSE bk.cooldown[d]]
<1>1. DOMAIN bk = {"perf", "flagHist", "siteHist", "base", "drift", "episode", "cooldown", "seq",
                   "dayAlerts"}
  BY DEF IsBooks, BookFields
<1>. DEFINE D == Drifting(bk, found, present)
            E == [d \in Devices |-> [k \in Triggers |-> bk.episode[d][k] +
                    (IF d \in devs /\ k \in FreshClasses(inp, bk, found, d) THEN 1 ELSE 0)]]
            S == [d \in Devices |-> bk.seq[d] + (IF d \in devs THEN 1 ELSE 0)]
            C == [d \in Devices |-> IF d \in devs THEN CooldownUntil(inp, c.t) ELSE bk.cooldown[d]]
<1>2. b = [bk EXCEPT !.drift = D, !.episode = E, !.seq = S, !.cooldown = C]
  BY Zenon DEF Issued
<1>. HIDE DEF D, E, S, C
<1>3. /\ DOMAIN b = DOMAIN bk
      /\ b.perf = bk.perf /\ b.drift = D /\ b.episode = E /\ b.seq = S /\ b.cooldown = C
  BY <1>1, <1>2
<1>. QED
  BY <1>3 DEF D, E, S, C, IsBooks

\* The command of one device.
CommandOf(inp, bk, c, found, present, d) ==
  [type |-> "command", device |-> d, at |-> c.t, effective |-> EffectiveAt(inp, c.t),
   seq |-> bk.seq[d] + 1, global |-> GlobalDrift(found, present, d),
   triggers |-> found[d], co |-> {e \in present : found[e] \cap found[d] # {}},
   n |-> 1 + Max({bk.episode[d][k] : k \in FreshClasses(inp, bk, found, d)})]

\* One command per device that is commanded, and no other line.
LEMMA IssuedOut ==
  ASSUME NEW bk, NEW inp, NEW c, NEW found, NEW present, NEW devs
  PROVE  Issued(inp, bk, c, found, present, devs).out
           = {CommandOf(inp, bk, c, found, present, d) : d \in devs}
<1>. DEFINE O == {CommandOf(inp, bk, c, found, present, d) : d \in devs}
<1>1. \E B : Issued(inp, bk, c, found, present, devs) = [books |-> B, out |-> O]
  BY Zenon DEF Issued, CommandOf
<1>. HIDE DEF O
<1>2. Issued(inp, bk, c, found, present, devs).out = O
  BY <1>1
<1>. QED
  BY <1>2 DEF O

\* A track sees only the items up to the tick.
LEMMA AdvanceSame ==
  ASSUME NEW tr, NEW items, NEW others, NEW t,
         {x \in items : x.ts <= t} = {x \in others : x.ts <= t}
  PROVE  Advance(tr, items, t) = Advance(tr, others, t)
BY Zenon DEF Advance

\* Books that agree still do after observing evidence that agrees up to the tick.
LEMMA ObservedSame ==
  ASSUME NEW bk, IsBooks(bk), NEW h, IsBooks(h), Same(bk, h), NEW rows, NEW inp, NEW f, NEW c,
         SameFacts(inp, f, c)
  PROVE  Same(Observed(bk, rows, inp.perf, c.t), Observed(h, rows, f.perf, c.t))
<1>1. \A d \in Devices : Advance(bk.perf[d], inp.perf[d], c.t) = Advance(h.perf[d], f.perf[d], c.t)
  <2>1. ASSUME NEW d \in Devices
        PROVE  Advance(bk.perf[d], inp.perf[d], c.t) = Advance(bk.perf[d], f.perf[d], c.t)
    <3>1. {x \in inp.perf[d] : x.ts <= c.t} = {x \in f.perf[d] : x.ts <= c.t}
      BY Zenon DEF SameFacts
    <3>. QED  BY <3>1, AdvanceSame
  <2>. QED  BY <2>1 DEF Same
<1>. DEFINE p == [d \in Devices |-> IF d \in rows THEN Advance(bk.perf[d], inp.perf[d], c.t)
                                    ELSE bk.perf[d]]
            q == [d \in Devices |-> IF d \in rows THEN Advance(h.perf[d], f.perf[d], c.t)
                                    ELSE h.perf[d]]
<1>2. p = q
  BY <1>1 DEF Same
<1>. DEFINE B == Observed(bk, rows, inp.perf, c.t)
            H == Observed(h, rows, f.perf, c.t)
<1>3. B.perf = p /\ B.drift = bk.drift /\ B.episode = bk.episode /\ B.cooldown = bk.cooldown /\ B.seq = bk.seq
  BY ObservedFields
<1>4. H.perf = q /\ H.drift = h.drift /\ H.episode = h.episode /\ H.cooldown = h.cooldown /\ H.seq = h.seq
  BY ObservedFields
<1>. HIDE DEF p, q, B, H
<1>5. Same(B, H)
  BY <1>2, <1>3, <1>4 DEF Same
<1>. QED
  BY <1>5 DEF B, H


\* Facts of a decision: a local day that is over when it is taken.
LEMMA DecisionDays ==
  ASSUME NEW t \in Nat, t >= 1, t <= LastTick, NEW c, c = DecisionAt(t)
  PROVE  /\ c.t = t /\ c.day \in 1..(LastDay + 3)
         /\ DayStart(c.day - 1 + 1) <= t
         /\ c.boundary => DayStart(c.day + 1) <= t
<1>1. LastDay \in Nat
  BY ParamsAssumption
<1>2. LastTick <= DayStart(LastDay + 4) /\ LastTick \in Int /\ DayStart(LastDay + 4) \in Int
  BY <1>1, DaysInOrder DEF LastTick
<1>3. t - 1 \in Nat /\ t - 1 < DayStart(LastDay + 4)
  BY <1>2
<1>. DEFINE day == LDay(t - 1)
<1>4. day \in 1..(LastDay + 3) /\ DayStart(day) <= t - 1
  BY <1>3, LocalDayExists
<1>. HIDE DEF day
<1>5. day - 1 + 1 = day /\ DayStart(day) \in Int
  BY <1>4, DaysInOrder
<1>6. DayStart(day - 1 + 1) <= t
  BY <1>4, <1>5
<1>7. c = [t |-> t, day |-> day, boundary |-> t = DayStart(day + 1)]
  BY Zenon DEF DecisionAt, DecisionOn, day
<1>a. c.t = t /\ c.day = day
  BY <1>7
<1>b. c.boundary = (t = DayStart(day + 1))
  BY <1>7
<1>8. c.t = t /\ c.day = day /\ (c.boundary => t = DayStart(day + 1))
  BY <1>a, <1>b, Zenon
<1>. QED
  BY <1>4, <1>6, <1>7, <1>8

\* Agreement on the facts is agreement on what is persistent and what has ended.
LEMMA FindingsSame ==
  ASSUME NEW bk, NEW h, bk.perf = h.perf, NEW inp, NEW f, NEW t \in Nat, t >= 1, t <= LastTick,
         NEW c, c = DecisionAt(t), SameFacts(inp, f, c)
  PROVE  /\ \A d \in Devices : Persistent(inp, bk, d, c) = Persistent(f, h, d, c)
         /\ \A d \in Devices : Fallen(inp, bk, d, c) = Fallen(f, h, d, c)
         /\ Present(inp, c) = Present(f, c)
<1>1. /\ c.t = t /\ c.day \in Int /\ c.day - 1 \in Int
      /\ DayStart(c.day - 1 + 1) <= c.t
      /\ c.boundary => DayStart(c.day + 1) <= c.t
  BY DecisionDays, ParamsAssumption
<1>2. ASSUME NEW d \in Devices
      PROVE  /\ Evaluable(inp, d, c.day - 1) <=> Evaluable(f, d, c.day - 1)
             /\ \A ch \in Active : DataDev(inp, d, c.day - 1, ch) <=> DataDev(f, d, c.day - 1, ch)
             /\ c.boundary => /\ Evaluable(inp, d, c.day) <=> Evaluable(f, d, c.day)
                              /\ \A ch \in Active : DataDev(inp, d, c.day, ch) <=> DataDev(f, d, c.day, ch)
  BY <1>1, Zenon DEF SameFacts
<1>3. inp.timing = f.timing
  BY DEF SameFacts
<1>4. ASSUME NEW d \in Devices
      PROVE  Persistent(inp, bk, d, c) = Persistent(f, h, d, c)
  <2>1. \A ch \in Active : (c.boundary /\ DataPersistent(inp, bk, d, c.day, ch))
                             <=> (c.boundary /\ DataPersistent(f, h, d, c.day, ch))
    BY <1>2, Zenon DEF DataPersistent
  <2>2. {ch \in Active : c.boundary /\ DataPersistent(inp, bk, d, c.day, ch)}
          = {ch \in Active : c.boundary /\ DataPersistent(f, h, d, c.day, ch)}
    BY <2>1, Zenon
  <2>3. PerfPersistent(inp, bk.perf[d], c) <=> PerfPersistent(f, h.perf[d], c)
    BY <1>3, Zenon DEF PerfPersistent
  <2>. QED  BY <2>2, <2>3, Zenon DEF Persistent
<1>5. ASSUME NEW d \in Devices
      PROVE  Fallen(inp, bk, d, c) = Fallen(f, h, d, c)
  <2>1. \A ch \in Active : (c.boundary /\ Evaluable(inp, d, c.day) /\ ~DataDev(inp, d, c.day, ch))
                        <=> (c.boundary /\ Evaluable(f, d, c.day) /\ ~DataDev(f, d, c.day, ch))
    BY <1>2, Zenon
  <2>2. {ch \in Active : c.boundary /\ Evaluable(inp, d, c.day) /\ ~DataDev(inp, d, c.day, ch)}
          = {ch \in Active : c.boundary /\ Evaluable(f, d, c.day) /\ ~DataDev(f, d, c.day, ch)}
    BY <2>1, Zenon
  <2>. QED  BY <2>2, Zenon DEF Fallen
<1>6. Present(inp, c) = Present(f, c)
  <2>1. ASSUME NEW d \in Devices
        PROVE  Evaluable(inp, d, IF c.boundary THEN c.day ELSE c.day - 1)
                 <=> Evaluable(f, d, IF c.boundary THEN c.day ELSE c.day - 1)
    <3>1. CASE c.boundary
      BY <3>1, <1>2
    <3>2. CASE ~c.boundary
      BY <3>2, <1>2
    <3>. QED  BY <3>1, <3>2
  <2>. QED  BY <2>1, Zenon DEF Present
<1>. QED
  BY <1>4, <1>5, <1>6


\* The stages of a decision tick.
LEMMA CmdStages ==
  ASSUME NEW bk, IsBooks(bk), NEW inp, NEW c, NEW b, b = Observed(bk, Devices, inp.perf, c.t),
         NEW e, e = Ended(b, [d \in Devices |-> Fallen(inp, b, d, c)]),
         NEW found, found = [d \in Devices |-> Persistent(inp, e, d, c)]
  PROVE  CmdTick(bk, inp, c)
           = Issued(inp, e, c, found, Present(inp, c), Commanded(inp, e, found, c.t))
<1>. DEFINE P == [d \in Devices |-> Advance(bk.perf[d], inp.perf[d], c.t)]
            Q == [d \in Devices |-> IF d \in Devices THEN Advance(bk.perf[d], inp.perf[d], c.t)
                                    ELSE bk.perf[d]]
<1>1. P = Q
  OBVIOUS
<1>2. b = [bk EXCEPT !.perf = Q]
  BY Zenon DEF Observed
<1>3. b = [bk EXCEPT !.perf = P]
  <2>. HIDE DEF P, Q
  <2>. QED  BY <1>1, <1>2
<1>4. CmdTick(bk, inp, c) = CmdAfter(inp, b, c)
  BY <1>3, Zenon DEF CmdTick
<1>5. CmdAfter(inp, b, c) = CmdOn(inp, e, c)
  BY Zenon DEF CmdAfter
<1>6. CmdOn(inp, e, c) = CmdFor(inp, e, c, found)
  BY Zenon DEF CmdOn
<1>. QED
  BY <1>4, <1>5, <1>6, Zenon DEF CmdFor

\* Books that agree still do after the same signals fell back.
LEMMA EndedSame ==
  ASSUME NEW bk, IsBooks(bk), NEW h, IsBooks(h), Same(bk, h), NEW fallen,
         NEW b, b = Ended(bk, fallen), NEW g, g = Ended(h, fallen)
  PROVE  Same(b, g)
<1>1. /\ b.perf = bk.perf /\ b.cooldown = bk.cooldown /\ b.seq = bk.seq
      /\ b.drift = [d \in Devices |-> [bk.drift[d] EXCEPT !.triggers = @ \ fallen[d]]]
      /\ b.episode = [d \in Devices |-> [k \in Triggers |->
                        IF k \in fallen[d] THEN 0 ELSE bk.episode[d][k]]]
  BY EndedFields
<1>2. /\ g.perf = h.perf /\ g.cooldown = h.cooldown /\ g.seq = h.seq
      /\ g.drift = [d \in Devices |-> [h.drift[d] EXCEPT !.triggers = @ \ fallen[d]]]
      /\ g.episode = [d \in Devices |-> [k \in Triggers |->
                        IF k \in fallen[d] THEN 0 ELSE h.episode[d][k]]]
  BY EndedFields
<1>3. bk.drift = h.drift /\ bk.episode = h.episode
  BY DEF Same
<1>4. b.drift = g.drift
  BY <1>1, <1>2, <1>3
<1>5. b.episode = g.episode
  BY <1>1, <1>2, <1>3
<1>. QED
  BY <1>1, <1>2, <1>4, <1>5 DEF Same

\* Books and facts that agree issue the same commands.
LEMMA IssuedSame ==
  ASSUME NEW bk, IsBooks(bk), NEW h, IsBooks(h), Same(bk, h),
         NEW inp, NEW f, inp.timing = f.timing, NEW c, NEW found, NEW present,
         NEW devs, devs = Commanded(inp, bk, found, c.t),
         NEW cmd, cmd = Issued(inp, bk, c, found, present, devs),
         NEW core, core = Issued(f, h, c, found, present, Commanded(f, h, found, c.t))
  PROVE  cmd.out = core.out /\ Same(cmd.books, core.books)
<1>0. bk.drift = h.drift /\ bk.episode = h.episode /\ bk.seq = h.seq /\ bk.cooldown = h.cooldown
  BY DEF Same
<1>1. \A d : FreshClasses(inp, bk, found, d) = FreshClasses(f, h, found, d)
  BY <1>0, Zenon DEF FreshClasses
<1>2. Commanded(f, h, found, c.t) = devs
  BY <1>0, <1>1, Zenon DEF Commanded
<1>3. EffectiveAt(inp, c.t) = EffectiveAt(f, c.t) /\ CooldownUntil(inp, c.t) = CooldownUntil(f, c.t)
  BY Zenon DEF EffectiveAt, CooldownUntil
<1>4. core = Issued(f, h, c, found, present, devs)
  BY <1>2
<1>5. Drifting(bk, found, present) = Drifting(h, found, present)
  BY <1>0, Zenon DEF Drifting
<1>6. cmd.out = core.out
  <2>1. cmd.out = {CommandOf(inp, bk, c, found, present, d) : d \in devs}
    BY IssuedOut
  <2>2. core.out = {CommandOf(f, h, c, found, present, d) : d \in devs}
    BY <1>4, IssuedOut
  <2>3. \A d : CommandOf(inp, bk, c, found, present, d) = CommandOf(f, h, c, found, present, d)
    <3>1. ASSUME NEW d
          PROVE  {bk.episode[d][k] : k \in FreshClasses(inp, bk, found, d)}
                   = {h.episode[d][k] : k \in FreshClasses(f, h, found, d)}
      <4>1. FreshClasses(inp, bk, found, d) = FreshClasses(f, h, found, d) /\ bk.episode = h.episode
        BY <1>0, <1>1
      <4>. QED  BY <4>1
    <3>. QED  BY <3>1, <1>0, <1>3, Zenon DEF CommandOf
  <2>. QED  BY <2>1, <2>2, <2>3
<1>. DEFINE b == cmd.books
            g == core.books
<1>7. /\ b.perf = bk.perf /\ b.drift = Drifting(bk, found, present)
      /\ b.episode = [d \in Devices |-> [k \in Triggers |-> bk.episode[d][k] +
           (IF d \in devs /\ k \in FreshClasses(inp, bk, found, d) THEN 1 ELSE 0)]]
      /\ b.seq = [d \in Devices |-> bk.seq[d] + (IF d \in devs THEN 1 ELSE 0)]
      /\ b.cooldown = [d \in Devices |-> IF d \in devs THEN CooldownUntil(inp, c.t) ELSE bk.cooldown[d]]
  BY IssuedFields
<1>8. /\ g.perf = h.perf /\ g.drift = Drifting(h, found, present)
      /\ g.episode = [d \in Devices |-> [k \in Triggers |-> h.episode[d][k] +
           (IF d \in devs /\ k \in FreshClasses(f, h, found, d) THEN 1 ELSE 0)]]
      /\ g.seq = [d \in Devices |-> h.seq[d] + (IF d \in devs THEN 1 ELSE 0)]
      /\ g.cooldown = [d \in Devices |-> IF d \in devs THEN CooldownUntil(f, c.t) ELSE h.cooldown[d]]
  BY <1>4, IssuedFields
<1>. HIDE DEF b, g
<1>9. b.episode = g.episode
  BY <1>0, <1>1, <1>7, <1>8
<1>10. b.seq = g.seq /\ b.cooldown = g.cooldown
  BY <1>0, <1>3, <1>7, <1>8
<1>11. b.perf = g.perf /\ b.drift = g.drift
  BY <1>5, <1>7, <1>8, Zenon DEF Same
<1>. QED
  BY <1>6, <1>9, <1>10, <1>11 DEF Same, b, g

\* A decision tick depends on the books and the facts alone.
LEMMA CmdSame ==
  ASSUME NEW bk, IsBooks(bk), NEW h, IsBooks(h), Same(bk, h), NEW inp, NEW f,
         NEW t \in Nat, t >= 1, t <= LastTick, NEW c, c = DecisionAt(t), SameFacts(inp, f, c)
  PROVE  /\ IsBooks(CmdTick(bk, inp, c).books) /\ IsBooks(CmdTick(h, f, c).books)
         /\ Same(CmdTick(bk, inp, c).books, CmdTick(h, f, c).books)
         /\ CmdTick(bk, inp, c).out = CmdTick(h, f, c).out
<1>. DEFINE b == Observed(bk, Devices, inp.perf, c.t)
            g == Observed(h, Devices, f.perf, c.t)
            fall == [d \in Devices |-> Fallen(inp, b, d, c)]
            e == Ended(b, fall)
            j == Ended(g, fall)
            found == [d \in Devices |-> Persistent(inp, e, d, c)]
            present == Present(inp, c)
<1>1. IsBooks(b) /\ IsBooks(g)
  BY ObservedFields
<1>2. Same(b, g)
  BY ObservedSame
<1>3. fall = [d \in Devices |-> Fallen(f, g, d, c)]
  <2>. HIDE DEF b, g
  <2>1. \A d \in Devices : Fallen(inp, b, d, c) = Fallen(f, g, d, c)
    BY <1>2, FindingsSame DEF Same
  <2>. QED  BY <2>1
<1>. HIDE DEF fall
<1>4. IsBooks(e) /\ IsBooks(j)
  <2>. HIDE DEF b, g
  <2>. QED  BY <1>1, EndedFields
<1>5. Same(e, j)
  <2>. HIDE DEF b, g
  <2>. QED  BY <1>1, <1>2, EndedSame
<1>6. found = [d \in Devices |-> Persistent(f, j, d, c)] /\ present = Present(f, c)
  <2>. HIDE DEF e, j
  <2>1. e.perf = j.perf
    BY <1>5 DEF Same
  <2>2. /\ \A d \in Devices : Persistent(inp, e, d, c) = Persistent(f, j, d, c)
        /\ Present(inp, c) = Present(f, c)
    BY <2>1, FindingsSame
  <2>. QED  BY <2>2
<1>7. CmdTick(bk, inp, c) = Issued(inp, e, c, found, present, Commanded(inp, e, found, c.t))
  BY CmdStages DEF fall
<1>8. CmdTick(h, f, c) = Issued(f, j, c, found, present, Commanded(f, j, found, c.t))
  <2>1. j = Ended(g, [d \in Devices |-> Fallen(f, g, d, c)])
    BY <1>3
  <2>. HIDE DEF g, e, j, found, present
  <2>2. CmdTick(h, f, c) = Issued(f, j, c, found, Present(f, c), Commanded(f, j, found, c.t))
    BY <2>1, <1>6, CmdStages DEF g
  <2>. QED  BY <2>2, <1>6
<1>. HIDE DEF b, g, e, j, found, present
<1>9. inp.timing = f.timing
  BY DEF SameFacts
<1>a. /\ IsBooks(Issued(inp, e, c, found, present, Commanded(inp, e, found, c.t)).books)
      /\ IsBooks(Issued(f, j, c, found, present, Commanded(f, j, found, c.t)).books)
  BY ZenonT(40), <1>4, IssuedFields
<1>10. /\ IsBooks(CmdTick(bk, inp, c).books) /\ IsBooks(CmdTick(h, f, c).books)
  BY <1>a, <1>7, <1>8
<1>11. /\ CmdTick(bk, inp, c).out = CmdTick(h, f, c).out
       /\ Same(CmdTick(bk, inp, c).books, CmdTick(h, f, c).books)
  BY SMTT(40), <1>4, <1>5, <1>7, <1>8, <1>9, IssuedSame
<1>. QED
  BY <1>10, <1>11


\* Rows carry their type.
LEMMA RowTypes ==
  /\ \A bk, m, info, global, rules : \A r \in Alerts(bk, m, info, global, rules) : r.type = "alert"
  /\ \A bk, inp, c : \A r \in Review(bk, inp, c) : r.type = "review"
  /\ \A inp, bk, c, found, present, devs :
       \A r \in {CommandOf(inp, bk, c, found, present, d) : d \in devs} : r.type = "command"
<1>1. ASSUME NEW bk, NEW m, NEW info, NEW global, NEW rules,
             NEW r \in Alerts(bk, m, info, global, rules)
      PROVE  r.type = "alert"
  <2>1. PICK d : r = Alert(bk, m, info, global, d, Labels[Min(rules[d])])
    BY <1>1, Zenon DEF Alerts
  <2>. DEFINE label == Labels[Min(rules[d])]
  <2>2. \E a1, a2, a3, a4, a5, a6, a7 :
          r = [type |-> "alert", device |-> d, at |-> a1, label |-> a2, global |-> a3, co |-> a4,
               flags |-> a5, data |-> a6, perf |-> a7, note |-> label = "site" /\ SiteDrift(bk, d, m)]
    <3>1. r = Alert(bk, m, info, global, d, label)
      BY <2>1
    <3>. HIDE DEF label
    <3>. QED  BY <3>1, Zenon DEF Alert
  <2>. HIDE DEF label
  <2>. QED  BY <2>2
<1>2. ASSUME NEW bk, NEW inp, NEW c, NEW r \in Review(bk, inp, c)
      PROVE  r.type = "review"
  <2>. DEFINE D == {e \in Devices : <<e, c.day>> \in DOMAIN inp.evaluable /\ ~Evaluable(inp, e, c.day)}
              A == {x \in bk.dayAlerts : x.label = "anomaly" /\ Entered(inp, x.device, c.day)
                                         /\ Explained(inp, c, x)}
              X == {[type |-> "review", device |-> d, at |-> c.t, kind |-> "not evaluable", hour |-> 0] :
                      d \in D}
              Y == {[type |-> "review", device |-> a.device, at |-> c.t, kind |-> "switch",
                     hour |-> a.at] : a \in A}
  <2>0. Review(bk, inp, c) = X \cup Y
    BY Zenon DEF Review
  <2>. HIDE DEF D, A
  <2>a. \A x \in X : \E a1, a2, a3, a4 :
          x = [type |-> "review", device |-> a1, at |-> a2, kind |-> a3, hour |-> a4]
    BY Zenon
  <2>b. \A x \in Y : \E a1, a2, a3, a4 :
          x = [type |-> "review", device |-> a1, at |-> a2, kind |-> a3, hour |-> a4]
    BY Zenon
  <2>. HIDE DEF X, Y
  <2>1. \E a1, a2, a3, a4 : r = [type |-> "review", device |-> a1, at |-> a2, kind |-> a3, hour |-> a4]
    BY <1>2, <2>0, <2>a, <2>b, Zenon
  <2>. QED  BY <2>1
<1>3. ASSUME NEW inp, NEW bk, NEW c, NEW found, NEW present, NEW devs,
             NEW r \in {CommandOf(inp, bk, c, found, present, d) : d \in devs}
      PROVE  r.type = "command"
  <2>1. PICK d : r = CommandOf(inp, bk, c, found, present, d)
    BY <1>3, Zenon
  <2>2. \E a1, a2, a3, a4, a5, a6, a7, a8 :
          r = [type |-> "command", device |-> a1, at |-> a2, effective |-> a3, seq |-> a4,
               global |-> a5, triggers |-> a6, co |-> a7, n |-> a8]
    BY <2>1, ZenonT(40) DEF CommandOf
  <2>. QED  BY <2>2
<1>. QED
  BY <1>1, <1>2, <1>3, Zenon

\* What the alerts of an hour leave in the books: the performance layer of the
\* devices with readings, and histories.
LEMMA AlertKeeps ==
  ASSUME NEW bk, IsBooks(bk), NEW inp, NEW hs \in Int,
         NEW rows, rows = {d \in Devices : HasRow(inp, d, hs)},
         NEW step, step = AlertTick(bk, inp, hs)
  PROVE  /\ IsBooks(step.books)
         /\ Same(step.books, Observed(bk, rows, inp.perf, hs + Hour))
         /\ \A r \in step.out : r.type = "alert"
<1>. DEFINE m == Moment(inp, hs)
            b == BroughtUp(bk, inp, m)
            info == [d \in m.rows |-> Info(inp, b, d, Row(inp, d, m.hs), m)]
            global == GlobalSignals(info)
            rules == Rules(inp, b, m, info, global)
            alerts == Alerts(b, m, info, global, rules)
            o == Observed(bk, rows, inp.perf, hs + Hour)
<1>1. step = Recorded(b, m, info, alerts)
  <2>1. step = AlertAt(inp, b, m)
    BY Zenon DEF AlertTick, AlertHour
  <2>. HIDE DEF b, m
  <2>2. AlertAt(inp, b, m) = AlertOn(inp, b, m, info)
    BY Zenon DEF AlertAt
  <2>. HIDE DEF info
  <2>3. AlertOn(inp, b, m, info) = AlertBy(inp, b, m, info, global)
    BY Zenon DEF AlertOn
  <2>. HIDE DEF global
  <2>4. AlertBy(inp, b, m, info, global) = Recorded(b, m, info, alerts)
    BY Zenon DEF AlertBy
  <2>. QED  BY <2>1, <2>2, <2>3, <2>4
<1>2. m.hs = hs /\ m.rows = rows
  BY DEF Moment
<1>. HIDE DEF m
<1>3. \A r \in alerts : r.type = "alert"
  BY RowTypes, Zenon
<1>4. DOMAIN bk = {"perf", "flagHist", "siteHist", "base", "drift", "episode", "cooldown", "seq",
                   "dayAlerts"}
  BY DEF IsBooks, BookFields
<1>5. /\ DOMAIN b = DOMAIN bk /\ b.drift = bk.drift /\ b.episode = bk.episode
      /\ b.cooldown = bk.cooldown /\ b.seq = bk.seq
      /\ b.perf = [d \in Devices |-> IF d \in rows THEN Advance(bk.perf[d], inp.perf[d], hs + Hour)
                                     ELSE bk.perf[d]]
  <2>. DEFINE P == [d \in Devices |-> IF d \in m.rows THEN Advance(bk.perf[d], inp.perf[d], m.hs + Hour)
                                      ELSE bk.perf[d]]
              L == Baseline(bk, inp, m)
  <2>1. b = [bk EXCEPT !.perf = P, !.base = L]
    BY Zenon DEF BroughtUp
  <2>. HIDE DEF P, L, b
  <2>2. /\ DOMAIN b = DOMAIN bk /\ b.drift = bk.drift /\ b.episode = bk.episode
        /\ b.cooldown = bk.cooldown /\ b.seq = bk.seq /\ b.perf = P
    BY <1>4, <2>1
  <2>. QED  BY <2>2, <1>2 DEF P
<1>. HIDE DEF b, alerts
<1>6. /\ DOMAIN step.books = DOMAIN b /\ step.out = alerts
      /\ step.books.perf = b.perf /\ step.books.drift = b.drift /\ step.books.episode = b.episode
      /\ step.books.cooldown = b.cooldown /\ step.books.seq = b.seq
  <2>. DEFINE S == Marked(b.siteHist, {a.device : a \in {x \in alerts : x.label = "site"}}, m)
              F == Marked(b.flagHist, {d \in m.rows : Flagged(info[d])}, m)
              A == b.dayAlerts \cup alerts
              N == [b EXCEPT !.siteHist = S, !.flagHist = F, !.dayAlerts = A]
  <2>1. step = [books |-> N, out |-> alerts]
    BY <1>1, Zenon DEF Recorded
  <2>. HIDE DEF S, F, A
  <2>2. /\ DOMAIN N = DOMAIN b /\ N.perf = b.perf /\ N.drift = b.drift /\ N.episode = b.episode
        /\ N.cooldown = b.cooldown /\ N.seq = b.seq
    BY <1>4, <1>5
  <2>. HIDE DEF N
  <2>3. step.books = N /\ step.out = alerts
    BY <2>1
  <2>. QED  BY <2>2, <2>3
<1>7. /\ o.drift = bk.drift /\ o.episode = bk.episode /\ o.cooldown = bk.cooldown /\ o.seq = bk.seq
      /\ o.perf = [d \in Devices |-> IF d \in rows THEN Advance(bk.perf[d], inp.perf[d], hs + Hour)
                                     ELSE bk.perf[d]]
  BY ObservedFields
<1>. HIDE DEF o
<1>8. Same(step.books, o)
  BY <1>5, <1>6, <1>7 DEF Same
<1>. QED
  BY <1>3, <1>5, <1>6, <1>8 DEF IsBooks, o

\* The review adds reviews, and closes the day's alerts.
LEMMA ReviewKeeps ==
  ASSUME NEW inp, NEW c, NEW cmd, IsBooks(cmd.books), NEW step, step = Reviewed(inp, c, cmd)
  PROVE  /\ IsBooks(step.books) /\ Same(step.books, cmd.books)
         /\ cmd.out \subseteq step.out
         /\ \A r \in step.out : r \in cmd.out \/ r.type = "review"
<1>1. CASE c.boundary
  <2>. DEFINE N == [cmd.books EXCEPT !.dayAlerts = {}]
              R == Review(cmd.books, inp, c)
  <2>1. step = [books |-> N, out |-> cmd.out \cup R]
    BY <1>1, Zenon DEF Reviewed
  <2>2. \A r \in R : r.type = "review"
    BY RowTypes, Zenon
  <2>3. IsBooks(N) /\ Same(N, cmd.books)
    BY DEF IsBooks, BookFields, Same
  <2>. HIDE DEF N, R
  <2>4. step.books = N /\ step.out = cmd.out \cup R
    BY <2>1
  <2>. QED  BY <2>2, <2>3, <2>4
<1>2. CASE ~c.boundary
  <2>1. step = cmd
    BY <1>2 DEF Reviewed
  <2>. QED  BY <2>1 DEF Same
<1>. QED
  BY <1>1, <1>2

\* A command tick writes commands only.
LEMMA CommandsOnly ==
  ASSUME NEW bk, IsBooks(bk), NEW inp, NEW c, NEW r \in CmdTick(bk, inp, c).out
  PROVE  r.type = "command"
<1>. DEFINE b == Observed(bk, Devices, inp.perf, c.t)
            e == Ended(b, [d \in Devices |-> Fallen(inp, b, d, c)])
            found == [d \in Devices |-> Persistent(inp, e, d, c)]
            present == Present(inp, c)
            devs == Commanded(inp, e, found, c.t)
<1>1. CmdTick(bk, inp, c) = Issued(inp, e, c, found, present, devs)
  BY CmdStages
<1>. HIDE DEF e, found, present, devs
<1>2. r \in {CommandOf(inp, e, c, found, present, d) : d \in devs}
  BY <1>1, IssuedOut
<1>. QED
  BY <1>2, RowTypes


\* One tick of the operator and one by the scenario alone leave books that agree,
\* and put out the same commands.
\* Two ticks with the same effect on the books of the core, and the same commands.
SameTick(step, core) ==
  /\ IsBooks(step.books) /\ IsBooks(core.books) /\ Same(step.books, core.books)
  /\ \A r : (r \in step.out /\ r.type = "command") <=> r \in core.out

\* A tick from books and a view that agree gives the commands and books of the core.
LEMMA TickSame ==
  ASSUME NEW bk, IsBooks(bk), NEW h, IsBooks(h), Same(bk, h), NEW inp, NEW f,
         NEW t \in Nat, t >= Hour, t <= LastTick, NEW c, c = DecisionAt(t), SameFacts(inp, f, c),
         NEW rows, rows = {d \in Devices : HasRow(inp, d, t - Hour)},
         NEW step, step = TickAt(bk, inp, t), NEW core, core = CoreOn(h, f, rows, c)
  PROVE  SameTick(step, core)
<1>. DEFINE alert == AlertTick(bk, inp, t - Hour)
            dec == Decided(inp, c, alert)
            b == Observed(bk, rows, inp.perf, t)
            g == Observed(h, rows, f.perf, t)
<1>1. step = Reviewed(inp, c, dec) /\ c.t = t
  <2>1. c.t = t
    BY DecisionDays DEF Hour
  <2>. QED  BY <2>1, Zenon DEF TickAt, TickOf
<1>2. /\ IsBooks(alert.books) /\ Same(alert.books, b)
      /\ \A r \in alert.out : r.type = "alert"
  <2>. HIDE DEF alert
  <2>1. t - Hour \in Int /\ t - Hour + Hour = t
    BY DEF Hour
  <2>. SUFFICES ASSUME alert = AlertTick(bk, inp, t - Hour)
                PROVE  /\ IsBooks(alert.books) /\ Same(alert.books, b)
                       /\ \A r \in alert.out : r.type = "alert"
    BY DEF alert
  <2>. QED  BY <2>1, AlertKeeps
<1>3. IsBooks(b) /\ IsBooks(g) /\ Same(b, g)
  <2>1. IsBooks(b) /\ IsBooks(g)
    BY ObservedFields
  <2>2. Same(Observed(bk, rows, inp.perf, c.t), Observed(h, rows, f.perf, c.t))
    BY ObservedSame
  <2>. QED  BY <2>1, <2>2, <1>1
<1>. HIDE DEF b, g, alert
<1>4. Same(alert.books, g)
  BY <1>2, <1>3 DEF Same
<1>5. IsCmdTick(inp.timing, c) <=> IsCmdTick(f.timing, c)
  BY DEF SameFacts
<1>6. /\ IsBooks(dec.books) /\ IsBooks(core.books) /\ Same(dec.books, core.books)
      /\ \A r : (r \in dec.out /\ r.type = "command") <=> r \in core.out
  <2>1. CASE IsCmdTick(inp.timing, c)
    <3>. DEFINE cmd == CmdTick(alert.books, inp, c)
    <3>1. core = CmdTick(g, f, c)
      BY <2>1, <1>5, <1>1, Zenon DEF CoreOn, g
    <3>2. dec.books = cmd.books /\ dec.out = alert.out \cup cmd.out
      BY <2>1 DEF Decided, AlsoOut
    <3>3. /\ IsBooks(cmd.books) /\ IsBooks(core.books) /\ Same(cmd.books, core.books)
          /\ cmd.out = core.out
      BY <3>1, <1>2, <1>3, <1>4, CmdSame DEF Hour
    <3>4. \A r \in cmd.out : r.type = "command"
      BY <1>2, CommandsOnly
    <3>. HIDE DEF cmd, dec
    <3>. QED  BY <3>2, <3>3, <3>4, <1>2
  <2>2. CASE ~IsCmdTick(inp.timing, c)
    <3>1. core = [books |-> g, out |-> {}]
      BY <2>2, <1>5, <1>1, Zenon DEF CoreOn, g
    <3>2. dec = alert
      BY <2>2 DEF Decided
    <3>. HIDE DEF dec
    <3>. QED  BY <3>1, <3>2, <1>2, <1>3, <1>4
  <2>. QED  BY <2>1, <2>2
<1>. HIDE DEF dec
<1>7. /\ IsBooks(step.books) /\ Same(step.books, dec.books) /\ dec.out \subseteq step.out
      /\ \A r \in step.out : r \in dec.out \/ r.type = "review"
  BY <1>1, <1>6, ReviewKeeps
<1>8. Same(step.books, core.books)
  BY <1>6, <1>7 DEF Same
<1>9. \A r : (r \in step.out /\ r.type = "command") <=> r \in core.out
  BY <1>6, <1>7
<1>. QED
  BY <1>6, <1>7, <1>8, <1>9, Zenon DEF SameTick


--------------------------------------------------------------------------------
(* What a tick does to the books that commands depend on. *)

DriftType == [Devices -> [scope : {"local", "global"}, triggers : SUBSET Triggers]]
EpisodeType == [Devices -> [Triggers -> Nat]]

\* An open episode is in the drift book.
OpenIsDrift(episode, drift) ==
  \A d \in Devices, k \in Triggers : episode[d][k] > 0 => k \in drift[d].triggers

TypedBooks(h) ==
  /\ IsBooks(h)
  /\ h.drift \in DriftType /\ h.episode \in EpisodeType
  /\ h.cooldown \in [Devices -> Nat] /\ h.seq \in [Devices -> Nat]
  /\ OpenIsDrift(h.episode, h.drift)

\* Observing evidence keeps the books well formed.
LEMMA ObservedTyped ==
  ASSUME NEW h, TypedBooks(h), NEW rows, NEW items, NEW t
  PROVE  TypedBooks(Observed(h, rows, items, t))
<1>. DEFINE b == Observed(h, rows, items, t)
<1>0. IsBooks(h)
  BY DEF TypedBooks
<1>1. /\ IsBooks(b) /\ b.drift = h.drift /\ b.episode = h.episode
      /\ b.cooldown = h.cooldown /\ b.seq = h.seq
  BY <1>0, ObservedKeeps
<1>. HIDE DEF b
<1>2. TypedBooks(b)
  BY <1>1 DEF TypedBooks
<1>. QED  BY <1>2 DEF b

\* Closing episodes keeps the books well formed.
LEMMA EndedTyped ==
  ASSUME NEW h, TypedBooks(h), NEW fallen
  PROVE  TypedBooks(Ended(h, fallen))
<1>. DEFINE b == Ended(h, fallen)
<1>1. /\ IsBooks(b) /\ b.cooldown = h.cooldown /\ b.seq = h.seq
      /\ b.drift = [d \in Devices |-> [h.drift[d] EXCEPT !.triggers = @ \ fallen[d]]]
      /\ b.episode = [d \in Devices |-> [k \in Triggers |->
                        IF k \in fallen[d] THEN 0 ELSE h.episode[d][k]]]
  BY EndedFields DEF TypedBooks
<1>. HIDE DEF b
<1>2. ASSUME NEW d \in Devices
      PROVE  /\ b.drift[d] \in [scope : {"local", "global"}, triggers : SUBSET Triggers]
             /\ b.drift[d].triggers = h.drift[d].triggers \ fallen[d]
  <2>1. h.drift[d] \in [scope : {"local", "global"}, triggers : SUBSET Triggers]
    BY DEF TypedBooks, DriftType
  <2>2. b.drift[d] = [h.drift[d] EXCEPT !.triggers = @ \ fallen[d]]
    BY <1>1
  <2>. QED  BY <2>1, <2>2
<1>3. b.drift \in DriftType
  BY <1>1, <1>2 DEF DriftType
<1>4. b.episode \in EpisodeType
  BY <1>1 DEF TypedBooks, EpisodeType
<1>5. OpenIsDrift(b.episode, b.drift)
  <2>1. SUFFICES ASSUME NEW d \in Devices, NEW k \in Triggers, b.episode[d][k] > 0
                 PROVE  k \in b.drift[d].triggers
    BY DEF OpenIsDrift
  <2>2. k \notin fallen[d] /\ h.episode[d][k] > 0
    BY <2>1, <1>1
  <2>3. k \in h.drift[d].triggers
    BY <2>2 DEF TypedBooks, OpenIsDrift
  <2>. QED  BY <2>2, <2>3, <1>2
<1>6. TypedBooks(b)
  BY <1>1, <1>3, <1>4, <1>5 DEF TypedBooks
<1>. QED  BY <1>6 DEF b

\* The drift book after a decision has the signals it had and those found.
LEMMA DriftingTyped ==
  ASSUME NEW h, TypedBooks(h), NEW found \in [Devices -> SUBSET Triggers], NEW present,
         NEW drift, drift = Drifting(h, found, present)
  PROVE  /\ drift \in DriftType
         /\ \A d \in Devices : drift[d].triggers = h.drift[d].triggers \cup found[d]
<1>1. ASSUME NEW d \in Devices
      PROVE  /\ drift[d] \in [scope : {"local", "global"}, triggers : SUBSET Triggers]
             /\ drift[d].triggers = h.drift[d].triggers \cup found[d]
  <2>1. h.drift[d] \in [scope : {"local", "global"}, triggers : SUBSET Triggers] /\ found[d] \subseteq Triggers
    BY DEF TypedBooks, DriftType
  <2>. DEFINE s == IF GlobalDrift(found, present, d) THEN "global" ELSE "local"
  <2>2. drift[d] = IF found[d] = {} THEN h.drift[d]
                   ELSE IF h.drift[d].triggers # {} THEN [h.drift[d] EXCEPT !.triggers = @ \cup found[d]]
                   ELSE [scope |-> s, triggers |-> found[d]]
    BY DEF Drifting
  <2>3. s \in {"local", "global"}
    OBVIOUS
  <2>. HIDE DEF s
  <2>4. CASE found[d] = {}
    BY <2>1, <2>2, <2>4
  <2>5. CASE found[d] # {} /\ h.drift[d].triggers # {}
    BY <2>1, <2>2, <2>5
  <2>6. CASE found[d] # {} /\ h.drift[d].triggers = {}
    BY <2>1, <2>2, <2>3, <2>6
  <2>. QED  BY <2>4, <2>5, <2>6
<1>2. drift = [d \in Devices |-> drift[d]]
  BY DEF Drifting
<1>. QED
  BY <1>1, <1>2 DEF DriftType

\* Issuing commands keeps the books well formed.
LEMMA IssuedTyped ==
  ASSUME NEW h, TypedBooks(h), NEW inp, NEW c, CooldownUntil(inp, c.t) \in Nat,
         NEW found \in [Devices -> SUBSET Triggers], NEW present, NEW devs,
         NEW b, b = Issued(inp, h, c, found, present, devs).books
  PROVE  TypedBooks(b)
<1>1. /\ IsBooks(b)
      /\ b.drift = Drifting(h, found, present)
      /\ b.episode = [d \in Devices |-> [k \in Triggers |-> h.episode[d][k] +
           (IF d \in devs /\ k \in FreshClasses(inp, h, found, d) THEN 1 ELSE 0)]]
      /\ b.seq = [d \in Devices |-> h.seq[d] + (IF d \in devs THEN 1 ELSE 0)]
      /\ b.cooldown = [d \in Devices |-> IF d \in devs THEN CooldownUntil(inp, c.t)
                                         ELSE h.cooldown[d]]
  BY IssuedFields DEF TypedBooks
<1>2. b.seq \in [Devices -> Nat] /\ b.cooldown \in [Devices -> Nat]
  BY <1>1 DEF TypedBooks
<1>3. b.episode \in EpisodeType
  BY <1>1 DEF TypedBooks, EpisodeType
<1>4. /\ b.drift \in DriftType
      /\ \A d \in Devices : b.drift[d].triggers = h.drift[d].triggers \cup found[d]
  BY <1>1, DriftingTyped
<1>5. OpenIsDrift(b.episode, b.drift)
  <2>1. SUFFICES ASSUME NEW d \in Devices, NEW k \in Triggers, b.episode[d][k] > 0
                 PROVE  k \in b.drift[d].triggers
    BY DEF OpenIsDrift
  <2>2. h.episode[d][k] \in Nat
    BY DEF TypedBooks, EpisodeType
  <2>3. h.episode[d][k] > 0 \/ k \in FreshClasses(inp, h, found, d)
    BY <2>1, <2>2, <1>1
  <2>4. CASE h.episode[d][k] > 0
    BY <2>4, <1>4 DEF TypedBooks, OpenIsDrift
  <2>5. CASE k \in FreshClasses(inp, h, found, d)
    BY <2>5, <1>4 DEF FreshClasses
  <2>. QED  BY <2>3, <2>4, <2>5
<1>. QED
  BY <1>1, <1>2, <1>3, <1>4, <1>5 DEF TypedBooks


\* The devices told by one tick, and what their commands say.
ToldOver(seq, cooldown, f, t, core, devs) ==
  /\ \A r \in core.out : /\ r.device \in devs /\ r.seq = seq[r.device] + 1
                         /\ r.at = t /\ r.effective = EffectiveAt(f, t)
  /\ \A d \in devs : cooldown[d] <= t /\ \E r \in core.out : r.device = d
  /\ \A r, s \in core.out : r.device = s.device => r = s
  /\ \A d \in Devices :
       /\ core.books.seq[d] = seq[d] + (IF d \in devs THEN 1 ELSE 0)
       /\ core.books.cooldown[d] = IF d \in devs THEN CooldownUntil(f, t) ELSE cooldown[d]

Told(h, f, t, core, devs) == ToldOver(h.seq, h.cooldown, f, t, core, devs)

\* A command tick numbers its commands on and sets the cooldowns of the devices it told.
LEMMA CmdEffects ==
  ASSUME NEW h, TypedBooks(h), NEW f, NEW c, CooldownUntil(f, c.t) \in Nat,
         NEW core, core = CmdTick(h, f, c)
  PROVE  TypedBooks(core.books) /\ \E devs \in SUBSET Devices : Told(h, f, c.t, core, devs)
<1>. DEFINE b == Observed(h, Devices, f.perf, c.t)
            e == Ended(b, [d \in Devices |-> Fallen(f, b, d, c)])
            found == [d \in Devices |-> Persistent(f, e, d, c)]
            present == Present(f, c)
            devs == Commanded(f, e, found, c.t)
<1>0. IsBooks(h)
  BY DEF TypedBooks
<1>1. core = Issued(f, e, c, found, present, devs)
  BY <1>0, CmdStages
<1>2. TypedBooks(b) /\ b.cooldown = h.cooldown /\ b.seq = h.seq
  BY <1>0, ObservedTyped, ObservedKeeps
<1>3. TypedBooks(e) /\ e.cooldown = h.cooldown /\ e.seq = h.seq
  <2>. HIDE DEF b
  <2>1. TypedBooks(e)
    BY <1>2, EndedTyped
  <2>2. e.cooldown = b.cooldown /\ e.seq = b.seq
    <3>1. IsBooks(b)
      BY <1>2 DEF TypedBooks
    <3>. DEFINE fallen == [d \in Devices |-> Fallen(f, b, d, c)]
    <3>. HIDE DEF fallen
    <3>2. /\ Ended(b, fallen).cooldown = b.cooldown /\ Ended(b, fallen).seq = b.seq
          /\ Ended(b, fallen).drift
               = [d \in Devices |-> [b.drift[d] EXCEPT !.triggers = @ \ fallen[d]]]
          /\ Ended(b, fallen).episode
               = [d \in Devices |-> [k \in Triggers |-> IF k \in fallen[d] THEN 0 ELSE b.episode[d][k]]]
      BY <3>1, EndedFields
    <3>. QED  BY <3>2 DEF fallen
  <2>. QED  BY <2>1, <2>2, <1>2
<1>. HIDE DEF e
<1>4. found \in [Devices -> SUBSET Triggers]
  BY DEF Persistent, Triggers
<1>5. devs \subseteq Devices /\ \A d \in devs : h.cooldown[d] <= c.t
  BY <1>3 DEF Commanded
<1>. HIDE DEF found, present, devs
<1>6. TypedBooks(core.books)
  BY <1>1, <1>3, <1>4, IssuedTyped
<1>7. core.out = {CommandOf(f, e, c, found, present, d) : d \in devs}
  BY <1>1, IssuedOut
<1>8. ASSUME NEW d
      PROVE  LET r == CommandOf(f, e, c, found, present, d)
             IN  r.device = d /\ r.seq = h.seq[d] + 1 /\ r.at = c.t /\ r.effective = EffectiveAt(f, c.t)
  <2>. DEFINE n == 1 + Max({e.episode[d][k] : k \in FreshClasses(f, e, found, d)})
              g == GlobalDrift(found, present, d)
              co == {x \in present : found[x] \cap found[d] # {}}
              r == CommandOf(f, e, c, found, present, d)
  <2>1. r = [type |-> "command", device |-> d, at |-> c.t, effective |-> EffectiveAt(f, c.t),
             seq |-> e.seq[d] + 1, global |-> g, triggers |-> found[d], co |-> co, n |-> n]
    BY Zenon DEF CommandOf
  <2>. HIDE DEF n, g, co, r
  <2>2. r.device = d /\ r.seq = e.seq[d] + 1 /\ r.at = c.t /\ r.effective = EffectiveAt(f, c.t)
    BY <2>1
  <2>. QED  BY <2>2, <1>3 DEF r
<1>9. /\ core.books.seq = [d \in Devices |-> e.seq[d] + (IF d \in devs THEN 1 ELSE 0)]
      /\ core.books.cooldown = [d \in Devices |-> IF d \in devs THEN CooldownUntil(f, c.t)
                                                  ELSE e.cooldown[d]]
  <2>1. IsBooks(e)
    BY <1>3 DEF TypedBooks
  <2>2. /\ core.books.perf = e.perf
        /\ core.books.drift = Drifting(e, found, present)
        /\ core.books.episode = [d \in Devices |-> [k \in Triggers |-> e.episode[d][k] +
             (IF d \in devs /\ k \in FreshClasses(f, e, found, d) THEN 1 ELSE 0)]]
        /\ core.books.seq = [d \in Devices |-> e.seq[d] + (IF d \in devs THEN 1 ELSE 0)]
        /\ core.books.cooldown = [d \in Devices |-> IF d \in devs THEN CooldownUntil(f, c.t)
                                                    ELSE e.cooldown[d]]
    BY <1>1, <2>1, IssuedFields
  <2>. QED  BY <2>2
<1>10. Told(h, f, c.t, core, devs)
  <2>1. \A r \in core.out : \E d \in devs : r = CommandOf(f, e, c, found, present, d)
    BY <1>7
  <2>2. \A r \in core.out : /\ r.device \in devs /\ r.seq = h.seq[r.device] + 1
                            /\ r.at = c.t /\ r.effective = EffectiveAt(f, c.t)
    BY <2>1, <1>8
  <2>3. \A d \in devs : h.cooldown[d] <= c.t /\ \E r \in core.out : r.device = d
    BY <1>5, <1>7, <1>8
  <2>4. \A r, s \in core.out : r.device = s.device => r = s
    BY <2>1, <1>8
  <2>5. \A d \in Devices :
          /\ core.books.seq[d] = h.seq[d] + (IF d \in devs THEN 1 ELSE 0)
          /\ core.books.cooldown[d] = IF d \in devs THEN CooldownUntil(f, c.t) ELSE h.cooldown[d]
    BY <1>3, <1>9
  <2>. QED  BY <2>2, <2>3, <2>4, <2>5 DEF Told, ToldOver
<1>. QED
  BY <1>5, <1>6, <1>10

\* Every tick, with or without a decision.
LEMMA CoreEffects ==
  ASSUME NEW h, TypedBooks(h), NEW sc, IsScenario(sc), NEW t \in Nat, t >= Hour, t <= LastTick,
         NEW core, core = CoreTick(h, sc, t)
  PROVE  TypedBooks(core.books) /\ \E devs \in SUBSET Devices : Told(h, Facts(sc), t, core, devs)
<1>. DEFINE f == Facts(sc)
            c == DecisionAt(t)
            rows == RowsAt(sc, t - Hour)
            b == Observed(h, rows, f.perf, c.t)
<1>1. c.t = t
  BY DecisionDays DEF Hour
<1>2. f.timing = sc.timing
  BY DEF Facts
<1>3. CooldownUntil(f, t) \in Nat
  BY <1>2, CooldownIsAhead DEF IsScenario
<1>4. core = CoreOn(h, f, rows, c)
  BY Zenon DEF CoreTick
<1>5. IsBooks(h)
  BY DEF TypedBooks
<1>6. TypedBooks(b) /\ b.cooldown = h.cooldown /\ b.seq = h.seq
  BY <1>5, ObservedTyped, ObservedKeeps
<1>. HIDE DEF f, c, rows
<1>7. CASE IsCmdTick(f.timing, c)
  <2>1. core = CmdTick(b, f, c)
    BY <1>4, <1>7, Zenon DEF CoreOn
  <2>. HIDE DEF b
  <2>2. TypedBooks(core.books) /\ \E devs \in SUBSET Devices : Told(b, f, c.t, core, devs)
    BY <2>1, <1>1, <1>3, <1>6, CmdEffects
  <2>3. \A devs : Told(b, f, c.t, core, devs) => Told(h, f, t, core, devs)
    BY <1>1, <1>6, Zenon DEF Told
  <2>. QED  BY <2>2, <2>3 DEF f
<1>8. CASE ~IsCmdTick(f.timing, c)
  <2>1. core = [books |-> b, out |-> {}]
    BY <1>4, <1>8, Zenon DEF CoreOn
  <2>. HIDE DEF b
  <2>2. core.books = b /\ core.out = {}
    BY <2>1
  <2>3. Told(h, f, t, core, {})
    <3>1. \A d \in Devices : h.seq[d] \in Nat
      BY DEF TypedBooks
    <3>. QED  BY <2>2, <1>6, <3>1 DEF Told, ToldOver
  <2>. QED  BY <2>2, <2>3, <1>6 DEF f
<1>. QED
  BY <1>7, <1>8


--------------------------------------------------------------------------------
(* The history of a scenario: the books after each of the first n ticks, and *)
(* all commands put out in them.  It knows neither arrival nor restart.      *)

Core(H, sc, k) == CoreTick(H[k - 1], sc, k * Hour)
IsHistory(H, sc, n) == H[0] = EmptyBooks /\ \A k \in 1..n : H[k] = Core(H, sc, k).books
CommandsIn(H, sc, n) == UNION {Core(H, sc, k).out : k \in 1..n}

\* The first books are well formed.
LEMMA EmptyTyped == TypedBooks(EmptyBooks)
<1>. DEFINE b == EmptyBooks
<1>1. /\ DOMAIN b = BookFields
      /\ b.drift = [d \in Devices |-> [scope |-> "local", triggers |-> {}]]
      /\ b.episode = [d \in Devices |-> [k \in Triggers |-> 0]]
      /\ b.cooldown = [d \in Devices |-> 0] /\ b.seq = [d \in Devices |-> 0]
  BY DEF EmptyBooks, BookFields
<1>. HIDE DEF b
<1>2. b.drift \in DriftType /\ b.episode \in EpisodeType
  BY <1>1 DEF DriftType, EpisodeType
<1>3. b.cooldown \in [Devices -> Nat] /\ b.seq \in [Devices -> Nat]
  BY <1>1
<1>4. OpenIsDrift(b.episode, b.drift)
  BY <1>1 DEF OpenIsDrift
<1>5. TypedBooks(b)
  BY <1>1, <1>2, <1>3, <1>4 DEF TypedBooks, IsBooks
<1>. QED  BY <1>5 DEF b

\* Ticks on the calendar.
LEMMA TickInRange ==
  ASSUME NEW n \in Nat, n * Hour <= LastTick, NEW k \in 1..n
  PROVE  k * Hour \in Nat /\ k * Hour >= Hour /\ k * Hour <= LastTick
<1>1. LastTick \in Int
  BY DaysInOrder, ParamsAssumption DEF LastTick
<1>. QED  BY <1>1 DEF Hour

\* All books of a history are well formed.
LEMMA HistoryTyped ==
  ASSUME NEW sc, IsScenario(sc), NEW n \in Nat, n * Hour <= LastTick, NEW H, IsHistory(H, sc, n)
  PROVE  \A k \in 0..n : TypedBooks(H[k])
<1>. DEFINE B == {k \in 0..n : ~TypedBooks(H[k])}
<1>1. SUFFICES ASSUME B # {}  PROVE FALSE
  OBVIOUS
<1>2. PICK m \in B : \A x \in B : m <= x
  <2>1. B \in SUBSET Nat
    OBVIOUS
  <2>. HIDE DEF B
  <2>. QED  BY <1>1, <2>1, LeastExists
<1>3. m # 0
  BY <1>2, EmptyTyped DEF IsHistory
<1>4. m \in 1..n /\ m - 1 \in 0..n /\ m - 1 \notin B
  BY <1>2, <1>3
<1>5. TypedBooks(H[m - 1])
  BY <1>4
<1>6. H[m] = CoreTick(H[m - 1], sc, m * Hour).books
  BY <1>4 DEF IsHistory, Core
<1>7. TypedBooks(H[m])
  BY <1>4, <1>5, <1>6, TickInRange, CoreEffects
<1>. QED
  BY <1>2, <1>7

\* One tick of a history.
LEMMA HistoryStep ==
  ASSUME NEW sc, IsScenario(sc), NEW n \in Nat, n * Hour <= LastTick, NEW H, IsHistory(H, sc, n),
         NEW k \in 1..n
  PROVE  /\ \A d \in Devices :
              /\ H[k - 1].seq[d] \in Nat /\ H[k].seq[d] \in {H[k - 1].seq[d], H[k - 1].seq[d] + 1}
              /\ H[k - 1].cooldown[d] \in Nat /\ H[k].cooldown[d] \in Nat
              /\ H[k - 1].cooldown[d] <= H[k].cooldown[d]
              /\ H[k].seq[d] # H[k - 1].seq[d] => \E r \in Core(H, sc, k).out : r.device = d
         /\ \A r \in Core(H, sc, k).out :
              /\ r.device \in Devices /\ r.at = k * Hour
              /\ r.seq = H[k - 1].seq[r.device] + 1 /\ r.seq = H[k].seq[r.device]
              /\ H[k].cooldown[r.device] = Later(r.effective, 1)
              /\ H[k - 1].cooldown[r.device] <= r.at
         /\ \A r, s \in Core(H, sc, k).out : r.device = s.device => r = s
<1>. DEFINE t == k * Hour
            f == Facts(sc)
            core == Core(H, sc, k)
            h == H[k - 1]
<1>1. t \in Nat /\ t >= Hour /\ t <= LastTick
  BY TickInRange
<1>2. TypedBooks(h) /\ TypedBooks(H[k])
  BY HistoryTyped
<1>3. H[k] = core.books /\ core = CoreTick(h, sc, t)
  BY Zenon DEF IsHistory, Core
<1>4. f.timing = sc.timing
  BY DEF Facts
<1>5. CooldownUntil(f, t) \in Nat /\ CooldownUntil(f, t) >= t
  BY <1>1, <1>4, CooldownIsAhead DEF IsScenario
<1>. HIDE DEF t, f, core, h
<1>6. PICK devs \in SUBSET Devices : Told(h, f, t, core, devs)
  BY <1>1, <1>2, <1>3, CoreEffects DEF f
<1>7. h.seq \in [Devices -> Nat] /\ h.cooldown \in [Devices -> Nat]
  BY <1>2 DEF TypedBooks
<1>8. \A d \in Devices :
        /\ h.seq[d] \in Nat /\ H[k].seq[d] = h.seq[d] + (IF d \in devs THEN 1 ELSE 0)
        /\ h.cooldown[d] \in Nat
        /\ H[k].cooldown[d] = IF d \in devs THEN CooldownUntil(f, t) ELSE h.cooldown[d]
  BY <1>3, <1>6, <1>7 DEF Told, ToldOver
<1>9. \A d \in devs : d \in Devices /\ h.cooldown[d] <= t /\ \E r \in core.out : r.device = d
  BY <1>6 DEF Told, ToldOver
<1>10. /\ \A r \in core.out : /\ r.device \in devs /\ r.seq = h.seq[r.device] + 1
                              /\ r.at = t /\ r.effective = EffectiveAt(f, t)
       /\ \A r, s \in core.out : r.device = s.device => r = s
  BY <1>6 DEF Told, ToldOver
<1>11. \A d \in Devices :
         /\ h.seq[d] \in Nat /\ H[k].seq[d] \in {h.seq[d], h.seq[d] + 1}
         /\ h.cooldown[d] \in Nat /\ H[k].cooldown[d] \in Nat
         /\ h.cooldown[d] <= H[k].cooldown[d]
         /\ H[k].seq[d] # h.seq[d] => \E r \in core.out : r.device = d
  <2>. SUFFICES ASSUME NEW d \in Devices
                PROVE  /\ h.seq[d] \in Nat /\ H[k].seq[d] \in {h.seq[d], h.seq[d] + 1}
                       /\ h.cooldown[d] \in Nat /\ H[k].cooldown[d] \in Nat
                       /\ h.cooldown[d] <= H[k].cooldown[d]
                       /\ H[k].seq[d] # h.seq[d] => \E r \in core.out : r.device = d
    OBVIOUS
  <2>1. CASE d \in devs
    <3>1. /\ h.seq[d] \in Nat /\ H[k].seq[d] = h.seq[d] + 1
          /\ h.cooldown[d] \in Nat /\ H[k].cooldown[d] = CooldownUntil(f, t)
          /\ h.cooldown[d] <= t
      BY <2>1, <1>8, <1>9
    <3>. QED  BY <2>1, <3>1, <1>1, <1>5, <1>9
  <2>2. CASE d \notin devs
    <3>1. /\ h.seq[d] \in Nat /\ H[k].seq[d] = h.seq[d]
          /\ h.cooldown[d] \in Nat /\ H[k].cooldown[d] = h.cooldown[d]
      BY <2>2, <1>8
    <3>. QED  BY <3>1
  <2>. QED  BY <2>1, <2>2
<1>12. \A r \in core.out :
         /\ r.device \in Devices /\ r.at = t
         /\ r.seq = h.seq[r.device] + 1 /\ r.seq = H[k].seq[r.device]
         /\ H[k].cooldown[r.device] = Later(r.effective, 1)
         /\ h.cooldown[r.device] <= r.at
  BY <1>8, <1>9, <1>10 DEF CooldownUntil
<1>. QED
  BY <1>10, <1>11, <1>12 DEF t, core, h


\* Numbers of commands and ends of cooldown never go back.
LEMMA HistoryGrows ==
  ASSUME NEW sc, IsScenario(sc), NEW n \in Nat, n * Hour <= LastTick, NEW H, IsHistory(H, sc, n),
         NEW d \in Devices, NEW i \in 0..n, NEW j \in 0..n, i <= j
  PROVE  H[i].seq[d] <= H[j].seq[d] /\ H[i].cooldown[d] <= H[j].cooldown[d]
<1>. DEFINE Grown(k) == H[i].seq[d] <= H[k].seq[d] /\ H[i].cooldown[d] <= H[k].cooldown[d]
            B == {k \in 0..n : i <= k /\ ~Grown(k)}
<1>0. \A k \in 0..n : H[k].seq[d] \in Nat /\ H[k].cooldown[d] \in Nat
  BY HistoryTyped DEF TypedBooks
<1>1. SUFFICES ASSUME B # {}  PROVE FALSE
  OBVIOUS
<1>2. PICK m \in B : \A x \in B : m <= x
  <2>1. B \in SUBSET Nat
    OBVIOUS
  <2>. HIDE DEF B
  <2>. QED  BY <1>1, <2>1, LeastExists
<1>3. m # i
  BY <1>0, <1>2
<1>4. m \in 1..n /\ m - 1 \in 0..n /\ i <= m - 1 /\ m - 1 \notin B
  BY <1>2, <1>3
<1>5. Grown(m - 1)
  BY <1>4
<1>6. /\ H[m].seq[d] \in {H[m - 1].seq[d], H[m - 1].seq[d] + 1}
      /\ H[m - 1].cooldown[d] <= H[m].cooldown[d]
  BY <1>4, HistoryStep
<1>7. Grown(m)
  BY <1>0, <1>4, <1>5, <1>6
<1>. QED  BY <1>2, <1>7

Apart(C) ==
  /\ \A c, e \in C : c.device = e.device /\ c.seq = e.seq => c = e
  /\ \A c, e \in C : c.device = e.device /\ c.seq < e.seq => e.at >= Later(c.effective, 1)
  /\ \A c \in C : c.seq > 1 => \E b \in C : b.device = c.device /\ b.seq = c.seq - 1

\* The commands of a history: numbered without a gap in the order of their
\* decisions, and one cools down before the next.
LEMMA HistoryApart ==
  ASSUME NEW sc, IsScenario(sc), NEW n \in Nat, n * Hour <= LastTick, NEW H, IsHistory(H, sc, n)
  PROVE  Apart(CommandsIn(H, sc, n))
<1>. DEFINE C == CommandsIn(H, sc, n)
<1>0. \A k \in 0..n, d \in Devices : H[k].seq[d] \in Nat /\ H[k].cooldown[d] \in Nat
  BY HistoryTyped DEF TypedBooks
<1>1. \A c \in C : \E k \in 1..n : c \in Core(H, sc, k).out
  BY DEF CommandsIn
<1>2. ASSUME NEW i \in 1..n, NEW j \in 1..n, i < j,
             NEW c \in Core(H, sc, i).out, NEW e \in Core(H, sc, j).out, c.device = e.device
      PROVE  c.seq < e.seq /\ e.at >= Later(c.effective, 1)
  <2>. DEFINE d == c.device
  <2>1. d \in Devices /\ c.seq = H[i].seq[d] /\ H[i].cooldown[d] = Later(c.effective, 1)
    BY HistoryStep
  <2>2. /\ e.seq = H[j - 1].seq[d] + 1 /\ H[j - 1].cooldown[d] <= e.at /\ e.at = j * Hour
    BY <1>2, HistoryStep
  <2>3. i \in 0..n /\ j - 1 \in 0..n /\ i <= j - 1
    BY <1>2
  <2>4. H[i].seq[d] <= H[j - 1].seq[d] /\ H[i].cooldown[d] <= H[j - 1].cooldown[d]
    BY <2>1, <2>3, HistoryGrows
  <2>. HIDE DEF d
  <2>5. H[i].seq[d] \in Nat /\ H[j - 1].seq[d] \in Nat /\ H[i].cooldown[d] \in Nat
        /\ H[j - 1].cooldown[d] \in Nat /\ e.at \in Int
    BY <1>0, <2>1, <2>2, <2>3 DEF Hour
  <2>. QED  BY <2>1, <2>2, <2>4, <2>5
<1>3. ASSUME NEW c \in C
      PROVE  c.seq \in Nat
  <2>1. PICK i \in 1..n : c \in Core(H, sc, i).out
    BY <1>1
  <2>2. c.device \in Devices /\ c.seq = H[i].seq[c.device]
    BY <2>1, HistoryStep
  <2>. QED  BY <2>2, <1>0
<1>4. ASSUME NEW c \in C, NEW e \in C, c.device = e.device
      PROVE  /\ c.seq = e.seq => c = e
             /\ c.seq < e.seq => e.at >= Later(c.effective, 1)
  <2>1. PICK i \in 1..n : c \in Core(H, sc, i).out
    BY <1>1
  <2>2. PICK j \in 1..n : e \in Core(H, sc, j).out
    BY <1>1
  <2>3. CASE i = j
    <3>1. c = e
      BY <2>1, <2>2, <2>3, <1>4, HistoryStep
    <3>. QED  BY <3>1, <1>3
  <2>4. CASE i < j
    <3>1. c.seq < e.seq /\ e.at >= Later(c.effective, 1)
      BY <2>1, <2>2, <2>4, <1>2, <1>4
    <3>. QED  BY <3>1, <1>3
  <2>5. CASE j < i
    <3>1. e.seq < c.seq
      BY <2>1, <2>2, <2>5, <1>2, <1>4
    <3>. QED  BY <3>1, <1>3
  <2>. QED  BY <2>3, <2>4, <2>5
<1>5. ASSUME NEW c \in C, c.seq > 1
      PROVE  \E b \in C : b.device = c.device /\ b.seq = c.seq - 1
  <2>1. PICK i \in 1..n : c \in Core(H, sc, i).out
    BY <1>1
  <2>. DEFINE d == c.device
              s == c.seq - 1
              B == {k \in 0..n : H[k].seq[d] >= s}
  <2>2. d \in Devices /\ c.seq = H[i - 1].seq[d] + 1 /\ i - 1 \in 0..n
    BY <2>1, HistoryStep
  <2>. HIDE DEF d
  <2>3. i - 1 \in B /\ s \in Nat /\ s >= 1 /\ H[i - 1].seq[d] = s
    BY <2>2, <1>0, <1>3, <1>5
  <2>4. PICK m \in B : \A x \in B : m <= x
    <3>1. B \in SUBSET Nat
      OBVIOUS
    <3>. HIDE DEF B
    <3>. QED  BY <2>3, <3>1, LeastExists
  <2>5. H[0].seq[d] = 0
    <3>1. EmptyBooks.seq = [x \in Devices |-> 0]
      BY DEF EmptyBooks
    <3>. QED  BY <3>1, <2>2 DEF IsHistory
  <2>6. m # 0
    BY <2>3, <2>4, <2>5
  <2>7. m \in 1..n /\ m - 1 \in 0..n /\ m - 1 \notin B
    BY <2>4, <2>6
  <2>8. H[m].seq[d] \in Nat /\ H[m - 1].seq[d] \in Nat /\ H[m].seq[d] >= s /\ ~(H[m - 1].seq[d] >= s)
    BY <2>2, <2>4, <2>7, <1>0
  <2>9. H[m].seq[d] \in {H[m - 1].seq[d], H[m - 1].seq[d] + 1}
    BY <2>2, <2>7, HistoryStep
  <2>10. H[m].seq[d] = s /\ H[m].seq[d] # H[m - 1].seq[d]
    BY <2>3, <2>8, <2>9
  <2>11. PICK b \in Core(H, sc, m).out : b.device = d
    BY <2>2, <2>7, <2>10, HistoryStep
  <2>12. b.seq = H[m].seq[d] /\ b \in C
    BY <2>7, <2>11, HistoryStep DEF CommandsIn
  <2>. QED  BY <2>10, <2>11, <2>12 DEF d
<1>. HIDE DEF C
<1>6. Apart(C)
  BY <1>4, <1>5 DEF Apart
<1>. QED  BY <1>6 DEF C


--------------------------------------------------------------------------------
(* The assembler: which fields each element touches. *)

IsAsm(as) ==
  /\ DOMAIN as = {"inp", "books", "seen"}
  /\ DOMAIN as.inp = {"timing", "hours", "perf", "days", "evaluable", "bursts", "refs", "freeze"}

IsRow(row) ==
  /\ DOMAIN row = {"rounds", "admitted", "guard", "outliers", "ctx", "n", "sum"}
  /\ row.rounds \in Nat

\* Everything but the hours, and everything but the performance items.
OtherInputs(as, b) ==
  /\ IsAsm(b) /\ b.books = as.books /\ b.inp.timing = as.inp.timing
  /\ b.inp.days = as.inp.days /\ b.inp.evaluable = as.inp.evaluable

\* Hours go on.
LEMMA NextNat == \A m \in Nat : m + 1 \in Nat
OBVIOUS

\* One more round in the row o of its hour.
RoundTaken(as, r, o, b) ==
  /\ OtherInputs(as, b) /\ b.inp.perf = as.inp.perf
  /\ \E row : /\ b.inp.hours = Put(as.inp.hours, <<r.device, WindowOf(r.ts)>>, row)
              /\ IsRow(row) /\ row.rounds = o.rounds + 1

\* What a round changes in the assembler.
LEMMA RoundFields ==
  ASSUME NEW as, IsAsm(as), NEW r, NEW b, b = AcceptRound(as, r),
         NEW o, o = Obs(as, r.device, WindowOf(r.ts)), IsRow(o)
  PROVE  RoundTaken(as, r, o, b)
<1>0. o.rounds \in Nat
  BY Zenon DEF IsRow
<1>0a. o.rounds + 1 \in Nat
  BY <1>0, NextNat, Zenon
<1>. DEFINE row == RoundRow(o, r)
            first == r.refs /\ r.device \notin DOMAIN as.inp.freeze
            P == Put(as.inp.hours, <<r.device, WindowOf(r.ts)>>, row)
            F == IF first THEN Put(as.inp.freeze, r.device, r.ts) ELSE as.inp.freeze
            R == IF first THEN [x \in DOMAIN as.inp.refs \cup ({r.device} \X Active) |->
                                  IF x \in DOMAIN as.inp.refs THEN as.inp.refs[x] ELSE RefWidth]
                 ELSE as.inp.refs
            I == [as.inp EXCEPT !.hours = P, !.freeze = F, !.refs = R]
<1>1. IsRow(row) /\ row.rounds = o.rounds + 1
  <2>. DEFINE A == o.admitted + One(r.admitted)
              G == o.guard + One(r.guard)
              N == [ch \in Active |-> o.n[ch] + One(r.tv[ch] # NaN)]
              S == [ch \in Active |-> o.sum[ch] + (IF r.tv[ch] # NaN THEN r.tv[ch] ELSE 0)]
              C == o.rounds + 1
  <2>1. row = [o EXCEPT !.rounds = C, !.admitted = A, !.guard = G, !.n = N, !.sum = S]
    BY DEF RoundRow, One
  <2>2. C \in Nat
    BY <1>0a, Zenon
  <2>. HIDE DEF A, G, N, S, C, row
  <2>3. IsRow(row) /\ row.rounds = C
    BY <2>1, <2>2 DEF IsRow
  <2>. QED  BY <2>3 DEF C
<1>2. b = [as EXCEPT !.inp = I]
  BY Zenon DEF AcceptRound
<1>. HIDE DEF row, F, R
<1>3. /\ DOMAIN I = DOMAIN as.inp /\ I.timing = as.inp.timing /\ I.perf = as.inp.perf
      /\ I.days = as.inp.days /\ I.evaluable = as.inp.evaluable /\ I.hours = P
  <2>. HIDE DEF P
  <2>. QED  BY DEF IsAsm
<1>. HIDE DEF I
<1>4. DOMAIN b = DOMAIN as /\ b.inp = I /\ b.books = as.books
  BY <1>2 DEF IsAsm
<1>5. OtherInputs(as, b) /\ b.inp.perf = as.inp.perf /\ b.inp.hours = P
  BY <1>3, <1>4 DEF OtherInputs, IsAsm
<1>. QED
  BY <1>1, <1>5 DEF RoundTaken

\* An outlier counts in the row o, or has been counted.
OutlierTaken(as, x, o, b) ==
  /\ OtherInputs(as, b) /\ b.inp.perf = as.inp.perf
  /\ \/ b.inp.hours = as.inp.hours
     \/ \E row : /\ b.inp.hours = Put(as.inp.hours, <<x.device, WindowOf(x.ts)>>, row)
                 /\ IsRow(row) /\ row.rounds = o.rounds

\* What an outlier changes in the assembler.
LEMMA OutlierFields ==
  ASSUME NEW as, IsAsm(as), NEW x, NEW b, b = AcceptOutlier(as, x),
         NEW o, o = Obs(as, x.device, WindowOf(x.ts)), IsRow(o)
  PROVE  OutlierTaken(as, x, o, b)
<1>1. CASE <<x.device, x.ts>> \in as.seen
  <2>1. b = as
    BY <1>1, Zenon DEF AcceptOutlier
  <2>2. OtherInputs(as, b) /\ b.inp.perf = as.inp.perf /\ b.inp.hours = as.inp.hours
    BY <2>1 DEF OtherInputs
  <2>. QED  BY <2>2 DEF OutlierTaken
<1>2. CASE <<x.device, x.ts>> \notin as.seen
  <2>. DEFINE q == o.outliers + 1
              row == [o EXCEPT !.outliers = q]
              P == Put(as.inp.hours, <<x.device, WindowOf(x.ts)>>, row)
              S == as.seen \cup {<<x.device, x.ts>>}
              I == [as.inp EXCEPT !.hours = P]
  <2>1. IsRow(row) /\ row.rounds = o.rounds
    <3>. HIDE DEF q
    <3>. QED  BY DEF IsRow
  <2>2. b = [as EXCEPT !.seen = S, !.inp = I]
    BY <1>2, Zenon DEF AcceptOutlier
  <2>. HIDE DEF row, S
  <2>3. /\ DOMAIN I = DOMAIN as.inp /\ I.timing = as.inp.timing /\ I.perf = as.inp.perf
        /\ I.days = as.inp.days /\ I.evaluable = as.inp.evaluable /\ I.hours = P
    <3>. HIDE DEF P
    <3>. QED  BY DEF IsAsm
  <2>. HIDE DEF I
  <2>4. DOMAIN b = DOMAIN as /\ b.inp = I /\ b.books = as.books
    BY <2>2 DEF IsAsm
  <2>5. OtherInputs(as, b) /\ b.inp.perf = as.inp.perf /\ b.inp.hours = P
    BY <2>3, <2>4 DEF OtherInputs, IsAsm
  <2>. QED  BY <2>1, <2>5 DEF OutlierTaken
<1>. QED
  BY <1>1, <1>2

\* A context window counts in the row o, and is an item.
ContextTaken(as, x, o, b) ==
  /\ OtherInputs(as, b)
  /\ b.inp.perf = [as.inp.perf EXCEPT ![x.device] =
       @ \cup {[ts |-> x.ts, rank |-> 1, level |-> "ELEMENT", value |-> x.value]}]
  /\ \E row : /\ b.inp.hours = Put(as.inp.hours, <<x.device, ContextWindow(x.ts)>>, row)
              /\ IsRow(row) /\ row.rounds = o.rounds

\* What a context score changes in the assembler.
LEMMA ContextFields ==
  ASSUME NEW as, IsAsm(as), NEW x, NEW b, b = AcceptContext(as, x),
         NEW o, o = Obs(as, x.device, ContextWindow(x.ts)), IsRow(o)
  PROVE  ContextTaken(as, x, o, b)
<1>. DEFINE q == o.ctx + One(x.above)
            row == [o EXCEPT !.ctx = q]
            P == Put(as.inp.hours, <<x.device, ContextWindow(x.ts)>>, row)
            E == [as.inp.perf EXCEPT ![x.device] =
                    @ \cup {[ts |-> x.ts, rank |-> 1, level |-> "ELEMENT", value |-> x.value]}]
            I == [as.inp EXCEPT !.hours = P, !.perf = E]
<1>1. IsRow(row) /\ row.rounds = o.rounds
  <2>. HIDE DEF q
  <2>. QED  BY DEF IsRow
<1>2. b = [as EXCEPT !.inp = I]
  <2>1. b = [as EXCEPT !.inp = [as.inp EXCEPT !.hours = P,
               !.perf[x.device] =
                 @ \cup {[ts |-> x.ts, rank |-> 1, level |-> "ELEMENT", value |-> x.value]}]]
    BY Zenon DEF AcceptContext
  <2>2. [as.inp EXCEPT !.hours = P,
           !.perf[x.device] =
             @ \cup {[ts |-> x.ts, rank |-> 1, level |-> "ELEMENT", value |-> x.value]}] = I
    <3>. HIDE DEF P
    <3>. QED  BY DEF IsAsm
  <2>. HIDE DEF I
  <2>. QED  BY <2>1, <2>2
<1>. HIDE DEF row
<1>3. /\ DOMAIN I = DOMAIN as.inp /\ I.timing = as.inp.timing /\ I.perf = E
      /\ I.days = as.inp.days /\ I.evaluable = as.inp.evaluable /\ I.hours = P
  <2>. HIDE DEF P, E
  <2>. QED  BY DEF IsAsm
<1>. HIDE DEF I
<1>4. DOMAIN b = DOMAIN as /\ b.inp = I /\ b.books = as.books
  BY <1>2 DEF IsAsm
<1>5. OtherInputs(as, b) /\ b.inp.perf = E /\ b.inp.hours = P
  BY <1>3, <1>4 DEF OtherInputs, IsAsm
<1>. QED
  BY <1>1, <1>5 DEF ContextTaken

\* A performance event is an item.
PerfTaken(as, x, b) ==
  /\ OtherInputs(as, b) /\ b.inp.hours = as.inp.hours
  /\ b.inp.perf = [as.inp.perf EXCEPT ![x.device] =
       @ \cup {[ts |-> x.ts, rank |-> 0, level |-> x.level, value |-> x.value]}]

\* What a performance event changes in the assembler.
LEMMA PerfFields ==
  ASSUME NEW as, IsAsm(as), NEW x, NEW b, b = AcceptPerf(as, x)
  PROVE  PerfTaken(as, x, b)
<1>. DEFINE E == [as.inp.perf EXCEPT ![x.device] =
                    @ \cup {[ts |-> x.ts, rank |-> 0, level |-> x.level, value |-> x.value]}]
            I == [as.inp EXCEPT !.perf = E]
<1>1. b = [as EXCEPT !.inp = I]
  <2>1. b = [as EXCEPT !.inp = [as.inp EXCEPT !.perf[x.device] =
               @ \cup {[ts |-> x.ts, rank |-> 0, level |-> x.level, value |-> x.value]}]]
    BY Zenon DEF AcceptPerf
  <2>2. [as.inp EXCEPT !.perf[x.device] =
           @ \cup {[ts |-> x.ts, rank |-> 0, level |-> x.level, value |-> x.value]}] = I
    BY DEF IsAsm
  <2>. HIDE DEF I
  <2>. QED  BY <2>1, <2>2
<1>2. /\ DOMAIN I = DOMAIN as.inp /\ I.timing = as.inp.timing /\ I.perf = E
      /\ I.days = as.inp.days /\ I.evaluable = as.inp.evaluable /\ I.hours = as.inp.hours
  <2>. HIDE DEF E
  <2>. QED  BY DEF IsAsm
<1>. HIDE DEF I
<1>3. DOMAIN b = DOMAIN as /\ b.inp = I /\ b.books = as.books
  BY <1>1 DEF IsAsm
<1>. QED
  BY <1>2, <1>3 DEF OtherInputs, IsAsm, PerfTaken

\* What data elements leave alone.
OtherThanDays(as, b) ==
  /\ IsAsm(b) /\ b.books = as.books /\ b.inp.timing = as.inp.timing
  /\ b.inp.hours = as.inp.hours /\ b.inp.perf = as.inp.perf

\* A new state s of a day.
DayTaken(as, key, s, b) ==
  /\ OtherThanDays(as, b)
  /\ b.inp.days = Put(as.inp.days, key, s)
  /\ b.inp.evaluable = Put(as.inp.evaluable, <<key[1], key[2]>>, s.evaluable)

\* What a day's record changes in the assembler.
LEMMA DayFields ==
  ASSUME NEW as, IsAsm(as), NEW key, NEW s, NEW b, b = AddDataDay(as, key, s)
  PROVE  DayTaken(as, key, s, b)
<1>. DEFINE D == Put(as.inp.days, key, s)
            V == Put(as.inp.evaluable, <<key[1], key[2]>>, s.evaluable)
            I == [as.inp EXCEPT !.days = D, !.evaluable = V]
<1>1. b = [as EXCEPT !.inp = I]
  BY Zenon DEF AddDataDay
<1>2. /\ DOMAIN I = DOMAIN as.inp /\ I.timing = as.inp.timing /\ I.perf = as.inp.perf
      /\ I.days = D /\ I.evaluable = V /\ I.hours = as.inp.hours
  <2>. HIDE DEF D, V
  <2>. QED  BY DEF IsAsm
<1>. HIDE DEF I
<1>3. DOMAIN b = DOMAIN as /\ b.inp = I /\ b.books = as.books
  BY <1>1 DEF IsAsm
<1>. QED
  BY <1>2, <1>3 DEF OtherThanDays, IsAsm, DayTaken

\* A burst changes nothing that commands depend on.
BurstTaken(as, b) ==
  /\ OtherThanDays(as, b)
  /\ b.inp.days = as.inp.days /\ b.inp.evaluable = as.inp.evaluable

\* A burst changes no day's record and no mark of evaluability.
LEMMA BurstFields ==
  ASSUME NEW as, IsAsm(as), NEW x, x.kind = "BURST", NEW b, b = AcceptEvent(as, x)
  PROVE  BurstTaken(as, b)
<1>. DEFINE U == [as.inp.bursts EXCEPT ![x.device] = @ \cup {[ts |-> x.ts, emitted |-> x.at]}]
            I == [as.inp EXCEPT !.bursts = U]
<1>1. b = [as EXCEPT !.inp = I]
  <2>1. b = [as EXCEPT !.inp = [as.inp EXCEPT
               !.bursts[x.device] = @ \cup {[ts |-> x.ts, emitted |-> x.at]}]]
    BY Zenon DEF AcceptEvent
  <2>2. [as.inp EXCEPT !.bursts[x.device] = @ \cup {[ts |-> x.ts, emitted |-> x.at]}] = I
    BY DEF IsAsm
  <2>. HIDE DEF I
  <2>. QED  BY <2>1, <2>2
<1>2. /\ DOMAIN I = DOMAIN as.inp /\ I.timing = as.inp.timing /\ I.perf = as.inp.perf
      /\ I.days = as.inp.days /\ I.evaluable = as.inp.evaluable /\ I.hours = as.inp.hours
  <2>. HIDE DEF U
  <2>. QED  BY DEF IsAsm
<1>. HIDE DEF I
<1>3. DOMAIN b = DOMAIN as /\ b.inp = I /\ b.books = as.books
  BY <1>1 DEF IsAsm
<1>. QED
  BY <1>2, <1>3 DEF OtherThanDays, IsAsm, BurstTaken

--------------------------------------------------------------------------------
(* What the streams hold. *)

Lanes == {"rounds", "outliers", "contexts", "perf", "dataEvents", "records"}

\* The record of one channel of a day.
Record(sc, key) ==
  [at |-> DayStart(key[2] + 1), device |-> key[1], day |-> key[2], ch |-> key[3],
   evaluable |-> sc.verdicts[key[1]][key[2]].evaluable, deviated |-> Verdict(sc, key)]

RecordKey(r) == <<r.device, r.day, r.ch>>

PerfItem(e) == [ts |-> e.ts, rank |-> 0, level |-> e.level, value |-> e.value]
ScoreItem(s) == [ts |-> s.ts, rank |-> 1, level |-> "ELEMENT", value |-> s.value]

\* The items that performance events P and context windows C make for a device.
Items(P, C, d) ==
  {PerfItem(e) : e \in {x \in P : x.device = d}} \cup {ScoreItem(s) : s \in {x \in C : x.device = d}}

\* The streams of a scenario, lane by lane.
LEMMA StreamLanes ==
  ASSUME NEW sc
  PROVE  /\ DOMAIN Streams(sc) = Lanes
         /\ Streams(sc).rounds
              = {[at |-> r.ts, device |-> r.device, ts |-> r.ts, guard |-> r.guard,
                  admitted |-> r.admitted, tv |-> r.tv, refs |-> r.refs] : r \in sc.rounds}
         /\ Streams(sc).contexts
              = {[at |-> s.ts, device |-> s.device, ts |-> s.ts, value |-> s.value,
                  above |-> s.above] : s \in sc.scores}
         /\ Streams(sc).perf
              = {[at |-> e.ts, device |-> e.device, ts |-> e.ts, level |-> e.level,
                  value |-> e.value] : e \in sc.perf}
         /\ Streams(sc).dataEvents
              = {[at |-> b.emitted, kind |-> "BURST", device |-> b.device, ts |-> b.ts] : b \in sc.bursts}
                  \cup UNION {DayEvents(sc, x[1], x[2]) : x \in Devices \X Channels}
         /\ Streams(sc).records = UNION {DayRecords(sc, x[1], x[2]) : x \in Devices \X Channels}
<1>. DEFINE R == {[at |-> r.ts, device |-> r.device, ts |-> r.ts, guard |-> r.guard,
                   admitted |-> r.admitted, tv |-> r.tv, refs |-> r.refs] : r \in sc.rounds}
            O == {[at |-> o.we, device |-> o.device, ts |-> o.ts] :
                    o \in {x \in sc.outliers : x.we - Slide <= x.ts /\ x.ts < x.we}}
            C == {[at |-> s.ts, device |-> s.device, ts |-> s.ts, value |-> s.value,
                   above |-> s.above] : s \in sc.scores}
            P == {[at |-> e.ts, device |-> e.device, ts |-> e.ts, level |-> e.level,
                   value |-> e.value] : e \in sc.perf}
            V == {[at |-> b.emitted, kind |-> "BURST", device |-> b.device, ts |-> b.ts] : b \in sc.bursts}
                   \cup UNION {DayEvents(sc, x[1], x[2]) : x \in Devices \X Channels}
            D == UNION {DayRecords(sc, x[1], x[2]) : x \in Devices \X Channels}
            T == Streams(sc)
<1>1. T = [rounds |-> R, outliers |-> O, contexts |-> C, perf |-> P, dataEvents |-> V, records |-> D]
  BY Zenon DEF Streams, PerChannel
<1>. HIDE DEF R, O, C, P, V, D, T
<1>2. /\ DOMAIN T = Lanes /\ T.rounds = R /\ T.contexts = C /\ T.perf = P
      /\ T.dataEvents = V /\ T.records = D
  BY <1>1 DEF Lanes
<1>. QED
  BY <1>2, Zenon DEF R, O, C, P, V, D, T

\* A device has an hour's row exactly when one of its rounds falls in that hour.
LEMMA RoundElements ==
  ASSUME NEW sc, IsScenario(sc)
  PROVE  /\ \A e \in Streams(sc).rounds : e.device \in Devices /\ e.at = e.ts /\ e.ts \in Nat
         /\ \A d \in Devices : \A hs :
              d \in RowsAt(sc, hs) <=> \E e \in Streams(sc).rounds : e.device = d /\ WindowOf(e.ts) = hs
<1>. DEFINE el(r) == [at |-> r.ts, device |-> r.device, ts |-> r.ts, guard |-> r.guard,
                      admitted |-> r.admitted, tv |-> r.tv, refs |-> r.refs]
            R == Streams(sc).rounds
<1>1. R = {el(r) : r \in sc.rounds}
  BY StreamLanes
<1>. HIDE DEF R
<1>2. \A r : el(r).at = r.ts /\ el(r).ts = r.ts /\ el(r).device = r.device
  <2>1. ASSUME NEW at, NEW device, NEW guard, NEW admitted, NEW tv, NEW refs, NEW x,
               x = [at |-> at, device |-> device, ts |-> at, guard |-> guard,
                    admitted |-> admitted, tv |-> tv, refs |-> refs]
        PROVE  x.at = at /\ x.ts = at /\ x.device = device
    BY <2>1
  <2>. QED  BY <2>1, Zenon
<1>. HIDE DEF el
<1>3. \A r \in sc.rounds : r.device \in Devices /\ r.ts \in Nat
  BY DEF IsScenario
<1>4. \A e \in R : e.device \in Devices /\ e.at = e.ts /\ e.ts \in Nat
  BY <1>1, <1>2, <1>3
<1>5. \A d \in Devices : \A hs :
        d \in RowsAt(sc, hs) <=> \E e \in R : e.device = d /\ WindowOf(e.ts) = hs
  <2>. TAKE d \in Devices
  <2>. TAKE hs
  <2>1. ASSUME NEW r \in sc.rounds, r.device = d, WindowOf(r.ts) = hs
        PROVE  \E e \in R : e.device = d /\ WindowOf(e.ts) = hs
    <3>1. el(r) \in R
      BY <1>1
    <3>2. el(r).device = d /\ WindowOf(el(r).ts) = hs
      BY <1>2, <2>1, Zenon
    <3>. QED  BY <3>1, <3>2, Zenon
  <2>2. ASSUME NEW e \in R, e.device = d, WindowOf(e.ts) = hs
        PROVE  \E r \in sc.rounds : r.device = d /\ WindowOf(r.ts) = hs
    <3>1. PICK r \in sc.rounds : e = el(r)
      BY <1>1, Zenon
    <3>2. r.device = d /\ WindowOf(r.ts) = hs
      BY <1>2, <2>2, <3>1, Zenon
    <3>. QED  BY <3>2
  <2>. QED  BY <2>1, <2>2, Zenon DEF RowsAt
<1>. QED  BY <1>4, <1>5 DEF R

\* Performance events and context scores together are the offline script's items.
LEMMA PerfElements ==
  ASSUME NEW sc, IsScenario(sc)
  PROVE  /\ \A e \in Streams(sc).perf : e.device \in Devices /\ e.at = e.ts /\ e.ts \in Nat
         /\ \A e \in Streams(sc).contexts : e.device \in Devices /\ e.at = e.ts /\ e.ts \in Nat
         /\ \A d \in Devices : Items(Streams(sc).perf, Streams(sc).contexts, d) = PerfItems(sc, d)
<1>. DEFINE pe(e) == [at |-> e.ts, device |-> e.device, ts |-> e.ts, level |-> e.level, value |-> e.value]
            ce(s) == [at |-> s.ts, device |-> s.device, ts |-> s.ts, value |-> s.value, above |-> s.above]
            P == Streams(sc).perf
            C == Streams(sc).contexts
<1>1. P = {pe(e) : e \in sc.perf} /\ C = {ce(s) : s \in sc.scores}
  BY StreamLanes
<1>. HIDE DEF P, C
<1>2. \A e : /\ pe(e).at = e.ts /\ pe(e).ts = e.ts /\ pe(e).device = e.device
             /\ pe(e).level = e.level /\ pe(e).value = e.value
  OBVIOUS
<1>3. \A s : ce(s).at = s.ts /\ ce(s).ts = s.ts /\ ce(s).device = s.device /\ ce(s).value = s.value
  <2>1. ASSUME NEW ts, NEW device, NEW value, NEW above, NEW x,
               x = [at |-> ts, device |-> device, ts |-> ts, value |-> value, above |-> above]
        PROVE  x.at = ts /\ x.ts = ts /\ x.device = device /\ x.value = value
    BY <2>1
  <2>. QED  BY <2>1, Zenon
<1>. HIDE DEF pe, ce
<1>4. /\ \A e \in sc.perf : e.device \in Devices /\ e.ts \in Nat
      /\ \A s \in sc.scores : s.device \in Devices /\ s.ts \in Nat
  BY DEF IsScenario
<1>5. /\ \A e \in P : e.device \in Devices /\ e.at = e.ts /\ e.ts \in Nat
      /\ \A e \in C : e.device \in Devices /\ e.at = e.ts /\ e.ts \in Nat
  <2>1. ASSUME NEW e \in P  PROVE e.device \in Devices /\ e.at = e.ts /\ e.ts \in Nat
    <3>1. PICK x \in sc.perf : e = pe(x)
      BY <1>1, Zenon
    <3>. QED  BY <3>1, <1>2, <1>4
  <2>2. ASSUME NEW e \in C  PROVE e.device \in Devices /\ e.at = e.ts /\ e.ts \in Nat
    <3>1. PICK x \in sc.scores : e = ce(x)
      BY <1>1, Zenon
    <3>. QED  BY <3>1, <1>3, <1>4
  <2>. QED  BY <2>1, <2>2
<1>6. \A e : PerfItem(pe(e)) = PerfItem(e)
  BY <1>2, Zenon DEF PerfItem
<1>7. \A s : ScoreItem(ce(s)) = ScoreItem(s)
  BY <1>3, Zenon DEF ScoreItem
<1>8. ASSUME NEW d \in Devices
      PROVE  Items(P, C, d) = PerfItems(sc, d)
  <2>1. {PerfItem(e) : e \in {x \in P : x.device = d}}
          = {PerfItem(e) : e \in {x \in sc.perf : x.device = d}}
    <3>1. \A i : (\E e \in {x \in P : x.device = d} : i = PerfItem(e))
                   <=> \E e \in {x \in sc.perf : x.device = d} : i = PerfItem(e)
      <4>1. ASSUME NEW e \in P, e.device = d
            PROVE  \E x \in {y \in sc.perf : y.device = d} : PerfItem(e) = PerfItem(x)
        <5>1. PICK x \in sc.perf : e = pe(x)
          BY <1>1, Zenon
        <5>. QED  BY <5>1, <4>1, <1>2, <1>6, Zenon
      <4>2. ASSUME NEW x \in sc.perf, x.device = d
            PROVE  \E e \in {y \in P : y.device = d} : PerfItem(x) = PerfItem(e)
        <5>1. pe(x) \in P /\ pe(x).device = d
          BY <1>1, <1>2, <4>2
        <5>. QED  BY <5>1, <1>6, Zenon
      <4>. QED  BY <4>1, <4>2, Zenon
    <3>. QED  BY <3>1, Zenon
  <2>2. {ScoreItem(s) : s \in {x \in C : x.device = d}}
          = {ScoreItem(s) : s \in {x \in sc.scores : x.device = d}}
    <3>1. \A i : (\E e \in {x \in C : x.device = d} : i = ScoreItem(e))
                   <=> \E e \in {x \in sc.scores : x.device = d} : i = ScoreItem(e)
      <4>1. ASSUME NEW e \in C, e.device = d
            PROVE  \E x \in {y \in sc.scores : y.device = d} : ScoreItem(e) = ScoreItem(x)
        <5>1. PICK x \in sc.scores : e = ce(x)
          BY <1>1, Zenon
        <5>. QED  BY <5>1, <4>1, <1>3, <1>7, Zenon
      <4>2. ASSUME NEW x \in sc.scores, x.device = d
            PROVE  \E e \in {y \in C : y.device = d} : ScoreItem(x) = ScoreItem(e)
        <5>1. ce(x) \in C /\ ce(x).device = d
          BY <1>1, <1>3, <4>2
        <5>. QED  BY <5>1, <1>7, Zenon
      <4>. QED  BY <4>1, <4>2, Zenon
    <3>. QED  BY <3>1, Zenon
  <2>3. PerfItems(sc, d) = {PerfItem(e) : e \in {x \in sc.perf : x.device = d}}
                             \cup {ScoreItem(s) : s \in {x \in sc.scores : x.device = d}}
    BY Zenon DEF PerfItems, PerfItem, ScoreItem
  <2>. QED  BY <2>1, <2>2, <2>3, Zenon DEF Items
<1>. QED  BY <1>5, <1>8 DEF P, C

\* The day stream in terms of the keys of days.
LEMMA DayElements ==
  ASSUME NEW sc, IsScenario(sc)
  PROVE  /\ Streams(sc).records = {Record(sc, key) : key \in DayKeys(sc)}
         /\ \A e \in Streams(sc).dataEvents :
              e.kind # "BURST" => <<e.device, e.day, e.ch>> \in DayKeys(sc)
<1>. DEFINE D == Streams(sc).records
            V == Streams(sc).dataEvents
<1>1. D = UNION {DayRecords(sc, x[1], x[2]) : x \in Devices \X Channels}
  BY StreamLanes
<1>2. V = {[at |-> b.emitted, kind |-> "BURST", device |-> b.device, ts |-> b.ts] : b \in sc.bursts}
            \cup UNION {DayEvents(sc, x[1], x[2]) : x \in Devices \X Channels}
  BY StreamLanes
<1>3. \A key : key \in DayKeys(sc)
        <=> \E d \in Devices, ch \in Channels : \E day \in DOMAIN sc.verdicts[d] : key = <<d, day, ch>>
  <2>1. \A d \in Devices : DOMAIN sc.verdicts[d] \subseteq 1..LastDay
    BY DEF IsScenario
  <2>. QED  BY <2>1 DEF DayKeys
<1>. HIDE DEF D, V
<1>4. ASSUME NEW d, NEW ch
      PROVE  DayRecords(sc, d, ch) = {Record(sc, <<d, day, ch>>) : day \in DOMAIN sc.verdicts[d]}
  <2>1. \A day : Record(sc, <<d, day, ch>>)
          = [at |-> DayStart(day + 1), device |-> d, day |-> day, ch |-> ch,
             evaluable |-> sc.verdicts[d][day].evaluable,
             deviated |-> EndState(sc.verdicts[d], ch, LastDay)[day]]
    <3>1. \A day : <<d, day, ch>>[1] = d /\ <<d, day, ch>>[2] = day /\ <<d, day, ch>>[3] = ch
      OBVIOUS
    <3>. QED  BY <3>1, Zenon DEF Record, Verdict
  <2>. QED  BY <2>1, Zenon DEF DayRecords
<1>5. \A r : r \in D <=> \E d \in Devices, ch \in Channels : \E day \in DOMAIN sc.verdicts[d] :
                           r = Record(sc, <<d, day, ch>>)
  <2>1. \A r : r \in D <=> \E x \in Devices \X Channels : r \in DayRecords(sc, x[1], x[2])
    BY <1>1, Zenon
  <2>2. /\ \A x \in Devices \X Channels : x[1] \in Devices /\ x[2] \in Channels
        /\ \A d \in Devices, ch \in Channels : /\ <<d, ch>> \in Devices \X Channels
                                               /\ <<d, ch>>[1] = d /\ <<d, ch>>[2] = ch
    OBVIOUS
  <2>3. ASSUME NEW r \in D
        PROVE  \E d \in Devices, ch \in Channels : \E day \in DOMAIN sc.verdicts[d] :
                 r = Record(sc, <<d, day, ch>>)
    <3>1. PICK x \in Devices \X Channels : r \in DayRecords(sc, x[1], x[2])
      BY <2>1
    <3>2. r \in {Record(sc, <<x[1], day, x[2]>>) : day \in DOMAIN sc.verdicts[x[1]]}
      BY <3>1, <1>4, Zenon
    <3>. DEFINE d == x[1]
                ch == x[2]
    <3>3. d \in Devices /\ ch \in Channels
      BY <2>2, Zenon
    <3>4. r \in {Record(sc, <<d, day, ch>>) : day \in DOMAIN sc.verdicts[d]}
      BY <3>2, Zenon
    <3>. HIDE DEF d, ch
    <3>. QED  BY <3>3, <3>4, Zenon
  <2>4. ASSUME NEW d \in Devices, NEW ch \in Channels, NEW day \in DOMAIN sc.verdicts[d]
        PROVE  Record(sc, <<d, day, ch>>) \in D
    <3>1. Record(sc, <<d, day, ch>>) \in DayRecords(sc, d, ch)
      BY <1>4, Zenon
    <3>. DEFINE x == <<d, ch>>
                r == Record(sc, <<d, day, ch>>)
    <3>2. x \in Devices \X Channels /\ x[1] = d /\ x[2] = ch
      BY <2>2, Zenon
    <3>. HIDE DEF x, r
    <3>3. r \in DayRecords(sc, x[1], x[2])
      BY <3>1, <3>2 DEF r
    <3>4. r \in D
      BY <2>1, <3>2, <3>3, Zenon
    <3>. QED  BY <3>4, Zenon DEF r
  <2>. QED  BY <2>3, <2>4, Zenon
<1>6. D = {Record(sc, key) : key \in DayKeys(sc)}
  BY <1>3, <1>5, ZenonT(40)
<1>7. ASSUME NEW e \in V, e.kind # "BURST"
      PROVE  <<e.device, e.day, e.ch>> \in DayKeys(sc)
  <2>1. e \notin {[at |-> b.emitted, kind |-> "BURST", device |-> b.device, ts |-> b.ts] : b \in sc.bursts}
    BY <1>7
  <2>2. e \in UNION {DayEvents(sc, x[1], x[2]) : x \in Devices \X Channels}
    BY <1>2, <1>7, <2>1, Zenon
  <2>3. PICK d \in Devices, ch \in Channels : e \in DayEvents(sc, d, ch)
    <3>1. \E x \in Devices \X Channels : e \in DayEvents(sc, x[1], x[2])
      BY <2>2, Zenon
    <3>. QED  BY <3>1
  <2>4. \E day \in DOMAIN sc.verdicts[d] : \E at, tr :
          e = [at |-> at, kind |-> "DAY", device |-> d, day |-> day, ch |-> ch, transition |-> tr]
    <3>. DEFINE st == EndState(sc.verdicts[d], ch, LastDay)
                T(day) == IF st[day] THEN "DEVIATE" ELSE "RECOVER"
    <3>1. \E day \in {x \in DOMAIN sc.verdicts[d] : st[x] # st[x - 1]} :
            e = [at |-> DayStart(day + 1), kind |-> "DAY", device |-> d, day |-> day, ch |-> ch,
                 transition |-> T(day)]
      BY <2>3, Zenon DEF DayEvents
    <3>. HIDE DEF st, T
    <3>. QED  BY <3>1, Zenon
  <2>5. e.device = d /\ e.ch = ch /\ e.day \in DOMAIN sc.verdicts[d]
    BY <2>4
  <2>. QED  BY <1>3, <2>5
<1>. QED  BY <1>6, <1>7 DEF D, V

--------------------------------------------------------------------------------
(* What an assembler knows: of the elements that have arrived, the same as  *)
(* the scenario says.                                                       *)

Arrived(sc, td, lane) == Streams(sc)[lane] \ td[lane]

HasReadings(hours, d, w) == <<d, w>> \in DOMAIN hours /\ hours[<<d, w>>].rounds > 0

\* The windows from p hours on have the rounds R.
HeardHours(hours, R, p) ==
  /\ \A x \in DOMAIN hours : IsRow(hours[x])
  /\ \A d \in Devices, w \in Int : w >= p * Hour =>
       (HasReadings(hours, d, w) <=> \E r \in R : r.device = d /\ WindowOf(r.ts) = w)

\* The days are those of the records R; a transition without its record leaves
\* a day half told, and the day as a whole is told by its last channel.
HeardDays(sc, days, evaluable, R) ==
  /\ DOMAIN days \subseteq DayKeys(sc)
  /\ \A key \in DOMAIN days : DOMAIN days[key] = {"evaluable", "deviated", "transition"}
  /\ \A r \in R : /\ RecordKey(r) \in DOMAIN days
                  /\ days[RecordKey(r)].evaluable = r.evaluable
                  /\ days[RecordKey(r)].deviated = r.deviated
  /\ DOMAIN evaluable \subseteq {<<key[1], key[2]>> : key \in DayKeys(sc)}
  /\ \A key \in DayKeys(sc) :
       (\A ch \in Channels : Record(sc, <<key[1], key[2], ch>>) \in R) =>
          /\ <<key[1], key[2]>> \in DOMAIN evaluable
          /\ evaluable[<<key[1], key[2]>>] = sc.verdicts[key[1]][key[2]].evaluable

Heard(sc, td, as, p) ==
  /\ DOMAIN td = Lanes /\ \A lane \in Lanes : td[lane] \subseteq Streams(sc)[lane]
  /\ IsAsm(as) /\ as.inp.timing = sc.timing
  /\ as.inp.perf = [d \in Devices |-> Items(Arrived(sc, td, "perf"), Arrived(sc, td, "contexts"), d)]
  /\ HeardHours(as.inp.hours, Arrived(sc, td, "rounds"), p)
  /\ HeardDays(sc, as.inp.days, as.inp.evaluable, Arrived(sc, td, "records"))

\* The function f with v at k.
IsPut(p, f, k, v) ==
  /\ DOMAIN p = DOMAIN f \cup {k} /\ p[k] = v
  /\ \A x \in DOMAIN f : x # k => p[x] = f[x]

\* A put changes a function at one key.
LEMMA PutFacts ==
  ASSUME NEW f, NEW k, NEW v, NEW p, p = Put(f, k, v)
  PROVE  IsPut(p, f, k, v)
BY DEF Put, IsPut

\* A row that takes the place of the observed one, with as many rounds or more.
LEMMA RowPut ==
  ASSUME NEW hours, \A x \in DOMAIN hours : IsRow(hours[x]),
         NEW k, NEW o, o = IF k \in DOMAIN hours THEN hours[k] ELSE NoRow,
         NEW row, IsRow(row), NEW P, P = Put(hours, k, row)
  PROVE  /\ \A x \in DOMAIN P : IsRow(P[x])
         /\ row.rounds = o.rounds =>
              \A d, w : HasReadings(P, d, w) <=> HasReadings(hours, d, w)
         /\ row.rounds = o.rounds + 1 =>
              \A d, w : HasReadings(P, d, w) <=> HasReadings(hours, d, w) \/ <<d, w>> = k
<1>1. /\ DOMAIN P = DOMAIN hours \cup {k} /\ P[k] = row
      /\ \A x \in DOMAIN hours : x # k => P[x] = hours[x]
  <2>1. IsPut(P, hours, k, row)
    BY PutFacts
  <2>. QED  BY <2>1 DEF IsPut
<1>2. \A x \in DOMAIN P : IsRow(P[x])
  BY <1>1
<1>3. NoRow.rounds = 0
  BY DEF NoRow
<1>. DEFINE n == o.rounds
<1>4. n \in Nat /\ (k \in DOMAIN hours => hours[k].rounds = n) /\ (k \notin DOMAIN hours => n = 0)
  BY <1>3 DEF IsRow
<1>5. \A d, w : <<d, w>> # k => (HasReadings(P, d, w) <=> HasReadings(hours, d, w))
  BY <1>1 DEF HasReadings
<1>. HIDE DEF n
<1>6. ASSUME NEW d, NEW w, <<d, w>> = k
      PROVE  /\ HasReadings(P, d, w) <=> row.rounds > 0
             /\ HasReadings(hours, d, w) <=> n > 0
  BY <1>1, <1>4, <1>6 DEF HasReadings
<1>. QED
  BY <1>2, <1>4, <1>5, <1>6 DEF n

\* The empty row is a row.
LEMMA NoRowIsRow == IsRow(NoRow)
<1>. DEFINE e == [c \in Active |-> 0]
<1>1. NoRow = [rounds |-> 0, admitted |-> 0, guard |-> 0, outliers |-> 0, ctx |-> 0, n |-> e, sum |-> e]
  BY Zenon DEF NoRow
<1>. HIDE DEF e
<1>2. DOMAIN NoRow = {"rounds", "admitted", "guard", "outliers", "ctx", "n", "sum"} /\ NoRow.rounds = 0
  BY <1>1
<1>. QED  BY <1>2 DEF IsRow

\* The element x is no longer to come on its lane.
Taken(td, td2, lane, x) == td2 = [td EXCEPT ![lane] = @ \ {x}]

\* One more element x of a lane has arrived.
OneArrived(sc, td, td2, lane, x) ==
  /\ DOMAIN td2 = Lanes /\ \A l \in Lanes : td2[l] \subseteq Streams(sc)[l]
  /\ Arrived(sc, td2, lane) = Arrived(sc, td, lane) \cup {x}
  /\ \A l \in Lanes : l # lane => Arrived(sc, td2, l) = Arrived(sc, td, l)

\* Taking an element adds it to what has arrived on its lane only.
LEMMA ArrivedMore ==
  ASSUME NEW sc, NEW td, DOMAIN td = Lanes, \A l \in Lanes : td[l] \subseteq Streams(sc)[l],
         NEW lane \in Lanes, NEW x \in td[lane], NEW td2, Taken(td, td2, lane, x)
  PROVE  OneArrived(sc, td, td2, lane, x)
BY DEF Arrived, OneArrived, Taken

\* A round makes its hour one with readings.
LEMMA HoursMore ==
  ASSUME NEW hours, NEW R, NEW p \in Nat, HeardHours(hours, R, p),
         NEW x, NEW o, o = IF <<x.device, WindowOf(x.ts)>> \in DOMAIN hours
                             THEN hours[<<x.device, WindowOf(x.ts)>>] ELSE NoRow,
         NEW row, IsRow(row), row.rounds = o.rounds + 1,
         NEW P, P = Put(hours, <<x.device, WindowOf(x.ts)>>, row)
  PROVE  HeardHours(P, R \cup {x}, p)
<1>1. /\ \A k \in DOMAIN P : IsRow(P[k])
      /\ \A d, w : HasReadings(P, d, w) <=>
           HasReadings(hours, d, w) \/ <<d, w>> = <<x.device, WindowOf(x.ts)>>
  BY RowPut DEF HeardHours
<1>2. ASSUME NEW d \in Devices, NEW w \in Int, w >= p * Hour
      PROVE  HasReadings(P, d, w) <=> \E r \in R \cup {x} : r.device = d /\ WindowOf(r.ts) = w
  <2>1. HasReadings(hours, d, w) <=> \E r \in R : r.device = d /\ WindowOf(r.ts) = w
    BY <1>2, Zenon DEF HeardHours
  <2>2. <<d, w>> = <<x.device, WindowOf(x.ts)>> <=> x.device = d /\ WindowOf(x.ts) = w
    BY Zenon
  <2>3. HasReadings(P, d, w) <=> HasReadings(hours, d, w) \/ <<d, w>> = <<x.device, WindowOf(x.ts)>>
    BY <1>1, Zenon
  <2>. QED  BY <2>1, <2>2, <2>3, Zenon
<1>. QED
  BY <1>1, <1>2 DEF HeardHours

\* Other elements of an hour leave its rounds alone.
LEMMA HoursSame ==
  ASSUME NEW hours, NEW R, NEW p \in Nat, HeardHours(hours, R, p),
         NEW k, NEW o, o = IF k \in DOMAIN hours THEN hours[k] ELSE NoRow,
         NEW row, IsRow(row), row.rounds = o.rounds, NEW P, P = Put(hours, k, row)
  PROVE  HeardHours(P, R, p)
<1>1. /\ \A y \in DOMAIN P : IsRow(P[y])
      /\ \A d, w : HasReadings(P, d, w) <=> HasReadings(hours, d, w)
  BY RowPut DEF HeardHours
<1>. QED
  BY <1>1, Zenon DEF HeardHours

\* The set T is S, with the item i if x is of device d.
WithItem(T, S, x, d, i) == T = IF x.device = d THEN S \cup {i} ELSE S

\* The items of one more element.
LEMMA ItemsMore ==
  ASSUME NEW P, NEW C, NEW x, NEW d
  PROVE  /\ WithItem(Items(P \cup {x}, C, d), Items(P, C, d), x, d, PerfItem(x))
         /\ WithItem(Items(P, C \cup {x}, d), Items(P, C, d), x, d, ScoreItem(x))
<1>1. \A i : i \in Items(P \cup {x}, C, d) <=> i \in Items(P, C, d) \/ (x.device = d /\ i = PerfItem(x))
  BY Zenon DEF Items
<1>2. \A i : i \in Items(P, C \cup {x}, d) <=> i \in Items(P, C, d) \/ (x.device = d /\ i = ScoreItem(x))
  BY Zenon DEF Items
<1>. QED
  BY <1>1, <1>2 DEF WithItem

\* The assembler b has heard of what is left on the lanes td2, with the books of as.
StillHeard(sc, td2, as, b, p) == Heard(sc, td2, b, p) /\ b.books = as.books

\* A round accepted keeps the assembler in step with what has arrived.
LEMMA AcceptRoundHeard ==
  ASSUME NEW sc, IsScenario(sc), NEW td, NEW as, NEW p \in Nat, Heard(sc, td, as, p),
         NEW x \in td["rounds"], NEW td2, Taken(td, td2, "rounds", x),
         NEW b, b = AcceptRound(as, x)
  PROVE  StillHeard(sc, td2, as, b, p)
<1>. DEFINE hours == as.inp.hours
            k == <<x.device, WindowOf(x.ts)>>
            o == Obs(as, x.device, WindowOf(x.ts))
            R == Arrived(sc, td, "rounds")
<1>1. o = IF k \in DOMAIN hours THEN hours[k] ELSE NoRow
  BY Zenon DEF Obs, HasRow, Row
<1>0. o = Obs(as, x.device, WindowOf(x.ts))
  OBVIOUS
<1>. HIDE DEF o
<1>2. HeardHours(hours, R, p)
  BY DEF Heard
<1>3. IsRow(o)
  BY <1>1, <1>2, NoRowIsRow, Zenon DEF HeardHours
<1>4. IsAsm(as)
  BY DEF Heard
<1>5. /\ OtherInputs(as, b) /\ b.inp.perf = as.inp.perf
      /\ \E row : b.inp.hours = Put(hours, k, row) /\ IsRow(row) /\ row.rounds = o.rounds + 1
  <2>1. RoundTaken(as, x, o, b)
    BY <1>0, <1>3, <1>4, RoundFields
  <2>. QED  BY <2>1, Zenon DEF RoundTaken
<1>6. PICK row : b.inp.hours = Put(hours, k, row) /\ IsRow(row) /\ row.rounds = o.rounds + 1
  BY <1>5, Zenon
<1>7. HeardHours(b.inp.hours, R \cup {x}, p)
  BY <1>1, <1>2, <1>6, HoursMore
<1>8. /\ DOMAIN td2 = Lanes /\ \A l \in Lanes : td2[l] \subseteq Streams(sc)[l]
      /\ Arrived(sc, td2, "rounds") = R \cup {x}
      /\ \A l \in Lanes : l # "rounds" => Arrived(sc, td2, l) = Arrived(sc, td, l)
  <2>1. DOMAIN td = Lanes /\ \A l \in Lanes : td[l] \subseteq Streams(sc)[l]
    BY DEF Heard
  <2>2. "rounds" \in Lanes
    BY DEF Lanes
  <2>3. OneArrived(sc, td, td2, "rounds", x)
    BY <2>1, <2>2, ArrivedMore
  <2>. QED  BY <2>3, Zenon DEF OneArrived
<1>9. /\ Arrived(sc, td2, "perf") = Arrived(sc, td, "perf")
      /\ Arrived(sc, td2, "contexts") = Arrived(sc, td, "contexts")
      /\ Arrived(sc, td2, "records") = Arrived(sc, td, "records")
  BY <1>8 DEF Lanes
<1>. QED
  BY <1>5, <1>7, <1>8, <1>9, Zenon DEF StillHeard, Heard, OtherInputs

\* An outlier accepted keeps the assembler in step with what has arrived.
LEMMA AcceptOutlierHeard ==
  ASSUME NEW sc, IsScenario(sc), NEW td, NEW as, NEW p \in Nat, Heard(sc, td, as, p),
         NEW x \in td["outliers"], NEW td2, Taken(td, td2, "outliers", x),
         NEW b, b = AcceptOutlier(as, x)
  PROVE  StillHeard(sc, td2, as, b, p)
<1>. DEFINE hours == as.inp.hours
            k == <<x.device, WindowOf(x.ts)>>
            o == Obs(as, x.device, WindowOf(x.ts))
            R == Arrived(sc, td, "rounds")
<1>1. o = IF k \in DOMAIN hours THEN hours[k] ELSE NoRow
  BY Zenon DEF Obs, HasRow, Row
<1>0. o = Obs(as, x.device, WindowOf(x.ts))
  OBVIOUS
<1>. HIDE DEF o
<1>2. HeardHours(hours, R, p)
  BY DEF Heard
<1>3. IsRow(o)
  BY <1>1, <1>2, NoRowIsRow, Zenon DEF HeardHours
<1>4. IsAsm(as)
  BY DEF Heard
<1>5. /\ OtherInputs(as, b) /\ b.inp.perf = as.inp.perf
      /\ \/ b.inp.hours = hours
         \/ \E row : b.inp.hours = Put(hours, k, row) /\ IsRow(row) /\ row.rounds = o.rounds
  <2>1. OutlierTaken(as, x, o, b)
    BY <1>0, <1>3, <1>4, OutlierFields
  <2>. QED  BY <2>1, Zenon DEF OutlierTaken
<1>6. HeardHours(b.inp.hours, R, p)
  <2>1. CASE b.inp.hours = hours
    BY <2>1, <1>2
  <2>2. CASE \E row : b.inp.hours = Put(hours, k, row) /\ IsRow(row) /\ row.rounds = o.rounds
    <3>1. PICK row : b.inp.hours = Put(hours, k, row) /\ IsRow(row) /\ row.rounds = o.rounds
      BY <2>2, Zenon
    <3>. QED  BY <1>1, <1>2, <3>1, HoursSame
  <2>. QED  BY <1>5, <2>1, <2>2
<1>7. /\ DOMAIN td2 = Lanes /\ \A l \in Lanes : td2[l] \subseteq Streams(sc)[l]
      /\ Arrived(sc, td2, "outliers") = Arrived(sc, td, "outliers") \cup {x}
      /\ \A l \in Lanes : l # "outliers" => Arrived(sc, td2, l) = Arrived(sc, td, l)
  <2>1. DOMAIN td = Lanes /\ \A l \in Lanes : td[l] \subseteq Streams(sc)[l]
    BY DEF Heard
  <2>2. "outliers" \in Lanes
    BY DEF Lanes
  <2>3. OneArrived(sc, td, td2, "outliers", x)
    BY <2>1, <2>2, ArrivedMore
  <2>. QED  BY <2>3, Zenon DEF OneArrived
<1>8. /\ Arrived(sc, td2, "perf") = Arrived(sc, td, "perf")
      /\ Arrived(sc, td2, "contexts") = Arrived(sc, td, "contexts")
      /\ Arrived(sc, td2, "records") = Arrived(sc, td, "records")
      /\ Arrived(sc, td2, "rounds") = R
  BY <1>7 DEF Lanes
<1>. QED
  BY <1>5, <1>6, <1>7, <1>8, Zenon DEF StillHeard, Heard, OtherInputs

\* A context score accepted keeps the assembler in step with what has arrived.
LEMMA AcceptContextHeard ==
  ASSUME NEW sc, IsScenario(sc), NEW td, NEW as, NEW p \in Nat, Heard(sc, td, as, p),
         NEW x \in td["contexts"], NEW td2, Taken(td, td2, "contexts", x),
         NEW b, b = AcceptContext(as, x)
  PROVE  StillHeard(sc, td2, as, b, p)
<1>. DEFINE hours == as.inp.hours
            k == <<x.device, ContextWindow(x.ts)>>
            o == Obs(as, x.device, ContextWindow(x.ts))
            R == Arrived(sc, td, "rounds")
            P == Arrived(sc, td, "perf")
            C == Arrived(sc, td, "contexts")
<1>1. o = IF k \in DOMAIN hours THEN hours[k] ELSE NoRow
  BY Zenon DEF Obs, HasRow, Row
<1>0. o = Obs(as, x.device, ContextWindow(x.ts))
  OBVIOUS
<1>. HIDE DEF o
<1>2. HeardHours(hours, R, p)
  BY DEF Heard
<1>3. IsRow(o)
  BY <1>1, <1>2, NoRowIsRow, Zenon DEF HeardHours
<1>4. IsAsm(as)
  BY DEF Heard
<1>5. /\ OtherInputs(as, b)
      /\ b.inp.perf = [as.inp.perf EXCEPT ![x.device] =
           @ \cup {[ts |-> x.ts, rank |-> 1, level |-> "ELEMENT", value |-> x.value]}]
      /\ \E row : b.inp.hours = Put(hours, k, row) /\ IsRow(row) /\ row.rounds = o.rounds
  <2>1. ContextTaken(as, x, o, b)
    BY <1>0, <1>3, <1>4, ContextFields
  <2>. QED  BY <2>1, Zenon DEF ContextTaken
<1>6. HeardHours(b.inp.hours, R, p)
  <2>1. PICK row : b.inp.hours = Put(hours, k, row) /\ IsRow(row) /\ row.rounds = o.rounds
    BY <1>5, Zenon
  <2>. QED  BY <1>1, <1>2, <2>1, HoursSame
<1>7. /\ DOMAIN td2 = Lanes /\ \A l \in Lanes : td2[l] \subseteq Streams(sc)[l]
      /\ Arrived(sc, td2, "contexts") = C \cup {x}
      /\ \A l \in Lanes : l # "contexts" => Arrived(sc, td2, l) = Arrived(sc, td, l)
  <2>1. DOMAIN td = Lanes /\ \A l \in Lanes : td[l] \subseteq Streams(sc)[l]
    BY DEF Heard
  <2>2. "contexts" \in Lanes
    BY DEF Lanes
  <2>3. OneArrived(sc, td, td2, "contexts", x)
    BY <2>1, <2>2, ArrivedMore
  <2>. QED  BY <2>3, Zenon DEF OneArrived
<1>8. /\ Arrived(sc, td2, "perf") = P
      /\ Arrived(sc, td2, "records") = Arrived(sc, td, "records")
      /\ Arrived(sc, td2, "rounds") = R
  BY <1>7 DEF Lanes
<1>9. as.inp.perf = [d \in Devices |-> Items(P, C, d)]
  BY DEF Heard
<1>. HIDE DEF P, C
<1>10. b.inp.perf = [as.inp.perf EXCEPT ![x.device] = @ \cup {ScoreItem(x)}]
  BY <1>5, Zenon DEF ScoreItem
<1>11. b.inp.perf = [d \in Devices |-> Items(P, C \cup {x}, d)]
  <2>1. \A d : WithItem(Items(P, C \cup {x}, d), Items(P, C, d), x, d, ScoreItem(x))
    BY ItemsMore
  <2>. DEFINE f == [d \in Devices |-> Items(P, C, d)]
              g == [d \in Devices |-> Items(P, C \cup {x}, d)]
              i == ScoreItem(x)
              dev == x.device
  <2>2. \A d \in Devices : g[d] = IF dev = d THEN f[d] \cup {i} ELSE f[d]
    BY <2>1, Zenon DEF WithItem
  <2>3. DOMAIN f = Devices /\ DOMAIN g = Devices /\ g = [d \in Devices |-> g[d]]
    OBVIOUS
  <2>4. b.inp.perf = [f EXCEPT ![dev] = @ \cup {i}]
    BY <1>9, <1>10, Zenon
  <2>. HIDE DEF f, g, i, dev
  <2>5. b.inp.perf = g
    BY <2>2, <2>3, <2>4
  <2>. QED  BY <2>5, Zenon DEF g
<1>. QED
  BY <1>5, <1>6, <1>7, <1>8, <1>11, Zenon DEF StillHeard, Heard, OtherInputs

\* A performance event accepted keeps the assembler in step with what has arrived.
LEMMA AcceptPerfHeard ==
  ASSUME NEW sc, IsScenario(sc), NEW td, NEW as, NEW p \in Nat, Heard(sc, td, as, p),
         NEW x \in td["perf"], NEW td2, Taken(td, td2, "perf", x),
         NEW b, b = AcceptPerf(as, x)
  PROVE  StillHeard(sc, td2, as, b, p)
<1>. DEFINE P == Arrived(sc, td, "perf")
            C == Arrived(sc, td, "contexts")
<1>1. IsAsm(as)
  BY DEF Heard
<1>2. /\ OtherInputs(as, b) /\ b.inp.hours = as.inp.hours
      /\ b.inp.perf = [as.inp.perf EXCEPT ![x.device] =
           @ \cup {[ts |-> x.ts, rank |-> 0, level |-> x.level, value |-> x.value]}]
  <2>1. PerfTaken(as, x, b)
    BY <1>1, PerfFields
  <2>. QED  BY <2>1, Zenon DEF PerfTaken
<1>3. /\ DOMAIN td2 = Lanes /\ \A l \in Lanes : td2[l] \subseteq Streams(sc)[l]
      /\ Arrived(sc, td2, "perf") = P \cup {x}
      /\ \A l \in Lanes : l # "perf" => Arrived(sc, td2, l) = Arrived(sc, td, l)
  <2>1. DOMAIN td = Lanes /\ \A l \in Lanes : td[l] \subseteq Streams(sc)[l]
    BY DEF Heard
  <2>2. "perf" \in Lanes
    BY DEF Lanes
  <2>3. OneArrived(sc, td, td2, "perf", x)
    BY <2>1, <2>2, ArrivedMore
  <2>. QED  BY <2>3, Zenon DEF OneArrived
<1>4. /\ Arrived(sc, td2, "contexts") = C
      /\ Arrived(sc, td2, "records") = Arrived(sc, td, "records")
      /\ Arrived(sc, td2, "rounds") = Arrived(sc, td, "rounds")
  BY <1>3 DEF Lanes
<1>5. as.inp.perf = [d \in Devices |-> Items(P, C, d)]
  BY DEF Heard
<1>. HIDE DEF P, C
<1>6. b.inp.perf = [as.inp.perf EXCEPT ![x.device] = @ \cup {PerfItem(x)}]
  BY <1>2, Zenon DEF PerfItem
<1>7. b.inp.perf = [d \in Devices |-> Items(P \cup {x}, C, d)]
  <2>1. \A d : WithItem(Items(P \cup {x}, C, d), Items(P, C, d), x, d, PerfItem(x))
    BY ItemsMore
  <2>. DEFINE f == [d \in Devices |-> Items(P, C, d)]
              g == [d \in Devices |-> Items(P \cup {x}, C, d)]
              i == PerfItem(x)
              k == x.device
  <2>2. \A d \in Devices : g[d] = IF k = d THEN f[d] \cup {i} ELSE f[d]
    BY <2>1, Zenon DEF WithItem
  <2>3. DOMAIN f = Devices /\ DOMAIN g = Devices /\ g = [d \in Devices |-> g[d]]
    OBVIOUS
  <2>4. b.inp.perf = [f EXCEPT ![k] = @ \cup {i}]
    BY <1>5, <1>6, Zenon
  <2>. HIDE DEF f, g, i, k
  <2>5. b.inp.perf = g
    BY <2>2, <2>3, <2>4
  <2>. QED  BY <2>5, Zenon DEF g
<1>. QED
  BY <1>2, <1>3, <1>4, <1>7, Zenon DEF StillHeard, Heard, OtherInputs

\* A day's record tells its key, its verdict and when it was closed.
LEMMA RecordFields ==
  ASSUME NEW sc, NEW key \in DayKeys(sc)
  PROVE  /\ key = <<key[1], key[2], key[3]>> /\ key[3] \in Channels
         /\ RecordKey(Record(sc, key)) = key
         /\ Record(sc, key).evaluable = sc.verdicts[key[1]][key[2]].evaluable
         /\ Record(sc, key).deviated = Verdict(sc, key)
         /\ Record(sc, key).at = DayStart(key[2] + 1)
<1>1. key = <<key[1], key[2], key[3]>> /\ key[3] \in Channels
  BY DEF DayKeys
<1>2. ASSUME NEW at, NEW e, NEW v, NEW r,
             r = [at |-> at, device |-> key[1], day |-> key[2], ch |-> key[3], evaluable |-> e, deviated |-> v]
      PROVE  r.at = at /\ r.device = key[1] /\ r.day = key[2] /\ r.ch = key[3]
             /\ r.evaluable = e /\ r.deviated = v
  BY <1>2
<1>. DEFINE r == Record(sc, key)
<1>3. /\ r.at = DayStart(key[2] + 1) /\ r.device = key[1] /\ r.day = key[2] /\ r.ch = key[3]
      /\ r.evaluable = sc.verdicts[key[1]][key[2]].evaluable /\ r.deviated = Verdict(sc, key)
  BY <1>2, Zenon DEF Record
<1>. QED
  BY <1>1, <1>3, Zenon DEF RecordKey

\* The records R2 are those of R, and of the day and channel key in the state s.
Agrees(R2, R, key, s) ==
  \A r \in R2 : /\ r \in R \/ RecordKey(r) = key
                /\ RecordKey(r) = key => s.evaluable = r.evaluable /\ s.deviated = r.deviated

\* A new state of a day that is not at odds with the records of the day.
LEMMA DaysMore ==
  ASSUME NEW sc, NEW days, NEW ev, NEW R, HeardDays(sc, days, ev, R),
         NEW key \in DayKeys(sc), NEW s, DOMAIN s = {"evaluable", "deviated", "transition"},
         NEW R2, Agrees(R2, R, key, s), NEW d2, IsPut(d2, days, key, s),
         NEW v2, IsPut(v2, ev, <<key[1], key[2]>>, s.evaluable)
  PROVE  HeardDays(sc, d2, v2, R2)
<1>. DEFINE at == <<key[1], key[2]>>
            val == s.evaluable
            Keys == DayKeys(sc)
            Pairs == {<<k[1], k[2]>> : k \in DayKeys(sc)}
            Verd(k) == sc.verdicts[k[1]][k[2]].evaluable
<1>0. /\ DOMAIN days \subseteq Keys
      /\ \A k \in DOMAIN days : DOMAIN days[k] = {"evaluable", "deviated", "transition"}
      /\ \A r \in R : /\ RecordKey(r) \in DOMAIN days
                      /\ days[RecordKey(r)].evaluable = r.evaluable
                      /\ days[RecordKey(r)].deviated = r.deviated
      /\ DOMAIN ev \subseteq Pairs
      /\ \A k \in Keys : (\A ch \in Channels : Record(sc, <<k[1], k[2], ch>>) \in R) =>
              <<k[1], k[2]>> \in DOMAIN ev /\ ev[<<k[1], k[2]>>] = Verd(k)
  BY Zenon DEF HeardDays
<1>a. \A r \in R2 : /\ r \in R \/ RecordKey(r) = key
                    /\ RecordKey(r) = key => s.evaluable = r.evaluable /\ s.deviated = r.deviated
  BY Zenon DEF Agrees
<1>1. /\ DOMAIN d2 = DOMAIN days \cup {key} /\ d2[key] = s
      /\ \A x \in DOMAIN days : x # key => d2[x] = days[x]
  BY DEF IsPut
<1>2. /\ DOMAIN v2 = DOMAIN ev \cup {at} /\ v2[at] = val
      /\ \A x \in DOMAIN ev : x # at => v2[x] = ev[x]
  BY DEF IsPut
<1>3. key \in Keys /\ at \in Pairs
  BY Zenon
<1>4. \A k \in Keys : /\ k = <<k[1], k[2], k[3]>> /\ k[3] \in Channels
                      /\ RecordKey(Record(sc, k)) = k /\ Record(sc, k).evaluable = Verd(k)
  BY RecordFields
<1>5. \A k \in Keys, ch \in Channels : <<k[1], k[2], ch>> \in Keys
                                       /\ <<k[1], k[2], ch>>[1] = k[1] /\ <<k[1], k[2], ch>>[2] = k[2]
  BY DEF DayKeys
<1>. HIDE DEF Keys, Pairs, val, Verd
<1>6. DOMAIN d2 \subseteq Keys /\ \A k \in DOMAIN d2 : DOMAIN d2[k] = {"evaluable", "deviated", "transition"}
  BY <1>0, <1>1, <1>3
<1>7. \A r \in R2 : /\ RecordKey(r) \in DOMAIN d2
                    /\ d2[RecordKey(r)].evaluable = r.evaluable
                    /\ d2[RecordKey(r)].deviated = r.deviated
  <2>. TAKE r \in R2
  <2>1. CASE RecordKey(r) = key
    BY <2>1, <1>1, <1>a
  <2>2. CASE RecordKey(r) # key
    <3>1. r \in R
      BY <2>2, <1>a
    <3>2. /\ RecordKey(r) \in DOMAIN days
          /\ days[RecordKey(r)].evaluable = r.evaluable
          /\ days[RecordKey(r)].deviated = r.deviated
      BY <3>1, <1>0
    <3>. QED  BY <3>2, <2>2, <1>1
  <2>. QED  BY <2>1, <2>2
<1>8. DOMAIN v2 \subseteq Pairs
  BY <1>0, <1>2, <1>3
<1>9. ASSUME NEW k \in Keys, \A ch \in Channels : Record(sc, <<k[1], k[2], ch>>) \in R2
      PROVE  <<k[1], k[2]>> \in DOMAIN v2 /\ v2[<<k[1], k[2]>>] = Verd(k)
  <2>. DEFINE kp == <<k[1], k[2]>>
  <2>1. CASE kp = at
    <3>1. k[1] = key[1] /\ k[2] = key[2] /\ key[3] \in Channels
      BY <2>1, <1>3, <1>4
    <3>2. Record(sc, key) \in R2
      BY <3>1, <1>3, <1>4, <1>9, Zenon
    <3>3. s.evaluable = Record(sc, key).evaluable
      BY <3>2, <1>3, <1>4, <1>a, Zenon
    <3>4. val = Verd(key) /\ Verd(key) = Verd(k)
      BY <3>1, <3>3, <1>3, <1>4, Zenon DEF val, Verd
    <3>. QED  BY <3>4, <2>1, <1>2
  <2>2. CASE kp # at
    <3>1. ASSUME NEW ch \in Channels
          PROVE  Record(sc, <<k[1], k[2], ch>>) \in R
      <4>. DEFINE c == <<k[1], k[2], ch>>
      <4>1. c \in Keys /\ c[1] = k[1] /\ c[2] = k[2]
        BY <1>5, Zenon
      <4>2. c # key
        BY <4>1, <2>2
      <4>. HIDE DEF c
      <4>3. RecordKey(Record(sc, c)) # key
        BY <4>1, <4>2, <1>4, Zenon
      <4>4. Record(sc, c) \in R2
        BY <1>9, Zenon DEF c
      <4>5. Record(sc, c) \in R
        BY <4>3, <4>4, <1>a, Zenon
      <4>. QED  BY <4>5, Zenon DEF c
    <3>2. kp \in DOMAIN ev /\ ev[kp] = Verd(k)
      BY <3>1, <1>0, <1>9, Zenon
    <3>. QED  BY <3>2, <2>2, <1>2
  <2>. QED  BY <2>1, <2>2
<1>. QED
  BY <1>6, <1>7, <1>8, <1>9, Zenon DEF HeardDays, Keys, Pairs, Verd

\* The day the assembler completes is the one heard so far.
LEMMA DayOfFields ==
  ASSUME NEW sc, NEW as, NEW R, HeardDays(sc, as.inp.days, as.inp.evaluable, R), NEW key,
         NEW s, s = DayOf(as, key)
  PROVE  /\ DOMAIN s = {"evaluable", "deviated", "transition"}
         /\ key \in DOMAIN as.inp.days => s = as.inp.days[key]
<1>1. CASE key \in DOMAIN as.inp.days
  <2>1. s = as.inp.days[key]
    BY <1>1, Zenon DEF DayOf
  <2>2. DOMAIN as.inp.days[key] = {"evaluable", "deviated", "transition"}
    BY <1>1, Zenon DEF HeardDays
  <2>. QED  BY <2>1, <2>2
<1>2. CASE key \notin DOMAIN as.inp.days
  <2>1. s = [evaluable |-> FALSE, deviated |-> FALSE, transition |-> "none"]
    BY <1>2, Zenon DEF DayOf
  <2>2. DOMAIN s = {"evaluable", "deviated", "transition"}
    BY <2>1
  <2>. QED  BY <2>2, <1>2
<1>. QED  BY <1>1, <1>2

\* A day's record accepted keeps the assembler in step with what has arrived.
LEMMA AcceptRecordHeard ==
  ASSUME NEW sc, IsScenario(sc), NEW td, NEW as, NEW p \in Nat, Heard(sc, td, as, p),
         NEW x \in td["records"], NEW td2, Taken(td, td2, "records", x),
         NEW b, b = AcceptRecord(as, x)
  PROVE  StillHeard(sc, td2, as, b, p)
<1>. DEFINE key == RecordKey(x)
            o == DayOf(as, key)
            ve == x.evaluable
            vd == x.deviated
            s == [o EXCEPT !.evaluable = ve, !.deviated = vd]
            days == as.inp.days
            ev == as.inp.evaluable
            R == Arrived(sc, td, "records")
<1>1. IsAsm(as) /\ HeardDays(sc, days, ev, R)
  BY Zenon DEF Heard
<1>2. b = AddDataDay(as, key, s)
  BY Zenon DEF AcceptRecord, RecordKey
<1>3. DOMAIN o = {"evaluable", "deviated", "transition"}
  BY <1>1, DayOfFields
<1>4. Streams(sc)["records"] = {Record(sc, k) : k \in DayKeys(sc)}
  BY DayElements
<1>5. x \in Streams(sc)["records"] /\ R \subseteq Streams(sc)["records"]
  BY Zenon DEF Heard, Arrived, Lanes
<1>6. PICK k \in DayKeys(sc) : x = Record(sc, k)
  BY <1>4, <1>5, Zenon
<1>7. \A j \in DayKeys(sc) : RecordKey(Record(sc, j)) = j
  BY RecordFields
<1>8. key \in DayKeys(sc)
  BY <1>6, <1>7
<1>9. \A r \in R : RecordKey(r) = key => r = x
  <2>. TAKE r \in R
  <2>1. PICK j \in DayKeys(sc) : r = Record(sc, j)
    BY <1>4, <1>5, Zenon
  <2>. QED  BY <2>1, <1>6, <1>7, Zenon
<1>. HIDE DEF o, ve, vd
<1>10. DOMAIN s = {"evaluable", "deviated", "transition"} /\ s.evaluable = ve /\ s.deviated = vd
  BY <1>3
<1>. HIDE DEF s, key
<1>11. /\ OtherThanDays(as, b) /\ b.inp.days = Put(days, key, s)
       /\ b.inp.evaluable = Put(ev, <<key[1], key[2]>>, s.evaluable)
  <2>1. DayTaken(as, key, s, b)
    BY <1>1, <1>2, DayFields
  <2>. QED  BY <2>1, Zenon DEF DayTaken
<1>. HIDE DEF R
<1>12. HeardDays(sc, b.inp.days, b.inp.evaluable, R \cup {x})
  <2>1. \A r \in R \cup {x} : r \in R \/ RecordKey(r) = key
    BY DEF key
  <2>2. \A r \in R \cup {x} : RecordKey(r) = key => r = x
    BY <1>9
  <2>3. \A r \in R \cup {x} : RecordKey(r) = key => s.evaluable = r.evaluable /\ s.deviated = r.deviated
    BY <2>2, <1>10, Zenon DEF ve, vd
  <2>. DEFINE R2 == R \cup {x}
  <2>. HIDE DEF R2
  <2>4. HeardDays(sc, b.inp.days, b.inp.evaluable, R2)
    <3>1. Agrees(R2, R, key, s)
      BY <2>1, <2>3, Zenon DEF Agrees, R2
    <3>2. IsPut(b.inp.days, days, key, s)
      BY <1>11, PutFacts
    <3>3. IsPut(b.inp.evaluable, ev, <<key[1], key[2]>>, s.evaluable)
      BY <1>11, PutFacts
    <3>. QED  BY <1>1, <1>8, <1>10, <3>1, <3>2, <3>3, DaysMore
  <2>. QED  BY <2>4 DEF R2
<1>13. /\ DOMAIN td2 = Lanes /\ \A l \in Lanes : td2[l] \subseteq Streams(sc)[l]
       /\ Arrived(sc, td2, "records") = R \cup {x}
       /\ \A l \in Lanes : l # "records" => Arrived(sc, td2, l) = Arrived(sc, td, l)
  <2>1. DOMAIN td = Lanes /\ \A l \in Lanes : td[l] \subseteq Streams(sc)[l]
    BY DEF Heard
  <2>2. "records" \in Lanes
    BY DEF Lanes
  <2>3. OneArrived(sc, td, td2, "records", x)
    BY <2>1, <2>2, ArrivedMore
  <2>. QED  BY <2>3, Zenon DEF OneArrived, R
<1>14. /\ Arrived(sc, td2, "perf") = Arrived(sc, td, "perf")
       /\ Arrived(sc, td2, "contexts") = Arrived(sc, td, "contexts")
       /\ Arrived(sc, td2, "rounds") = Arrived(sc, td, "rounds")
  BY <1>13 DEF Lanes
<1>. QED
  BY <1>11, <1>12, <1>13, <1>14, Zenon DEF StillHeard, Heard, OtherThanDays

\* A data event accepted keeps the assembler in step with what has arrived.
LEMMA AcceptEventHeard ==
  ASSUME NEW sc, IsScenario(sc), NEW td, NEW as, NEW p \in Nat, Heard(sc, td, as, p),
         NEW x \in td["dataEvents"], NEW td2, Taken(td, td2, "dataEvents", x),
         NEW b, b = AcceptEvent(as, x)
  PROVE  StillHeard(sc, td2, as, b, p)
<1>. DEFINE R == Arrived(sc, td, "records")
            days == as.inp.days
            ev == as.inp.evaluable
<1>1. IsAsm(as) /\ HeardDays(sc, days, ev, R)
  BY Zenon DEF Heard
<1>2. OtherThanDays(as, b) /\ HeardDays(sc, b.inp.days, b.inp.evaluable, R)
  <2>1. CASE x.kind = "BURST"
    <3>1. BurstTaken(as, b)
      BY <2>1, <1>1, BurstFields
    <3>2. OtherThanDays(as, b) /\ b.inp.days = days /\ b.inp.evaluable = ev
      BY <3>1, Zenon DEF BurstTaken
    <3>. QED  BY <3>2, <1>1
  <2>2. CASE x.kind # "BURST"
    <3>. DEFINE key == <<x.device, x.day, x.ch>>
                o == DayOf(as, key)
                tr == x.transition
                s == [o EXCEPT !.transition = tr]
    <3>1. key \in DayKeys(sc)
      <4>1. x \in Streams(sc)["dataEvents"]
        BY Zenon DEF Heard, Lanes
      <4>. QED  BY <2>2, <4>1, DayElements
    <3>2. b = AddDataDay(as, key, s)
      BY <2>2, Zenon DEF AcceptEvent
    <3>3. /\ DOMAIN o = {"evaluable", "deviated", "transition"}
          /\ key \in DOMAIN days => o = days[key]
      BY <1>1, DayOfFields
    <3>. HIDE DEF key, o, tr
    <3>4. /\ DOMAIN s = {"evaluable", "deviated", "transition"}
          /\ s.evaluable = o.evaluable /\ s.deviated = o.deviated
      BY <3>3
    <3>. HIDE DEF s
    <3>5. /\ OtherThanDays(as, b) /\ b.inp.days = Put(days, key, s)
          /\ b.inp.evaluable = Put(ev, <<key[1], key[2]>>, s.evaluable)
      <4>1. DayTaken(as, key, s, b)
        BY <1>1, <3>2, DayFields
      <4>. QED  BY <4>1, Zenon DEF DayTaken
    <3>6. \A r \in R : RecordKey(r) = key => s.evaluable = r.evaluable /\ s.deviated = r.deviated
      <4>. TAKE r \in R
      <4>. HAVE RecordKey(r) = key
      <4>1. /\ key \in DOMAIN days /\ days[key].evaluable = r.evaluable
            /\ days[key].deviated = r.deviated
        BY <1>1, Zenon DEF HeardDays
      <4>. QED  BY <4>1, <3>3, <3>4
    <3>. HIDE DEF R
    <3>7. HeardDays(sc, b.inp.days, b.inp.evaluable, R)
      <4>1. Agrees(R, R, key, s)
        BY <3>6, Zenon DEF Agrees
      <4>2. IsPut(b.inp.days, days, key, s)
        BY <3>5, PutFacts
      <4>3. IsPut(b.inp.evaluable, ev, <<key[1], key[2]>>, s.evaluable)
        BY <3>5, PutFacts
      <4>. QED  BY <1>1, <3>1, <3>4, <4>1, <4>2, <4>3, DaysMore
    <3>. QED  BY <3>5, <3>7
  <2>. QED  BY <2>1, <2>2
<1>3. /\ DOMAIN td2 = Lanes /\ \A l \in Lanes : td2[l] \subseteq Streams(sc)[l]
      /\ \A l \in Lanes : l # "dataEvents" => Arrived(sc, td2, l) = Arrived(sc, td, l)
  <2>1. DOMAIN td = Lanes /\ \A l \in Lanes : td[l] \subseteq Streams(sc)[l]
    BY DEF Heard
  <2>2. "dataEvents" \in Lanes
    BY DEF Lanes
  <2>3. OneArrived(sc, td, td2, "dataEvents", x)
    BY <2>1, <2>2, ArrivedMore
  <2>. QED  BY <2>3, Zenon DEF OneArrived
<1>4. /\ Arrived(sc, td2, "perf") = Arrived(sc, td, "perf")
      /\ Arrived(sc, td2, "contexts") = Arrived(sc, td, "contexts")
      /\ Arrived(sc, td2, "rounds") = Arrived(sc, td, "rounds")
      /\ Arrived(sc, td2, "records") = R
  BY <1>3 DEF Lanes
<1>. QED
  BY <1>2, <1>3, <1>4, Zenon DEF StillHeard, Heard, OtherThanDays

\* Whatever element arrives, what is known stays what the scenario says.
LEMMA AcceptHeard ==
  ASSUME NEW sc, IsScenario(sc), NEW td, NEW as, NEW p \in Nat, Heard(sc, td, as, p),
         NEW lane \in Lanes, NEW x \in td[lane], NEW td2, Taken(td, td2, lane, x),
         NEW b, b = Accept(as, lane, x)
  PROVE  StillHeard(sc, td2, as, b, p)
<1>1. CASE lane = "rounds"
  <2>1. b = AcceptRound(as, x)
    BY <1>1 DEF Accept
  <2>2. x \in td["rounds"] /\ Taken(td, td2, "rounds", x)
    BY <1>1
  <2>. QED  BY <2>1, <2>2, AcceptRoundHeard
<1>2. CASE lane = "outliers"
  <2>1. b = AcceptOutlier(as, x)
    BY <1>2 DEF Accept
  <2>2. x \in td["outliers"] /\ Taken(td, td2, "outliers", x)
    BY <1>2
  <2>. QED  BY <2>1, <2>2, AcceptOutlierHeard
<1>3. CASE lane = "contexts"
  <2>1. b = AcceptContext(as, x)
    BY <1>3 DEF Accept
  <2>2. x \in td["contexts"] /\ Taken(td, td2, "contexts", x)
    BY <1>3
  <2>. QED  BY <2>1, <2>2, AcceptContextHeard
<1>4. CASE lane = "perf"
  <2>1. b = AcceptPerf(as, x)
    BY <1>4 DEF Accept
  <2>2. x \in td["perf"] /\ Taken(td, td2, "perf", x)
    BY <1>4
  <2>. QED  BY <2>1, <2>2, AcceptPerfHeard
<1>5. CASE lane = "dataEvents"
  <2>1. b = AcceptEvent(as, x)
    BY <1>5 DEF Accept
  <2>2. x \in td["dataEvents"] /\ Taken(td, td2, "dataEvents", x)
    BY <1>5
  <2>. QED  BY <2>1, <2>2, AcceptEventHeard
<1>6. CASE lane = "records"
  <2>1. b = AcceptRecord(as, x)
    BY <1>6 DEF Accept
  <2>2. x \in td["records"] /\ Taken(td, td2, "records", x)
    BY <1>6
  <2>. QED  BY <2>1, <2>2, AcceptRecordHeard
<1>. QED
  BY <1>1, <1>2, <1>3, <1>4, <1>5, <1>6 DEF Lanes

--------------------------------------------------------------------------------
(* A mature tick: what is known is what the scenario says of that time.    *)

\* Nothing that is still to come is of a time up to t.
Over(td, t) == \A lane \in Lanes : \A x \in td[lane] : x.at > t

\* f says what the scenario says.
TellsOf(f, sc) ==
  /\ f.timing = sc.timing
  /\ f.perf = [d \in Devices |-> PerfItems(sc, d)]
  /\ DOMAIN f.days = DayKeys(sc)
  /\ \A key \in DayKeys(sc) : f.days[key].deviated = Verdict(sc, key)
  /\ DOMAIN f.evaluable = {<<key[1], key[2]>> : key \in DayKeys(sc)}
  /\ \A x \in DOMAIN f.evaluable : f.evaluable[x] = sc.verdicts[x[1]][x[2]].evaluable

\* What the offline facts of a scenario tell.
LEMMA FactsFields ==
  ASSUME NEW sc, NEW f, f = Facts(sc)
  PROVE  TellsOf(f, sc)
<1>. DEFINE P == [d \in Devices |-> PerfItems(sc, d)]
            D == [key \in DayKeys(sc) |-> [deviated |-> Verdict(sc, key)]]
            S == {<<key[1], key[2]>> : key \in DayKeys(sc)}
            V == [x \in S |-> sc.verdicts[x[1]][x[2]].evaluable]
            T == sc.timing
<1>1. f = [timing |-> T, perf |-> P, days |-> D, evaluable |-> V]
  BY Zenon DEF Facts
<1>2. DOMAIN D = DayKeys(sc) /\ \A key \in DayKeys(sc) : D[key].deviated = Verdict(sc, key)
  <2>1. \A v : [deviated |-> v].deviated = v
    OBVIOUS
  <2>2. \A key \in DayKeys(sc) : D[key] = [deviated |-> Verdict(sc, key)]
    BY Zenon
  <2>. QED  BY <2>1, <2>2, Zenon
<1>3. DOMAIN V = S /\ \A x \in S : V[x] = sc.verdicts[x[1]][x[2]].evaluable
  BY Zenon
<1>. HIDE DEF P, D, S, V, T
<1>4. f.timing = T /\ f.perf = P /\ f.days = D /\ f.evaluable = V
  BY <1>1
<1>5. DOMAIN f.days = DayKeys(sc) /\ \A key \in DayKeys(sc) : f.days[key].deviated = Verdict(sc, key)
  BY <1>2, <1>4, Zenon
<1>6. DOMAIN f.evaluable = S
  BY <1>3, <1>4, Zenon
<1>7. \A x \in DOMAIN f.evaluable : f.evaluable[x] = sc.verdicts[x[1]][x[2]].evaluable
  BY <1>3, <1>4, <1>6, Zenon
<1>. QED
  BY <1>4, <1>5, <1>6, <1>7, Zenon DEF TellsOf, P, S, T

\* Once event time has passed a tick, the items up to it have arrived.
LEMMA PerfAgrees ==
  ASSUME NEW sc, IsScenario(sc), NEW td, NEW t \in Nat, Over(td, t), NEW d \in Devices
  PROVE  {i \in Items(Arrived(sc, td, "perf"), Arrived(sc, td, "contexts"), d) : i.ts <= t}
           = {i \in PerfItems(sc, d) : i.ts <= t}
<1>. DEFINE P == Streams(sc)["perf"]
            C == Streams(sc)["contexts"]
            A == Arrived(sc, td, "perf")
            B == Arrived(sc, td, "contexts")
<1>1. /\ \A e \in P : e.at = e.ts /\ e.ts \in Nat
      /\ \A e \in C : e.at = e.ts /\ e.ts \in Nat
      /\ Items(P, C, d) = PerfItems(sc, d)
  BY PerfElements
<1>2. A \subseteq P /\ B \subseteq C
  BY DEF Arrived
<1>3. (\A e \in P : e.ts <= t => e \in A) /\ (\A e \in C : e.ts <= t => e \in B)
  <2>1. (\A x \in td["perf"] : x.at > t) /\ (\A x \in td["contexts"] : x.at > t)
    BY DEF Over, Lanes
  <2>. HIDE DEF P, C
  <2>2. ASSUME NEW e \in P, e.ts <= t
        PROVE  e \in A
    BY <1>1, <2>1, <2>2 DEF Arrived, P
  <2>3. ASSUME NEW e \in C, e.ts <= t
        PROVE  e \in B
    BY <1>1, <2>1, <2>3 DEF Arrived, C
  <2>. QED  BY <2>2, <2>3
<1>4. \A e : PerfItem(e).ts = e.ts /\ ScoreItem(e).ts = e.ts
  BY DEF PerfItem, ScoreItem
<1>. HIDE DEF P, C, A, B
<1>5. \A i : i \in Items(A, B, d) => i \in Items(P, C, d)
  BY <1>2, Zenon DEF Items
<1>6. ASSUME NEW i \in Items(P, C, d), i.ts <= t
      PROVE  i \in Items(A, B, d)
  <2>1. CASE \E e \in {x \in P : x.device = d} : i = PerfItem(e)
    <3>1. PICK e \in P : e.device = d /\ i = PerfItem(e)
      BY <2>1, Zenon
    <3>2. e \in A
      BY <3>1, <1>3, <1>4, <1>6, Zenon
    <3>. QED  BY <3>1, <3>2, Zenon DEF Items
  <2>2. CASE \E e \in {x \in C : x.device = d} : i = ScoreItem(e)
    <3>1. PICK e \in C : e.device = d /\ i = ScoreItem(e)
      BY <2>2, Zenon
    <3>2. e \in B
      BY <3>1, <1>3, <1>4, <1>6, Zenon
    <3>. QED  BY <3>1, <3>2, Zenon DEF Items
  <2>. QED  BY <2>1, <2>2, Zenon DEF Items
<1>7. {i \in Items(A, B, d) : i.ts <= t} = {i \in Items(P, C, d) : i.ts <= t}
  BY <1>5, <1>6
<1>. QED
  BY <1>1, <1>7, Zenon DEF A, B

\* What the tables and the operator's memory say of a day.
SameDay(inp, f, d, day) ==
  /\ Evaluable(inp, d, day) <=> Evaluable(f, d, day)
  /\ \A ch \in Active : DataDev(inp, d, day, ch) <=> DataDev(f, d, day, ch)

\* Once event time has passed the end of a day, its record is the offline one.
LEMMA DaysAgree ==
  ASSUME NEW sc, IsScenario(sc), NEW td, NEW t \in Nat, Over(td, t),
         NEW inp, HeardDays(sc, inp.days, inp.evaluable, Arrived(sc, td, "records")),
         NEW f, f = Facts(sc), NEW d \in Devices, NEW day \in Int, DayStart(day + 1) <= t
  PROVE  SameDay(inp, f, d, day)
<1>. DEFINE R == Arrived(sc, td, "records")
            Keys == DayKeys(sc)
            Pairs == {<<k[1], k[2]>> : k \in DayKeys(sc)}
            Verd == sc.verdicts[d][day].evaluable
            at == <<d, day>>
<1>1. /\ DOMAIN f.days = Keys /\ DOMAIN f.evaluable = Pairs
      /\ \A k \in Keys : f.days[k].deviated = Verdict(sc, k)
      /\ \A x \in Pairs : f.evaluable[x] = sc.verdicts[x[1]][x[2]].evaluable
  <2>1. TellsOf(f, sc)
    BY FactsFields
  <2>. QED  BY <2>1, Zenon DEF TellsOf
<1>2. ASSUME NEW ch, <<d, day, ch>> \in Keys
      PROVE  Record(sc, <<d, day, ch>>) \in R
  <2>. DEFINE k == <<d, day, ch>>
  <2>0. k \in Keys
    BY <1>2
  <2>1. k[2] = day
    OBVIOUS
  <2>. HIDE DEF k
  <2>2. Record(sc, k).at = DayStart(day + 1)
    BY <2>0, <2>1, RecordFields
  <2>3. Record(sc, k) \in Streams(sc)["records"]
    BY <2>0, DayElements
  <2>4. DayStart(day + 1) \in Int
    BY DaysInOrder
  <2>5. \A x \in td["records"] : x.at > t
    BY DEF Over, Lanes
  <2>6. Record(sc, k) \notin td["records"]
    BY <2>2, <2>4, <2>5
  <2>. QED  BY <2>3, <2>6 DEF Arrived, k
<1>3. ASSUME NEW ch \in Active
      PROVE  DataDev(inp, d, day, ch) <=> DataDev(f, d, day, ch)
  <2>. DEFINE k == <<d, day, ch>>
  <2>1. CASE k \in Keys
    <3>1. RecordKey(Record(sc, k)) = k /\ Record(sc, k).deviated = Verdict(sc, k)
      BY <2>1, RecordFields
    <3>2. k \in DOMAIN inp.days /\ inp.days[k].deviated = Record(sc, k).deviated
      BY <3>1, <2>1, <1>2, ZenonT(40) DEF HeardDays
    <3>3. inp.days[k].deviated = f.days[k].deviated /\ k \in DOMAIN f.days
      BY <3>1, <3>2, <2>1, <1>1, Zenon
    <3>. QED  BY <3>2, <3>3, Zenon DEF DataDev
  <2>2. CASE k \notin Keys
    BY <2>2, <1>1, Zenon DEF DataDev, HeardDays
  <2>. QED  BY <2>1, <2>2
<1>4. CASE at \in Pairs
  <2>1. PICK j \in Keys : at = <<j[1], j[2]>>
    BY <1>4, Zenon
  <2>2. j[1] = d /\ j[2] = day
    BY <2>1
  <2>3. \A ch \in Channels : <<j[1], j[2], ch>> \in Keys
    BY DEF DayKeys
  <2>. HIDE DEF Keys
  <2>4. \A ch \in Channels : Record(sc, <<j[1], j[2], ch>>) \in R
    BY <2>2, <2>3, <1>2, Zenon
  <2>5. at \in DOMAIN inp.evaluable /\ inp.evaluable[at] = Verd
    <3>1. /\ <<j[1], j[2]>> \in DOMAIN inp.evaluable
          /\ inp.evaluable[<<j[1], j[2]>>] = sc.verdicts[j[1]][j[2]].evaluable
      BY <2>4, Zenon DEF HeardDays, Keys
    <3>. QED  BY <3>1, <2>2, Zenon
  <2>6. f.evaluable[at] = Verd
    <3>1. at[1] = d /\ at[2] = day
      OBVIOUS
    <3>. QED  BY <3>1, <1>1, <1>4, Zenon
  <2>7. Evaluable(inp, d, day) <=> Evaluable(f, d, day)
    BY <2>5, <2>6, <1>1, <1>4, Zenon DEF Evaluable
  <2>. QED  BY <2>7, <1>3, Zenon DEF SameDay
<1>5. CASE at \notin Pairs
  <2>1. ~Evaluable(inp, d, day) /\ ~Evaluable(f, d, day)
    BY <1>5, <1>1, Zenon DEF Evaluable, HeardDays
  <2>. QED  BY <2>1, <1>3, Zenon DEF SameDay
<1>. QED
  BY <1>4, <1>5

\* The rows of the hour that ends at the tick.
LEMMA RowsAgree ==
  ASSUME NEW sc, IsScenario(sc), NEW td, NEW hours, NEW p \in Nat,
         HeardHours(hours, Arrived(sc, td, "rounds"), p),
         NEW t, t = (p + 1) * Hour, Over(td, t), NEW d \in Devices
  PROVE  HasReadings(hours, d, t - Hour) <=> d \in RowsAt(sc, t - Hour)
<1>. DEFINE w == p * Hour
            A == Arrived(sc, td, "rounds")
            S == Streams(sc)["rounds"]
<1>1. w \in Int /\ w >= p * Hour /\ t = w + Hour /\ t \in Nat /\ t - Hour = w
  BY DEF Hour
<1>2. HasReadings(hours, d, w) <=> \E r \in A : r.device = d /\ WindowOf(r.ts) = w
  BY <1>1, Zenon DEF HeardHours
<1>3. /\ \A e \in S : e.at = e.ts /\ e.ts \in Nat
      /\ d \in RowsAt(sc, w) <=> \E r \in S : r.device = d /\ WindowOf(r.ts) = w
  BY RoundElements
<1>4. ASSUME NEW r \in S, WindowOf(r.ts) = w
      PROVE  r \in A
  <2>. DEFINE ts == r.ts
              q == ts \div 4
  <2>1. ts \in Nat /\ r.at = ts
    BY <1>3
  <2>. HIDE DEF ts
  <2>2. q \in Int /\ ts < q * 4 + 4
    BY <2>1
  <2>3. q * 4 = w
    BY <1>4 DEF WindowOf, Hour, ts
  <2>. HIDE DEF q, w
  <2>4. ts < t
    BY <2>1, <2>2, <2>3, <1>1 DEF Hour
  <2>5. \A x \in td["rounds"] : x.at > t
    BY DEF Over, Lanes
  <2>6. r \notin td["rounds"]
    BY <2>1, <2>4, <2>5, <1>1
  <2>. QED  BY <2>6 DEF Arrived
<1>5. A \subseteq S
  BY DEF Arrived
<1>. HIDE DEF A, S
<1>6. (\E r \in A : r.device = d /\ WindowOf(r.ts) = w) <=> \E r \in S : r.device = d /\ WindowOf(r.ts) = w
  BY <1>4, <1>5, Zenon
<1>. QED
  BY <1>1, <1>2, <1>3, <1>6, Zenon

\* What the assembler hands to the decision function.
Handed(as, t) == [as.inp EXCEPT !.hours = [x \in InWindow(@, t - Hour) |-> @[x]]]

HandedBy(inp, as, t) ==
  /\ inp.timing = as.inp.timing /\ inp.perf = as.inp.perf
  /\ inp.days = as.inp.days /\ inp.evaluable = as.inp.evaluable
  /\ DOMAIN inp.hours = InWindow(as.inp.hours, t - Hour)

\* What the assembler hands to a tick.
LEMMA HandedFields ==
  ASSUME NEW as, IsAsm(as), NEW t, NEW inp, inp = Handed(as, t)
  PROVE  HandedBy(inp, as, t)
<1>. DEFINE W == InWindow(as.inp.hours, t - Hour)
            h == as.inp.hours
            O == [x \in W |-> h[x]]
<1>1. inp = [as.inp EXCEPT !.hours = O]
  BY Zenon DEF Handed
<1>2. DOMAIN O = W
  BY Zenon
<1>. HIDE DEF O, W, h
<1>3. /\ inp.timing = as.inp.timing /\ inp.perf = as.inp.perf
      /\ inp.days = as.inp.days /\ inp.evaluable = as.inp.evaluable /\ inp.hours = O
  BY <1>1 DEF IsAsm
<1>4. DOMAIN inp.hours = W
  BY <1>2, <1>3, Zenon
<1>. QED
  BY <1>3, <1>4, Zenon DEF W, h, HandedBy

\* At t the operator's memory tells what the scenario tells.
SameView(inp, sc, t) ==
  /\ SameFacts(inp, Facts(sc), DecisionAt(t))
  /\ {d \in Devices : HasRow(inp, d, t - Hour)} = RowsAt(sc, t - Hour)

\* Once event time has passed a tick, what it is handed agrees with the offline facts.
LEMMA TickAgrees ==
  ASSUME NEW sc, IsScenario(sc), NEW td, NEW as, NEW p \in Nat, Heard(sc, td, as, p),
         NEW t, t = (p + 1) * Hour, t <= LastTick, Over(td, t), NEW inp, inp = Handed(as, t)
  PROVE  SameView(inp, sc, t)
<1>. DEFINE f == Facts(sc)
            c == DecisionAt(t)
            A == Arrived(sc, td, "perf")
            B == Arrived(sc, td, "contexts")
<1>0. t \in Nat /\ t >= 1
  BY DEF Hour
<1>1. c.t = t
  BY <1>0, DecisionDays
<1>2. IsAsm(as) /\ as.inp.timing = sc.timing /\ as.inp.perf = [d \in Devices |-> Items(A, B, d)]
      /\ HeardHours(as.inp.hours, Arrived(sc, td, "rounds"), p)
      /\ HeardDays(sc, as.inp.days, as.inp.evaluable, Arrived(sc, td, "records"))
  BY Zenon DEF Heard
<1>3. /\ inp.timing = as.inp.timing /\ inp.perf = as.inp.perf
      /\ inp.days = as.inp.days /\ inp.evaluable = as.inp.evaluable
      /\ DOMAIN inp.hours = InWindow(as.inp.hours, t - Hour)
  <2>1. HandedBy(inp, as, t)
    BY <1>2, HandedFields
  <2>. QED  BY <2>1, Zenon DEF HandedBy
<1>4. f.timing = sc.timing /\ f.perf = [d \in Devices |-> PerfItems(sc, d)]
  <2>1. TellsOf(f, sc)
    BY FactsFields
  <2>. QED  BY <2>1, Zenon DEF TellsOf
<1>40. f = Facts(sc)
  OBVIOUS
<1>. HIDE DEF f, c, A, B
<1>5. ASSUME NEW d \in Devices
      PROVE  {x \in inp.perf[d] : x.ts <= c.t} = {x \in f.perf[d] : x.ts <= c.t}
  <2>1. inp.perf[d] = Items(A, B, d) /\ f.perf[d] = PerfItems(sc, d)
    BY <1>2, <1>3, <1>4
  <2>2. {x \in Items(A, B, d) : x.ts <= t} = {x \in PerfItems(sc, d) : x.ts <= t}
    BY <1>0, PerfAgrees DEF A, B
  <2>. QED  BY <2>1, <2>2, <1>1, ZenonT(40)
<1>6. ASSUME NEW d \in Devices, NEW day \in Int, DayStart(day + 1) <= c.t
      PROVE  /\ Evaluable(inp, d, day) <=> Evaluable(f, d, day)
             /\ \A ch \in Active : DataDev(inp, d, day, ch) <=> DataDev(f, d, day, ch)
  <2>1. HeardDays(sc, inp.days, inp.evaluable, Arrived(sc, td, "records"))
    BY <1>2, <1>3
  <2>2. DayStart(day + 1) <= t
    BY <1>1, <1>6
  <2>3. SameDay(inp, f, d, day)
    BY <1>0, <1>40, <2>1, <2>2, DaysAgree
  <2>. QED  BY <2>3, Zenon DEF SameDay
<1>7. SameFacts(inp, f, c)
  BY <1>2, <1>3, <1>4, <1>5, <1>6, Zenon DEF SameFacts
<1>8. ASSUME NEW d \in Devices
      PROVE  HasRow(inp, d, t - Hour) <=> d \in RowsAt(sc, t - Hour)
  <2>1. HasRow(inp, d, t - Hour) <=> HasReadings(as.inp.hours, d, t - Hour)
    <3>. DEFINE k == <<d, t - Hour>>
    <3>1. k[2] = t - Hour
      OBVIOUS
    <3>. QED  BY <3>1, <1>3, Zenon DEF HasRow, HasReadings, InWindow
  <2>2. HasReadings(as.inp.hours, d, t - Hour) <=> d \in RowsAt(sc, t - Hour)
    BY <1>2, RowsAgree
  <2>. QED  BY <2>1, <2>2, Zenon
<1>9. \A d : d \in RowsAt(sc, t - Hour) => d \in Devices
  BY DEF RowsAt
<1>. DEFINE T == RowsAt(sc, t - Hour)
            w == t - Hour
<1>. HIDE DEF T, w
<1>10. {d \in Devices : HasRow(inp, d, w)} = T
  BY <1>8, <1>9, Zenon DEF T, w
<1>. QED
  BY <1>7, <1>10, Zenon DEF f, c, T, w, SameView

\* After the tick the assembler knows of the windows that are left.
HeardTick(sc, td, done, step, p) ==
  Heard(sc, td, done.asm, p) /\ done.asm.books = step.books /\ done.out = step.out

\* A tick leaves the assembler in step with what has arrived.
LEMMA TickHeard ==
  ASSUME NEW sc, NEW td, NEW as, NEW p \in Nat, Heard(sc, td, as, p),
         NEW t, t = (p + 1) * Hour, NEW inp, inp = Handed(as, t),
         NEW step, step = TickAt(as.books, inp, t), NEW done, done = Tick(as, t)
  PROVE  HeardTick(sc, td, done, step, p + 1)
<1>. DEFINE hs == t - Hour
            h == as.inp.hours
            W == StillOpen(h, hs)
            O == [x \in W |-> h[x]]
            I == [as.inp EXCEPT !.hours = O]
            B == step.books
            U == step.out
            S == {x \in as.seen : x[2] >= hs}
            b == done.asm
            R == Arrived(sc, td, "rounds")
<1>1. done = [asm |-> [inp |-> I, books |-> B, seen |-> S], out |-> U]
  <2>1. done = Swept(as, hs, step)
    BY Zenon DEF Tick, Handed
  <2>. HIDE DEF hs
  <2>. QED  BY <2>1, Zenon DEF Swept
<1>2. IsAsm(as) /\ HeardHours(h, R, p)
  BY Zenon DEF Heard
<1>3. hs = p * Hour /\ hs \in Int /\ (p + 1) * Hour = hs + Hour
  BY DEF Hour
<1>4. DOMAIN O = W /\ (\A x \in W : O[x] = h[x]) /\ W \subseteq DOMAIN h
  BY Zenon DEF StillOpen
<1>5. HeardHours(O, R, p + 1)
  <2>1. \A x \in DOMAIN O : IsRow(O[x])
    BY <1>2, <1>4, Zenon DEF HeardHours
  <2>2. ASSUME NEW d \in Devices, NEW w \in Int, w >= (p + 1) * Hour
        PROVE  HasReadings(O, d, w) <=> \E r \in R : r.device = d /\ WindowOf(r.ts) = w
    <3>1. w >= p * Hour /\ w > hs
      BY <2>2, <1>3 DEF Hour
    <3>2. HasReadings(h, d, w) <=> \E r \in R : r.device = d /\ WindowOf(r.ts) = w
      BY <3>1, <1>2, Zenon DEF HeardHours
    <3>3. <<d, w>> \in DOMAIN h <=> <<d, w>> \in W
      <4>. DEFINE k == <<d, w>>
      <4>1. k[2] = w
        OBVIOUS
      <4>. HIDE DEF k, hs
      <4>2. k \in DOMAIN h <=> k \in W
        BY <4>1, <3>1, Zenon DEF StillOpen
      <4>. QED  BY <4>2, Zenon DEF k
    <3>. QED  BY <3>2, <3>3, <1>4, Zenon DEF HasReadings
  <2>. QED  BY <2>1, <2>2, Zenon DEF HeardHours
<1>. HIDE DEF O, W, hs, B, U, S
<1>6. /\ DOMAIN I = DOMAIN as.inp /\ I.timing = as.inp.timing /\ I.perf = as.inp.perf
      /\ I.days = as.inp.days /\ I.evaluable = as.inp.evaluable /\ I.hours = O
  BY <1>2 DEF IsAsm
<1>. HIDE DEF I
<1>7. b.inp = I /\ b.books = B /\ DOMAIN b = {"inp", "books", "seen"} /\ done.out = U
  <2>. DEFINE M == [inp |-> I, books |-> B, seen |-> S]
  <2>1. M.inp = I /\ M.books = B /\ DOMAIN M = {"inp", "books", "seen"}
    OBVIOUS
  <2>2. done = [asm |-> M, out |-> U]
    BY <1>1, Zenon
  <2>. HIDE DEF M
  <2>3. done.asm = M /\ done.out = U
    BY ONLY <2>2
  <2>. QED  BY <2>1, <2>3, Zenon
<1>8. IsAsm(b)
  BY <1>2, <1>6, <1>7 DEF IsAsm
<1>9. /\ b.inp.timing = as.inp.timing /\ b.inp.perf = as.inp.perf /\ b.inp.hours = O
      /\ b.inp.days = as.inp.days /\ b.inp.evaluable = as.inp.evaluable
  BY <1>6, <1>7, Zenon
<1>. HIDE DEF b
<1>10. Heard(sc, td, b, p + 1)
  BY <1>5, <1>8, <1>9, Zenon DEF Heard
<1>. QED
  BY <1>7, <1>10, Zenon DEF b, B, U, HeardTick

--------------------------------------------------------------------------------
(* The operator follows the history of its scenario. *)

\* A history G of m ticks, one more than H.
Longer(G, H, sc, n, m) ==
  /\ IsHistory(G, sc, m) /\ \A k \in 0..n : G[k] = H[k]
  /\ CommandsIn(G, sc, m) = CommandsIn(H, sc, n) \cup Core(G, sc, m).out

\* A history can be carried on by an hour.
LEMMA HistoryMore ==
  ASSUME NEW sc, NEW n \in Nat, NEW H, IsHistory(H, sc, n)
  PROVE  \E G : Longer(G, H, sc, n, n + 1)
<1>. DEFINE m == n + 1
            last == CoreTick(H[n], sc, m * Hour)
            G == [k \in 0..m |-> IF k = m THEN last.books ELSE H[k]]
<1>1. m \in Nat /\ n \in 0..m /\ m \in 0..m /\ n # m /\ n = m - 1
  OBVIOUS
<1>2. /\ \A k \in 0..n : k \in 0..m /\ k # m
      /\ \A k \in 1..n : k \in 0..n /\ k - 1 \in 0..n /\ k \in 1..m
      /\ \A k \in 1..m : k = m \/ k \in 1..n
      /\ m \in 1..m /\ 0 \in 0..n
  OBVIOUS
<1>. HIDE DEF m
<1>. HIDE DEF last
<1>3. G[m] = last.books /\ \A k \in 0..n : G[k] = H[k]
  BY <1>1, <1>2
<1>. HIDE DEF G
<1>4. Core(G, sc, m) = last
  <2>1. G[m - 1] = H[n]
    <3>1. n \in 0..n
      OBVIOUS
    <3>. QED  BY <1>1, <1>3, <3>1
  <2>. QED  BY <2>1, Zenon DEF Core, last
<1>5. ASSUME NEW k \in 1..n
      PROVE  Core(G, sc, k) = Core(H, sc, k)
  <2>1. G[k - 1] = H[k - 1]
    BY <1>2, <1>3, Zenon
  <2>. QED  BY <2>1, Zenon DEF Core
<1>6. IsHistory(G, sc, m)
  <2>1. G[0] = EmptyBooks
    BY <1>2, <1>3, Zenon DEF IsHistory
  <2>2. ASSUME NEW k \in 1..m
        PROVE  G[k] = Core(G, sc, k).books
    <3>1. CASE k = m
      BY <3>1, <1>3, <1>4, Zenon
    <3>2. CASE k \in 1..n
      BY <3>2, <1>2, <1>3, <1>5, Zenon DEF IsHistory
    <3>. QED  BY <3>1, <3>2, <1>2, Zenon
  <2>. QED  BY <2>1, <2>2, Zenon DEF IsHistory
<1>7. ASSUME NEW r
      PROVE  r \in CommandsIn(G, sc, m) <=> r \in CommandsIn(H, sc, n) \cup Core(G, sc, m).out
  <2>1. r \in CommandsIn(G, sc, m) <=> \E k \in 1..m : r \in Core(G, sc, k).out
    BY Zenon DEF CommandsIn
  <2>2. r \in CommandsIn(H, sc, n) <=> \E k \in 1..n : r \in Core(H, sc, k).out
    BY Zenon DEF CommandsIn
  <2>. QED  BY <2>1, <2>2, <1>2, <1>5, Zenon
<1>. DEFINE C == CommandsIn(G, sc, m)
            D == CommandsIn(H, sc, n) \cup Core(G, sc, m).out
<1>8. C = D
  <2>1. \A r : r \in C <=> r \in D
    BY <1>7, Zenon
  <2>. HIDE DEF C, D
  <2>. QED  BY <2>1
<1>. QED
  BY <1>3, <1>6, <1>8, Zenon DEF m, C, D, Longer

\* The operator stands p ticks into the history: what it has heard is what the
\* scenario says of that time, and its books are those of the history.
StandsAt(sc, H, p, td, as) == Heard(sc, td, as, p) /\ IsBooks(as.books) /\ Same(as.books, H[p])

\* What a tick puts out, and what it leaves behind.
Follows(sc, H, p, td, done) ==
  /\ StandsAt(sc, H, p, td, done.asm)
  /\ \A r : (r \in done.out /\ r.type = "command") <=> r \in Core(H, sc, p).out

\* An operator that stands at an hour of the history stands at the next one after its tick.
LEMMA TickFollows ==
  ASSUME NEW sc, IsScenario(sc), NEW H, NEW n \in Nat, IsHistory(H, sc, n), n * Hour <= LastTick,
         NEW p \in 0..(n - 1), NEW td, NEW as, StandsAt(sc, H, p, td, as),
         NEW t, t = (p + 1) * Hour, Over(td, t), NEW done, done = Tick(as, t)
  PROVE  Follows(sc, H, p + 1, td, done)
<1>. DEFINE inp == Handed(as, t)
            step == TickAt(as.books, inp, t)
            rows == RowsAt(sc, t - Hour)
            f == Facts(sc)
            c == DecisionAt(t)
            core == CoreOn(H[p], f, rows, c)
            q == p + 1
<1>1. q \in 1..n /\ p = q - 1 /\ p \in Nat /\ p \in 0..n /\ q \in 0..n /\ t = q * Hour
  OBVIOUS
<1>2. t \in Nat /\ t >= Hour /\ t <= LastTick
  BY <1>1, TickInRange
<1>3. Heard(sc, td, as, p) /\ IsBooks(as.books) /\ Same(as.books, H[p])
  BY Zenon DEF StandsAt
<1>4. IsBooks(H[p])
  BY <1>1, HistoryTyped DEF TypedBooks
<1>5. /\ SameFacts(inp, f, c)
      /\ {d \in Devices : HasRow(inp, d, t - Hour)} = rows
  <2>1. inp = Handed(as, t)
    OBVIOUS
  <2>. HIDE DEF inp
  <2>2. SameView(inp, sc, t)
    BY <1>1, <1>2, <1>3, <2>1, TickAgrees
  <2>. QED  BY <2>2, Zenon DEF SameView
<1>6. Heard(sc, td, done.asm, q) /\ done.asm.books = step.books /\ done.out = step.out
  <2>1. inp = Handed(as, t) /\ step = TickAt(as.books, inp, t)
    OBVIOUS
  <2>. HIDE DEF inp, step, q
  <2>2. HeardTick(sc, td, done, step, p + 1)
    BY <1>1, <1>3, <2>1, TickHeard
  <2>. QED  BY <2>2, Zenon DEF HeardTick, q
<1>7. core = Core(H, sc, q)
  BY <1>1, Zenon DEF Core, CoreTick
<1>8. /\ IsBooks(step.books) /\ Same(step.books, core.books)
      /\ \A r : (r \in step.out /\ r.type = "command") <=> r \in core.out
  <2>1. /\ step = TickAt(as.books, inp, t) /\ core = CoreOn(H[p], f, rows, c)
        /\ c = DecisionAt(t)
    OBVIOUS
  <2>. DEFINE h == H[p]
              bk == as.books
  <2>. HIDE DEF inp, rows, f, c, step, core, h, bk
  <2>2. SameTick(step, core)
    BY <1>2, <1>3, <1>4, <1>5, <2>1, TickSame DEF h, bk
  <2>. QED  BY <2>2, Zenon DEF SameTick
<1>. HIDE DEF inp, rows, f
<1>. HIDE DEF step, core, q
<1>9. H[q] = core.books
  BY <1>1, <1>7, Zenon DEF IsHistory
<1>10. StandsAt(sc, H, q, td, done.asm)
  BY <1>6, <1>8, <1>9, Zenon DEF StandsAt
<1>. QED
  BY <1>6, <1>7, <1>8, <1>10, Zenon DEF Follows, q

--------------------------------------------------------------------------------
(* The inductive invariant: the operator that runs, and the one a restart    *)
(* would bring back, both stand somewhere in one history of the scenario, as *)
(* long as the ticks that have fired; and its commands are out.              *)

StandsIn(sc, H, n, td, as, nx) ==
  \E p \in 0..n : /\ StandsAt(sc, H, p, td, as)
                  /\ nx = (p + 1) * Hour \/ (nx = NoTick /\ p = 0)

InHistory(H, n) ==
  /\ n * Hour <= LastTick /\ reached = n * Hour
  /\ IsHistory(H, scenario, n) /\ Commands = CommandsIn(H, scenario, n)
  /\ StandsIn(scenario, H, n, todo, asm, next)
  /\ ckpt # NoCheckpoint => StandsIn(scenario, H, n, ckpt.todo, ckpt.asm, ckpt.next)

FleetInv ==
  /\ scenario \in Scenarios
  /\ \E n \in Nat : \E H : InHistory(H, n)

\* Every element has an event time that is a natural number.
LEMMA ElementTimes ==
  ASSUME NEW sc, IsScenario(sc), NEW lane \in Lanes
  PROVE  \A x \in Streams(sc)[lane] : x.at \in Nat
<1>1. \A day \in Nat : DayStart(day + 1) \in Nat
  <2>. TAKE day \in Nat
  <2>1. 1 \in Nat /\ day + 1 \in Nat /\ 1 <= day + 1 /\ day + 1 \in Int
    OBVIOUS
  <2>2. DayStart(1) = 0 /\ DayStart(1) <= DayStart(day + 1) /\ DayStart(day + 1) \in Int
    BY <2>1, DaysInOrder
  <2>. QED  BY <2>2
<1>2. CASE lane = "rounds"
  BY <1>2, RoundElements
<1>3. CASE lane \in {"contexts", "perf"}
  BY <1>3, PerfElements
<1>4. CASE lane = "outliers"
  <2>. DEFINE O == {[at |-> o.we, device |-> o.device, ts |-> o.ts] :
                       o \in {x \in sc.outliers : x.we - Slide <= x.ts /\ x.ts < x.we}}
  <2>1. Streams(sc)["outliers"] = O
    BY DEF Streams
  <2>2. \A o \in sc.outliers : o.we \in Nat
    BY DEF IsScenario
  <2>3. \A x \in O : x.at \in Nat
    BY <2>2
  <2>. QED  BY <1>4, <2>1, <2>3
<1>5. CASE lane = "records"
  <2>1. \A key \in DayKeys(sc) : Record(sc, key).at = DayStart(key[2] + 1) /\ key[2] \in Nat
    BY DEF DayKeys, Record
  <2>. QED  BY <1>1, <1>5, <2>1, DayElements
<1>6. CASE lane = "dataEvents"
  <2>. DEFINE B == {[at |-> b.emitted, kind |-> "BURST", device |-> b.device, ts |-> b.ts] : b \in sc.bursts}
              E == UNION {DayEvents(sc, x[1], x[2]) : x \in Devices \X Channels}
  <2>1. Streams(sc).dataEvents = B \cup E
    BY StreamLanes
  <2>2. \A x \in B : x.at \in Nat
    <3>1. \A b \in sc.bursts : b.emitted \in Nat
      BY DEF IsScenario
    <3>. QED  BY <3>1
  <2>3. ASSUME NEW e \in E
        PROVE  e.at \in Nat
    <3>1. PICK y \in Devices \X Channels : e \in DayEvents(sc, y[1], y[2])
      OBVIOUS
    <3>. DEFINE d == y[1]
                ch == y[2]
                st == EndState(sc.verdicts[d], ch, LastDay)
                T(day) == IF st[day] THEN "DEVIATE" ELSE "RECOVER"
    <3>2. \E day \in {x \in DOMAIN sc.verdicts[d] : st[x] # st[x - 1]} :
            e = [at |-> DayStart(day + 1), kind |-> "DAY", device |-> d, day |-> day, ch |-> ch,
                 transition |-> T(day)]
      BY <3>1, Zenon DEF DayEvents
    <3>3. \A x \in DOMAIN sc.verdicts[d] : x \in Nat
      BY DEF IsScenario
    <3>. HIDE DEF d, ch, st, T
    <3>4. \E day \in Nat : e.at = DayStart(day + 1)
      BY <3>2, <3>3
    <3>. QED  BY <1>1, <3>4
  <2>. HIDE DEF B, E
  <2>4. \A x \in B \cup E : x.at \in Nat
    BY <2>2, <2>3
  <2>. QED  BY <1>6, <2>1, <2>4
<1>. QED
  BY <1>2, <1>3, <1>4, <1>5, <1>6 DEF Lanes

\* The first element of what is still to come is one of it.
LEMMA FirstIsOne ==
  ASSUME NEW sc, IsScenario(sc), NEW lane \in Lanes, NEW S, S \subseteq Streams(sc)[lane], S # {}
  PROVE  First(S) \in S
<1>. DEFINE T == {x.at : x \in S}
<1>1. \A x \in S : x.at \in Nat
  BY ElementTimes
<1>2. T \in SUBSET Nat /\ T # {}
  BY <1>1
<1>3. \A x \in S : x.at \in T
  OBVIOUS
<1>4. \A m \in T : \E x \in S : m = x.at
  OBVIOUS
<1>. HIDE DEF T
<1>5. PICK m \in T : \A x \in T : m <= x
  BY <1>2, LeastExists
<1>6. \E x \in S : \A y \in S : x.at <= y.at
  BY <1>3, <1>4, <1>5, Zenon
<1>. QED
  BY <1>6, Zenon DEF First

\* Nothing has arrived yet.
LEMMA NothingHeard ==
  ASSUME NEW sc
  PROVE  /\ Heard(sc, Streams(sc), EmptyAssembler(sc.timing), 0)
         /\ EmptyAssembler(sc.timing).books = EmptyBooks
<1>. DEFINE td == Streams(sc)
            as == EmptyAssembler(sc.timing)
            i == as.inp
<1>1. DOMAIN td = Lanes
  BY StreamLanes
<1>. HIDE DEF td
<1>2. \A lane : Arrived(sc, td, lane) = {}
  BY DEF Arrived, td
<1>3. /\ as.inp = EmptyInputs(sc.timing) /\ as.books = EmptyBooks
      /\ DOMAIN as = {"inp", "books", "seen"}
  BY DEF EmptyAssembler
<1>. HIDE DEF as
<1>4. /\ i.timing = sc.timing /\ i.perf = [d \in Devices |-> {}]
      /\ DOMAIN i.hours = {} /\ DOMAIN i.days = {} /\ DOMAIN i.evaluable = {}
      /\ DOMAIN i = {"timing", "hours", "perf", "days", "evaluable", "bursts", "refs", "freeze"}
  BY <1>3 DEF EmptyInputs
<1>5. IsAsm(as)
  BY <1>3, <1>4 DEF IsAsm
<1>6. i.perf = [d \in Devices |-> Items(Arrived(sc, td, "perf"), Arrived(sc, td, "contexts"), d)]
  <2>1. ASSUME NEW d
        PROVE  Items({}, {}, d) = {}
    BY DEF Items
  <2>. QED  BY <2>1, <1>2, <1>4
<1>7. HeardHours(i.hours, {}, 0)
  BY <1>4 DEF HeardHours, HasReadings
<1>8. HeardDays(sc, i.days, i.evaluable, {})
  <2>1. \A key \in DayKeys(sc) : \E ch : ch \in Channels
    BY DEF DayKeys
  <2>. QED  BY <2>1, <1>4, Zenon DEF HeardDays
<1>9. \A lane \in Lanes : td[lane] \subseteq Streams(sc)[lane]
  BY DEF td
<1>10. Heard(sc, td, as, 0)
  BY <1>1, <1>2, <1>4, <1>5, <1>6, <1>7, <1>8, <1>9, Zenon DEF Heard
<1>. QED
  BY <1>3, <1>10 DEF td, as

\* The invariant holds initially.
LEMMA InitFleet ==
  ASSUME Init
  PROVE  FleetInv
<1>. DEFINE sc == scenario
            H == [k \in {0} |-> EmptyBooks]
<1>1. /\ sc \in Scenarios /\ todo = Streams(sc) /\ asm = EmptyAssembler(sc.timing)
      /\ next = NoTick /\ ckpt = NoCheckpoint /\ published = {} /\ reached = 0
  BY DEF Init
<1>. HIDE DEF sc
<1>2. IsHistory(H, sc, 0)
  BY DEF IsHistory
<1>3. H[0] = EmptyBooks
  OBVIOUS
<1>. HIDE DEF H
<1>4. StandsAt(sc, H, 0, todo, asm)
  <2>1. IsBooks(EmptyBooks)
    BY EmptyTyped DEF TypedBooks
  <2>2. Same(EmptyBooks, EmptyBooks)
    BY DEF Same
  <2>3. Heard(sc, todo, asm, 0) /\ asm.books = EmptyBooks
    BY <1>1, NothingHeard
  <2>. QED  BY <2>1, <2>2, <2>3, <1>3, Zenon DEF StandsAt
<1>5. StandsIn(sc, H, 0, todo, asm, next)
  <2>1. 0 \in 0..0
    OBVIOUS
  <2>. QED  BY <2>1, <1>1, <1>4, Zenon DEF StandsIn
<1>6. Commands = CommandsIn(H, sc, 0)
  <2>1. \A k : k \notin 1..0
    OBVIOUS
  <2>2. CommandsIn(H, sc, 0) = {}
    BY <2>1, Zenon DEF CommandsIn
  <2>. QED  BY <2>2, <1>1 DEF Commands
<1>7. 0 * Hour <= LastTick /\ reached = 0 * Hour
  BY <1>1, DaysInOrder, ParamsAssumption DEF LastTick, Hour
<1>8. InHistory(H, 0)
  BY <1>1, <1>2, <1>5, <1>6, <1>7, Zenon DEF InHistory, sc
<1>. QED
  BY <1>1, <1>8, Zenon DEF FleetInv, sc

\* An element arrives.
LEMMA StandsAccept ==
  ASSUME NEW sc, IsScenario(sc), NEW H, NEW p \in Nat, NEW td, NEW as, StandsAt(sc, H, p, td, as),
         NEW lane \in Lanes, NEW x \in td[lane], NEW td2, Taken(td, td2, lane, x),
         NEW b, b = Accept(as, lane, x)
  PROVE  StandsAt(sc, H, p, td2, b)
<1>1. Heard(sc, td, as, p) /\ IsBooks(as.books) /\ Same(as.books, H[p])
  BY Zenon DEF StandsAt
<1>2. StillHeard(sc, td2, as, b, p)
  BY <1>1, AcceptHeard
<1>3. Heard(sc, td2, b, p) /\ b.books = as.books
  BY <1>2, Zenon DEF StillHeard
<1>. QED
  BY <1>1, <1>3, Zenon DEF StandsAt

\* The scenario of a state is one of the scenarios.
LEMMA ScenarioOf ==
  ASSUME FleetInv
  PROVE  scenario \in Scenarios /\ IsScenario(scenario)
BY ScenariosAssumption DEF FleetInv

\* What is still to come is part of the scenario's streams.
LEMMA StandsLanes ==
  ASSUME NEW sc, NEW H, NEW p, NEW td, NEW as, StandsAt(sc, H, p, td, as)
  PROVE  DOMAIN td = Lanes /\ \A lane \in Lanes : td[lane] \subseteq Streams(sc)[lane]
BY Zenon DEF StandsAt, Heard

\* An element accepted keeps the invariant.
LEMMA ElementFleet ==
  ASSUME FleetInv, NEW lane \in DOMAIN todo, ProcessElement(lane)
  PROVE  FleetInv'
<1>. DEFINE x == First(todo[lane])
            sc == scenario
<1>1. scenario \in Scenarios /\ IsScenario(sc)
  BY ScenarioOf
<1>2. /\ todo[lane] # {}
      /\ IF next = NoTick THEN lane = "rounds" /\ x.at < Hour ELSE x.at <= Timer + Ahead
      /\ todo' = [todo EXCEPT ![lane] = @ \ {x}] /\ asm' = Accept(asm, lane, x)
      /\ next' = IF next = NoTick THEN WindowOf(x.at) + Hour ELSE next
      /\ scenario' = sc /\ ckpt' = ckpt /\ published' = published /\ reached' = reached
  BY DEF ProcessElement
<1>30. PICK n \in Nat : \E H : InHistory(H, n)
  BY Zenon DEF FleetInv
<1>3. PICK H : InHistory(H, n)
  BY <1>30
<1>4. /\ n * Hour <= LastTick /\ reached = n * Hour
      /\ IsHistory(H, sc, n) /\ Commands = CommandsIn(H, sc, n)
      /\ StandsIn(sc, H, n, todo, asm, next)
      /\ ckpt # NoCheckpoint => StandsIn(sc, H, n, ckpt.todo, ckpt.asm, ckpt.next)
  BY <1>3, Zenon DEF InHistory
<1>5. PICK p \in 0..n : StandsAt(sc, H, p, todo, asm) /\ (next = (p + 1) * Hour \/ (next = NoTick /\ p = 0))
  BY <1>4, Zenon DEF StandsIn
<1>6. lane \in Lanes /\ todo[lane] \subseteq Streams(sc)[lane]
  BY <1>5, StandsLanes
<1>7. x \in todo[lane] /\ x \in Streams(sc)[lane]
  <2>. DEFINE S == todo[lane]
  <2>1. S \subseteq Streams(sc)[lane] /\ S # {}
    BY <1>2, <1>6
  <2>. HIDE DEF S
  <2>2. First(S) \in S
    BY <1>1, <1>6, <2>1, FirstIsOne
  <2>. QED  BY <2>1, <2>2, Zenon DEF S
<1>. HIDE DEF x, sc
<1>8. StandsAt(sc, H, p, todo', asm')
  <2>1. Taken(todo, todo', lane, x)
    BY <1>2, Zenon DEF Taken
  <2>2. p \in Nat
    OBVIOUS
  <2>. QED  BY <1>1, <1>2, <1>5, <1>6, <1>7, <2>1, <2>2, StandsAccept
<1>9. next' = (p + 1) * Hour \/ (next' = NoTick /\ p = 0)
  <2>1. CASE next # NoTick
    BY <2>1, <1>2, <1>5
  <2>2. CASE next = NoTick
    <3>1. p = 0
      BY <2>2, <1>5 DEF NoTick, Hour
    <3>2. x.at \in Nat
      BY <1>1, <1>6, <1>7, ElementTimes
    <3>3. x.at < Hour /\ next' = WindowOf(x.at) + Hour
      BY <2>2, <1>2
    <3>. DEFINE ts == x.at
                q == ts \div 4
    <3>. HIDE DEF ts
    <3>4. q = 0
      BY <3>2, <3>3 DEF Hour, ts
    <3>5. WindowOf(x.at) = q * 4
      BY DEF WindowOf, Hour, ts
    <3>. HIDE DEF q
    <3>. QED  BY <3>1, <3>3, <3>4, <3>5 DEF Hour
  <2>. QED  BY <2>1, <2>2
<1>10. StandsIn(sc, H, n, todo', asm', next')
  BY <1>8, <1>9, Zenon DEF StandsIn
<1>11. Commands' = Commands
  BY <1>2 DEF Commands
<1>12. InHistory(H, n)'
  BY <1>2, <1>4, <1>10, <1>11, Zenon DEF InHistory, sc
<1>. QED
  BY <1>1, <1>2, <1>12, Zenon DEF FleetInv, sc

\* A checkpoint stores where the operator stands; a restart brings it back.
LEMMA CheckpointFleet ==
  ASSUME FleetInv, Checkpoint
  PROVE  FleetInv'
<1>. DEFINE c == [todo |-> todo, asm |-> asm, next |-> next]
<1>1. /\ ckpt' = c
      /\ UNCHANGED <<scenario, offline, todo, asm, next, published, reached, restarts>>
  BY DEF Checkpoint
<1>2. c.todo = todo /\ c.asm = asm /\ c.next = next
  OBVIOUS
<1>. HIDE DEF c
<1>30. PICK n \in Nat : \E H : InHistory(H, n)
  BY Zenon DEF FleetInv
<1>3. PICK H : InHistory(H, n)
  BY <1>30
<1>4. Commands' = Commands
  BY <1>1 DEF Commands
<1>5. InHistory(H, n)'
  BY <1>1, <1>2, <1>3, <1>4, Zenon DEF InHistory
<1>. QED
  BY <1>1, <1>5, Zenon DEF FleetInv

\* A restart keeps the invariant.
LEMMA RestartFleet ==
  ASSUME FleetInv, Restart
  PROVE  FleetInv'
<1>1. /\ ckpt # NoCheckpoint /\ todo' = ckpt.todo /\ asm' = ckpt.asm /\ next' = ckpt.next
      /\ ckpt' \in {ckpt, NoCheckpoint}
      /\ UNCHANGED <<scenario, offline, published, reached>>
  BY DEF Restart
<1>20. PICK n \in Nat : \E H : InHistory(H, n)
  BY Zenon DEF FleetInv
<1>2. PICK H : InHistory(H, n)
  BY <1>20
<1>3. Commands' = Commands
  BY <1>1 DEF Commands
<1>4. InHistory(H, n)'
  BY <1>1, <1>2, <1>3, Zenon DEF InHistory
<1>. QED
  BY <1>1, <1>4, Zenon DEF FleetInv

\* A timer that fires while the operator stands p ticks into a history G.
LEMMA TimerFollows ==
  ASSUME NEW sc, IsScenario(sc), NEW G, NEW m \in Nat, IsHistory(G, sc, m), m * Hour <= LastTick,
         NEW p \in 0..(m - 1), StandsAt(sc, G, p, todo, asm), next = (p + 1) * Hour, OnTimer
  PROVE  /\ StandsIn(sc, G, m, todo', asm', next')
         /\ Commands' = Commands \cup Core(G, sc, p + 1).out
<1>. DEFINE done == Tick(asm, next)
            q == p + 1
<1>1. /\ Mature /\ asm' = done.asm /\ published' = published \cup done.out
      /\ next' = next + Hour /\ todo' = todo
  BY DEF OnTimer
<1>2. Over(todo, next)
  <2>1. DOMAIN todo = Lanes /\ \A lane \in Lanes : todo[lane] \subseteq Streams(sc)[lane]
    BY StandsLanes
  <2>2. next \in Int
    BY DEF Hour
  <2>3. ASSUME NEW lane \in Lanes, NEW x \in todo[lane]
        PROVE  x.at > next
    <3>1. x.at \in Nat
      BY <2>1, ElementTimes
    <3>2. x.at > next + Slide
      BY <1>1, <2>1 DEF Mature, Timer
    <3>. QED  BY <2>2, <3>1, <3>2 DEF Slide
  <2>. QED  BY <2>3 DEF Over
<1>3. done = Tick(asm, next)
  OBVIOUS
<1>4. /\ q \in 0..m /\ next = q * Hour /\ next' = (q + 1) * Hour
  BY <1>1 DEF Hour
<1>. HIDE DEF done, q
<1>5. Follows(sc, G, p + 1, todo, done)
  BY <1>2, <1>3, TickFollows
<1>6. /\ StandsAt(sc, G, q, todo, done.asm)
      /\ \A r : (r \in done.out /\ r.type = "command") <=> r \in Core(G, sc, q).out
  BY <1>5, Zenon DEF Follows, q
<1>7. StandsAt(sc, G, q, todo', asm')
  BY <1>1, <1>6
<1>8. StandsIn(sc, G, m, todo', asm', next')
  BY <1>4, <1>7, Zenon DEF StandsIn
<1>9. Commands' = Commands \cup Core(G, sc, q).out
  <2>. DEFINE out == done.out
              C == Core(G, sc, q).out
  <2>1. \A r : (r \in out /\ r.type = "command") <=> r \in C
    BY <1>6
  <2>2. published' = published \cup out
    BY <1>1
  <2>. HIDE DEF out, C
  <2>3. Commands' = Commands \cup C
    BY <2>1, <2>2 DEF Commands
  <2>. QED  BY <2>3 DEF C
<1>. QED
  BY <1>8, <1>9 DEF q

\* What stands in a history stands in a longer one.
LEMMA StandsLonger ==
  ASSUME NEW sc, NEW n \in Nat, NEW m \in Nat, n <= m, NEW H, NEW G, \A k \in 0..n : G[k] = H[k],
         NEW td, NEW as, NEW nx, StandsIn(sc, H, n, td, as, nx)
  PROVE  StandsIn(sc, G, m, td, as, nx)
<1>1. PICK p \in 0..n : StandsAt(sc, H, p, td, as) /\ (nx = (p + 1) * Hour \/ (nx = NoTick /\ p = 0))
  BY Zenon DEF StandsIn
<1>2. p \in 0..m /\ G[p] = H[p]
  OBVIOUS
<1>3. StandsAt(sc, G, p, td, as)
  BY <1>1, <1>2, Zenon DEF StandsAt
<1>. QED
  BY <1>1, <1>2, <1>3, Zenon DEF StandsIn

\* A tick keeps the invariant.
LEMMA TimerFleet ==
  ASSUME FleetInv, OnTimer
  PROVE  FleetInv'
<1>. DEFINE sc == scenario
<1>1. scenario \in Scenarios /\ IsScenario(sc)
  BY ScenarioOf
<1>2. /\ next # NoTick /\ next <= LastTick
      /\ scenario' = sc /\ ckpt' = ckpt
      /\ reached' = IF next > reached THEN next ELSE reached
  BY DEF OnTimer
<1>. HIDE DEF sc
<1>30. PICK n \in Nat : \E H : InHistory(H, n)
  BY Zenon DEF FleetInv
<1>3. PICK H : InHistory(H, n)
  BY <1>30
<1>4. /\ n * Hour <= LastTick /\ reached = n * Hour
      /\ IsHistory(H, sc, n) /\ Commands = CommandsIn(H, sc, n)
      /\ StandsIn(sc, H, n, todo, asm, next)
      /\ ckpt # NoCheckpoint => StandsIn(sc, H, n, ckpt.todo, ckpt.asm, ckpt.next)
  BY <1>3, Zenon DEF InHistory, sc
<1>5. PICK p \in 0..n : StandsAt(sc, H, p, todo, asm) /\ next = (p + 1) * Hour
  BY <1>2, <1>4, Zenon DEF StandsIn
\* A tick that has fired before: its commands are out already.
<1>6. CASE p < n
  <2>1. p \in 0..(n - 1) /\ p + 1 \in 1..n
    BY <1>6
  <2>2. /\ StandsIn(sc, H, n, todo', asm', next')
        /\ Commands' = Commands \cup Core(H, sc, p + 1).out
    BY <1>1, <1>4, <1>5, <2>1, TimerFollows
  <2>3. Commands' = Commands
    <3>1. Core(H, sc, p + 1).out \subseteq CommandsIn(H, sc, n)
      BY <2>1, Zenon DEF CommandsIn
    <3>. QED  BY <1>4, <2>2, <3>1
  <2>4. reached' = reached
    BY <1>2, <1>4, <1>5, <2>1 DEF Hour
  <2>5. InHistory(H, n)'
    BY <1>2, <1>4, <2>2, <2>3, <2>4, Zenon DEF InHistory
  <2>. QED  BY <1>1, <1>2, <2>5, Zenon DEF FleetInv, sc
\* A new tick: the history grows by it.
<1>7. CASE p = n
  <2>. DEFINE m == n + 1
  <2>1. m \in Nat /\ n <= m /\ p \in 0..(m - 1) /\ p + 1 = m /\ next = m * Hour
    BY <1>5, <1>7
  <2>2. PICK G : /\ IsHistory(G, sc, m) /\ \A k \in 0..n : G[k] = H[k]
                 /\ CommandsIn(G, sc, m) = CommandsIn(H, sc, n) \cup Core(G, sc, m).out
    <3>1. IsHistory(H, sc, n)
      BY <1>4
    <3>2. \E G : Longer(G, H, sc, n, m)
      BY <3>1, HistoryMore
    <3>. QED  BY <3>2, Zenon DEF Longer
  <2>. HIDE DEF m
  <2>3. StandsIn(sc, G, m, todo, asm, next)
    BY <1>4, <2>1, <2>2, StandsLonger
  <2>4. StandsAt(sc, G, p, todo, asm)
    <3>1. G[p] = H[p]
      BY <2>2
    <3>. QED  BY <1>5, <3>1, Zenon DEF StandsAt
  <2>5. m * Hour <= LastTick
    BY <1>2, <2>1
  <2>6. /\ StandsIn(sc, G, m, todo', asm', next')
        /\ Commands' = Commands \cup Core(G, sc, p + 1).out
    BY <1>1, <1>5, <2>1, <2>2, <2>4, <2>5, TimerFollows
  <2>7. Commands' = CommandsIn(G, sc, m)
    BY <1>4, <2>1, <2>2, <2>6, Zenon
  <2>8. reached' = m * Hour
    BY <1>2, <1>4, <2>1 DEF Hour
  <2>9. ckpt # NoCheckpoint => StandsIn(sc, G, m, ckpt.todo, ckpt.asm, ckpt.next)
    <3>1. ASSUME NEW td, NEW as, NEW nx, StandsIn(sc, H, n, td, as, nx)
          PROVE  StandsIn(sc, G, m, td, as, nx)
      BY <2>1, <2>2, <3>1, StandsLonger
    <3>. QED  BY <1>4, <3>1, Zenon
  <2>10. InHistory(G, m)'
    BY <1>2, <2>2, <2>5, <2>6, <2>7, <2>8, <2>9, Zenon DEF InHistory
  <2>. QED  BY <1>1, <1>2, <2>1, <2>10, Zenon DEF FleetInv, sc
<1>. QED
  BY <1>6, <1>7

\* Every step keeps the invariant.
LEMMA NextFleet ==
  ASSUME FleetInv, [Next]_vars
  PROVE  FleetInv'
<1>1. ASSUME UNCHANGED vars
      PROVE  FleetInv'
  <2>1. /\ scenario' = scenario /\ todo' = todo /\ asm' = asm /\ next' = next
        /\ ckpt' = ckpt /\ published' = published /\ reached' = reached
    BY <1>1 DEF vars
  <2>2. Commands' = Commands
    BY <2>1 DEF Commands
  <2>3. ASSUME NEW n \in Nat, NEW H, InHistory(H, n)
        PROVE  InHistory(H, n)'
    BY <2>1, <2>2, <2>3, Zenon DEF InHistory
  <2>. QED  BY <2>1, <2>3, Zenon DEF FleetInv
<1>2. ASSUME NEW lane \in DOMAIN todo, ProcessElement(lane)
      PROVE  FleetInv'
  BY <1>2, ElementFleet
<1>. QED
  BY <1>1, <1>2, TimerFleet, CheckpointFleet, RestartFleet, Zenon DEF Next, Complete

\* The state of the decision operator, and of the checkpoint, is at any time
\* that of one and the same history of the scenario, in which neither the order
\* of arrival nor a restart occurs; and exactly its commands are out.
THEOREM FleetInvariant == Spec => []FleetInv
<1>1. Init => FleetInv
  BY InitFleet
<1>2. FleetInv /\ [Next]_vars => FleetInv'
  BY NextFleet
<1>. QED
  BY <1>1, <1>2, PTL DEF Spec

\* Whatever the order in which the streams arrive, wherever a checkpoint is
\* taken and after a restart: while a trigger class has an open episode it is in
\* the drift book of its device (FleetDecisionFunction's episodes and drift).
THEOREM FleetBooksAgree == Spec => []BooksAgree
<1>1. FleetInv => BooksAgree
  <2>1. SUFFICES ASSUME FleetInv  PROVE BooksAgree
    OBVIOUS
  <2>20. PICK n \in Nat : \E H : InHistory(H, n)
    BY <2>1, Zenon DEF FleetInv
  <2>2. PICK H : InHistory(H, n)
    BY <2>20
  <2>3. IsScenario(scenario)
    BY <2>1, ScenarioOf
  <2>4. PICK p \in 0..n : StandsAt(scenario, H, p, todo, asm)
    BY <2>2, Zenon DEF InHistory, StandsIn
  <2>5. TypedBooks(H[p])
    <3>1. n * Hour <= LastTick /\ IsHistory(H, scenario, n)
      BY <2>2, Zenon DEF InHistory
    <3>. QED  BY <2>3, <3>1, HistoryTyped
  <2>6. OpenIsDrift(asm.books.episode, asm.books.drift)
    BY <2>4, <2>5, Zenon DEF StandsAt, Same, TypedBooks
  <2>. QED  BY <2>6, Zenon DEF BooksAgree, OpenIsDrift
<1>. QED
  BY <1>1, FleetInvariant, PTL

\* The commands that have been published for a device are numbered without a gap
\* in the order of their decisions, no number twice, and one follows another
\* only when the day after it took effect is over - also when a restart puts out
\* again what was out before.
THEOREM FleetCommandsAreApart == Spec => []CommandsAreApart
<1>1. FleetInv => CommandsAreApart
  <2>1. SUFFICES ASSUME FleetInv  PROVE CommandsAreApart
    OBVIOUS
  <2>20. PICK n \in Nat : \E H : InHistory(H, n)
    BY <2>1, Zenon DEF FleetInv
  <2>2. PICK H : InHistory(H, n)
    BY <2>20
  <2>3. IsScenario(scenario)
    BY <2>1, ScenarioOf
  <2>4. n * Hour <= LastTick /\ IsHistory(H, scenario, n) /\ Commands = CommandsIn(H, scenario, n)
    BY <2>2, Zenon DEF InHistory
  <2>5. Apart(Commands)
    BY <2>3, <2>4, HistoryApart
  <2>. QED  BY <2>5, Zenon DEF Apart, CommandsAreApart
<1>. QED
  BY <1>1, FleetInvariant, PTL

--------------------------------------------------------------------------------
(* The two-state machine of the days. *)

\* The state after the day, from the one before.
After(vs, ch, day, prev) == IF day \in DOMAIN vs /\ Crosses(vs[day], ch, prev) THEN ~prev ELSE prev

Walks(s, vs, ch, n) ==
  /\ s \in [0..n -> BOOLEAN] /\ s[0] = FALSE
  /\ \A day \in 1..n : s[day] = After(vs, ch, day, s[day - 1])

\* States can be followed day by day.
LEMMA WalkExists ==
  ASSUME NEW vs, NEW ch, NEW n \in Nat
  PROVE  \E s : Walks(s, vs, ch, n)
<1>. DEFINE Some == {k \in 0..n : \E s : Walks(s, vs, ch, k)}
<1>1. 0 \in Some
  <2>. DEFINE s == [i \in 0..0 |-> FALSE]
  <2>1. Walks(s, vs, ch, 0)
    BY DEF Walks
  <2>. HIDE DEF s
  <2>. QED  BY <2>1
<1>2. ASSUME NEW k \in 1..n, k - 1 \in Some
      PROVE  k \in Some
  <2>1. PICK s : Walks(s, vs, ch, k - 1)
    BY <1>2
  <2>. DEFINE b == After(vs, ch, k, s[k - 1])
              r == [i \in 0..k |-> IF i = k THEN b ELSE s[i]]
  <2>2. /\ s \in [0..(k - 1) -> BOOLEAN] /\ s[0] = FALSE
        /\ \A day \in 1..(k - 1) : s[day] = After(vs, ch, day, s[day - 1])
    BY <2>1 DEF Walks
  <2>3. k \in Nat /\ k # 0 /\ k - 1 \in 0..(k - 1)
        /\ (\A i \in 0..k : i # k => i \in 0..(k - 1))
        /\ (\A i \in 1..k : i # k => i \in 1..(k - 1) /\ i - 1 # k)
        /\ (\A i \in 1..k : i \in 0..k /\ i - 1 \in 0..k /\ i - 1 # k)
    OBVIOUS
  <2>4. s[k - 1] \in BOOLEAN
    BY <2>2, <2>3
  <2>5. b \in BOOLEAN
    BY <2>4, Zenon DEF After
  <2>6. r \in [0..k -> BOOLEAN]
    <3>. HIDE DEF b
    <3>. QED  BY <2>2, <2>3, <2>5
  <2>7. r[0] = FALSE
    BY <2>2, <2>3
  <2>8. ASSUME NEW day \in 1..k
        PROVE  r[day] = After(vs, ch, day, r[day - 1])
    <3>1. r[day - 1] = s[day - 1]
      BY <2>3
    <3>2. CASE day = k
      <4>. HIDE DEF b
      <4>1. r[day] = b
        BY <2>3, <3>2
      <4>. HIDE DEF r
      <4>. QED  BY <4>1, <3>1, <3>2, Zenon DEF b
    <3>3. CASE day # k
      <4>. HIDE DEF b
      <4>1. r[day] = s[day]
        BY <2>3, <3>3
      <4>2. day \in 1..(k - 1)
        BY <2>3, <3>3
      <4>. HIDE DEF r
      <4>. QED  BY <2>2, <4>1, <4>2, <3>1, Zenon
    <3>. QED  BY <3>2, <3>3
  <2>. HIDE DEF r
  <2>9. Walks(r, vs, ch, k)
    BY <2>6, <2>7, <2>8, Zenon DEF Walks
  <2>. QED  BY <2>9
<1>. HIDE DEF Some
<1>3. \A i \in 0..n : i \in Some
  BY <1>1, <1>2, EachUpTo
<1>4. n \in Some
  BY <1>3
<1>. QED
  BY <1>4 DEF Some

\* EndState follows the states day by day.
LEMMA EndStateWalks ==
  ASSUME NEW vs, NEW ch, NEW n \in Nat
  PROVE  Walks(EndState(vs, ch, n), vs, ch, n)
<1>. DEFINE Step(f, d) == d # 0 /\ After(vs, ch, d, f[d - 1])
            end == CHOOSE f : f = [d \in 0..n |-> Step(f, d)]
<1>1. EndState(vs, ch, n) = end
  BY DEF EndState, After
<1>2. PICK s : Walks(s, vs, ch, n)
  BY WalkExists
<1>3. s = [d \in 0..n |-> Step(s, d)]
  <2>1. s = [d \in 0..n |-> s[d]] /\ s[0] = FALSE /\ \A d \in 0..n : s[d] \in BOOLEAN
    BY <1>2 DEF Walks
  <2>2. ASSUME NEW d \in 0..n
        PROVE  s[d] = Step(s, d)
    <3>1. CASE d = 0
      BY <2>1, <3>1
    <3>2. CASE d # 0
      <4>1. d \in 1..n
        BY <3>2
      <4>2. s[d] = After(vs, ch, d, s[d - 1])
        BY <1>2, <4>1, Zenon DEF Walks
      <4>3. s[d] \in BOOLEAN
        BY <2>1
      <4>. QED  BY <3>2, <4>2, <4>3, Zenon
    <3>. QED  BY <3>1, <3>2
  <2>. QED  BY <2>1, <2>2
<1>4. end = [d \in 0..n |-> Step(end, d)]
  BY <1>3, Zenon
<1>. HIDE DEF end
<1>5. \A d \in 0..n : end[d] = Step(end, d)
  BY <1>4, Zenon
<1>6. end[0] = FALSE
  <2>1. end[0] = Step(end, 0)
    BY <1>5
  <2>. QED  BY <2>1
<1>7. ASSUME NEW d \in 1..n, end[d - 1] \in BOOLEAN
      PROVE  end[d] \in BOOLEAN /\ end[d] = After(vs, ch, d, end[d - 1])
  <2>1. d \in 0..n /\ d # 0
    OBVIOUS
  <2>2. After(vs, ch, d, end[d - 1]) \in BOOLEAN
    BY <1>7, Zenon DEF After
  <2>3. end[d] = (d # 0 /\ After(vs, ch, d, end[d - 1]))
    BY <1>5, <2>1, Zenon
  <2>. QED  BY <2>1, <2>2, <2>3, Zenon
<1>8. \A d \in 0..n : end[d] \in BOOLEAN
  <2>. DEFINE S == {d \in 0..n : end[d] \in BOOLEAN}
  <2>1. 0 \in S
    <3>1. 0 \in 0..n
      OBVIOUS
    <3>2. end[0] \in BOOLEAN
      BY <1>6, Zenon
    <3>. QED  BY <3>1, <3>2
  <2>2. \A d \in 1..n : d - 1 \in S => d \in S
    BY <1>7
  <2>. HIDE DEF S
  <2>3. \A d \in 0..n : d \in S
    BY <2>1, <2>2, EachUpTo
  <2>. QED  BY <2>3 DEF S
<1>9. \A d \in 1..n : end[d] = After(vs, ch, d, end[d - 1])
  <2>1. \A d \in 1..n : d - 1 \in 0..n
    OBVIOUS
  <2>. QED  BY <1>7, <1>8, <2>1
<1>10. end \in [0..n -> BOOLEAN]
  BY <1>4, <1>8
<1>. QED
  BY <1>1, <1>6, <1>9, <1>10, Zenon DEF Walks

--------------------------------------------------------------------------------
(* Data drift and its commands: what the verdicts of two days lead to.      *)

Deviated(sc, d, ch, day) == EndState(sc.verdicts[d], ch, LastDay)[day]
HasRecord(sc, d, day) == day \in DOMAIN sc.verdicts[d]

\* The states of a channel change on evaluable days only.
LEMMA DeviatedFacts ==
  ASSUME NEW sc, NEW d, NEW ch
  PROVE  /\ \A day \in 0..LastDay : Deviated(sc, d, ch, day) \in BOOLEAN
         /\ ~ Deviated(sc, d, ch, 0)
         /\ \A day \in 1..LastDay :
              \/ Deviated(sc, d, ch, day) = Deviated(sc, d, ch, day - 1)
              \/ HasRecord(sc, d, day) /\ sc.verdicts[d][day].evaluable
<1>. DEFINE vs == sc.verdicts[d]
            s == EndState(vs, ch, LastDay)
<1>1. LastDay \in Nat
  BY ParamsAssumption
<1>. HIDE DEF vs
<1>2. Walks(s, vs, ch, LastDay)
  BY <1>1, EndStateWalks
<1>. HIDE DEF s
<1>3. \A day \in 0..LastDay : s[day] \in BOOLEAN
  BY <1>2 DEF Walks
<1>4. ~ s[0]
  BY <1>2, Zenon DEF Walks
<1>5. ASSUME NEW day \in 1..LastDay
      PROVE  s[day] = s[day - 1] \/ (day \in DOMAIN vs /\ vs[day].evaluable)
  <2>1. s[day] = After(vs, ch, day, s[day - 1])
    BY <1>2, Zenon DEF Walks
  <2>. QED  BY <2>1, Zenon DEF After, Crosses
<1>. QED
  BY <1>3, <1>4, <1>5, Zenon DEF Deviated, HasRecord, s, vs

\* What the facts of a scenario say of a day.
LEMMA FactsDays ==
  ASSUME NEW sc, IsScenario(sc), NEW d \in Devices, NEW ch \in Active, NEW day
  PROVE  /\ DataDev(Facts(sc), d, day, ch) <=> HasRecord(sc, d, day) /\ Deviated(sc, d, ch, day)
         /\ Evaluable(Facts(sc), d, day) <=> HasRecord(sc, d, day) /\ sc.verdicts[d][day].evaluable
<1>. DEFINE f == Facts(sc)
            key == <<d, day, ch>>
<1>1. TellsOf(f, sc)
  BY FactsFields
<1>. HIDE DEF f
<1>2. ch \in Channels
  BY ChannelAssumption
<1>3. HasRecord(sc, d, day) => day \in 1..LastDay
  BY DEF IsScenario, HasRecord
<1>4. key \in DayKeys(sc) <=> HasRecord(sc, d, day)
  BY <1>2, <1>3 DEF DayKeys, HasRecord
<1>5. DataDev(f, d, day, ch) <=> key \in DayKeys(sc) /\ Verdict(sc, key)
  BY <1>1, Zenon DEF TellsOf, DataDev
<1>6. Verdict(sc, key) = Deviated(sc, d, ch, day)
  BY DEF Verdict, Deviated
<1>7. <<d, day>> \in DOMAIN f.evaluable <=> HasRecord(sc, d, day)
  <2>1. DOMAIN f.evaluable = {<<k[1], k[2]>> : k \in DayKeys(sc)}
    BY <1>1, Zenon DEF TellsOf
  <2>2. ASSUME HasRecord(sc, d, day)
        PROVE  <<d, day>> \in DOMAIN f.evaluable
    <3>1. key \in DayKeys(sc) /\ key[1] = d /\ key[2] = day
      BY <1>4, <2>2
    <3>. HIDE DEF key
    <3>. QED  BY <2>1, <3>1
  <2>3. ASSUME <<d, day>> \in DOMAIN f.evaluable
        PROVE  HasRecord(sc, d, day)
    <3>1. PICK k \in DayKeys(sc) : <<d, day>> = <<k[1], k[2]>>
      BY <2>1, <2>3
    <3>2. k[1] = d /\ k[2] = day
      BY <3>1
    <3>. QED  BY <3>2 DEF DayKeys, HasRecord
  <2>. QED  BY <2>2, <2>3
<1>8. <<d, day>> \in DOMAIN f.evaluable => f.evaluable[<<d, day>>] = sc.verdicts[d][day].evaluable
  <2>1. \A x \in DOMAIN f.evaluable : f.evaluable[x] = sc.verdicts[x[1]][x[2]].evaluable
    BY <1>1, Zenon DEF TellsOf
  <2>2. <<d, day>>[1] = d /\ <<d, day>>[2] = day
    OBVIOUS
  <2>. QED  BY <2>1, <2>2
<1>. QED
  BY <1>4, <1>5, <1>6, <1>7, <1>8, Zenon DEF Evaluable, f

\* The boundary that ends a day is a tick of the calendar.
LEMMA BoundaryOfDay ==
  ASSUME NEW day \in 1..LastDay, NEW t, t = DayStart(day + 1)
  PROVE  /\ t \in Nat /\ t >= Hour /\ t <= LastTick /\ \E k \in Nat : t = k * Hour
         /\ DecisionAt(t).day = day /\ DecisionAt(t).boundary
<1>1. LastDay \in Nat /\ day \in Nat /\ day >= 1 /\ day <= LastDay
  BY ParamsAssumption
<1>2. /\ DayStart(1) = 0 /\ DayStart(day) \in Int /\ DayStart(1) <= DayStart(day)
      /\ DayStart(day) + Hour <= DayStart(day + 1) /\ DayStart(day + 1) \in Int
      /\ DayStart(day + 1) <= DayStart(LastDay + 1)
  <2>1. 1 \in Nat /\ day + 1 \in Nat /\ LastDay + 1 \in Nat /\ day + 1 <= LastDay + 1 /\ day \in Int
        /\ day + 1 \in Int
    BY <1>1
  <2>. QED  BY <1>1, <2>1, DaysInOrder
<1>3. t \in Nat /\ t >= Hour /\ t <= LastTick
  BY <1>2 DEF Hour, LastTick
<1>4. \E k \in Nat : t = k * Hour
  <2>. DEFINE S == {e \in ShortDays : e < day + 1}
              p == (day + 1 - 1) * HoursPerDay
  <2>1. Cardinality(S) \in Nat
    BY CalendarAssumption, FS_Subset, FS_CardinalityType
  <2>2. p \in Int
    BY <1>1, CalendarAssumption
  <2>3. t = (p - Cardinality(S)) * Hour
    BY DEF DayStart
  <2>. HIDE DEF S, p
  <2>. DEFINE m == p - Cardinality(S)
  <2>4. m \in Int /\ t = m * Hour
    BY <2>1, <2>2, <2>3
  <2>. HIDE DEF m
  <2>5. m \in Nat
    BY <1>3, <2>4 DEF Hour
  <2>. QED  BY <2>4, <2>5
<1>5. LDay(t - 1) = day
  <2>. DEFINE e == LDay(t - 1)
  <2>1. t - 1 \in Nat /\ t - 1 < DayStart(LastDay + 4)
    <3>1. /\ DayStart(LastDay + 1) <= DayStart(LastDay + 4)
          /\ DayStart(LastDay + 1) \in Int /\ DayStart(LastDay + 4) \in Int
      <4>1. /\ LastDay + 1 \in Nat /\ LastDay + 4 \in Nat /\ LastDay + 1 <= LastDay + 4
            /\ LastDay + 1 \in Int /\ LastDay + 4 \in Int
        BY <1>1
      <4>. QED  BY <4>1, DaysInOrder
    <3>. QED  BY <1>2, <1>3, <3>1 DEF Hour
  <2>2. e \in 1..(LastDay + 3) /\ DayStart(e) <= t - 1 /\ t - 1 < DayStart(e + 1)
    BY <2>1, LocalDayExists
  <2>. HIDE DEF e
  <2>3. e \in Nat /\ e + 1 \in Nat /\ day + 1 \in Nat /\ DayStart(e) \in Int /\ DayStart(e + 1) \in Int
    BY <1>1, <2>2, DaysInOrder
  <2>4. ~ (e < day)
    <3>1. e + 1 <= day => DayStart(e + 1) <= DayStart(day)
      BY <1>1, <2>3, DaysInOrder
    <3>. QED  BY <1>1, <1>2, <2>2, <2>3, <3>1 DEF Hour
  <2>5. ~ (day < e)
    <3>1. day + 1 <= e => DayStart(day + 1) <= DayStart(e)
      BY <1>1, <2>3, DaysInOrder
    <3>. QED  BY <1>1, <1>2, <2>2, <2>3, <3>1
  <2>6. e = day
    BY <1>1, <2>3, <2>4, <2>5
  <2>. QED  BY <2>6 DEF e
<1>6. DecisionAt(t) = [t |-> t, day |-> day, boundary |-> t = DayStart(day + 1)]
  BY <1>5, Zenon DEF DecisionAt, DecisionOn
<1>7. DecisionAt(t).day = day
  BY <1>6
<1>8. DecisionAt(t).boundary = (t = DayStart(day + 1))
  BY <1>6
<1>. QED
  BY <1>3, <1>4, <1>7, <1>8

\* A tick that is a boundary ends a day of the run.
LEMMA DayOfBoundary ==
  ASSUME NEW t \in Nat, t >= 1, t <= LastTick, DecisionAt(t).boundary
  PROVE  DecisionAt(t).day \in 1..LastDay /\ t = DayStart(DecisionAt(t).day + 1)
<1>. DEFINE c == DecisionAt(t)
            day == LDay(t - 1)
<1>1. c.t = t /\ c.day \in 1..(LastDay + 3)
  BY DecisionDays
<1>2. c = [t |-> t, day |-> day, boundary |-> t = DayStart(day + 1)]
  BY Zenon DEF DecisionAt, DecisionOn
<1>. HIDE DEF c, day
<1>3. c.day = day
  BY <1>2
<1>4. c.boundary = (t = DayStart(day + 1))
  BY <1>2
<1>5. t = DayStart(c.day + 1)
  BY <1>3, <1>4, Zenon DEF c
<1>6. LastDay \in Nat /\ c.day \in Nat
  BY <1>1, ParamsAssumption
<1>7. ~ (c.day >= LastDay + 1)
  <2>1. SUFFICES ASSUME c.day >= LastDay + 1  PROVE FALSE
    OBVIOUS
  <2>2. LastDay + 1 \in Nat /\ LastDay + 1 \in Int /\ c.day \in Int
    BY <1>6
  <2>3. /\ DayStart(LastDay + 1) <= DayStart(c.day) /\ DayStart(c.day) \in Int
        /\ DayStart(c.day) + Hour <= DayStart(c.day + 1) /\ DayStart(LastDay + 1) \in Int
        /\ DayStart(c.day + 1) \in Int
    <3>1. c.day + 1 \in Int
      BY <1>6
    <3>. QED  BY <1>6, <2>1, <2>2, <3>1, DaysInOrder
  <2>. QED  BY <1>5, <2>3 DEF LastTick, Hour
<1>. QED
  BY <1>1, <1>5, <1>6, <1>7 DEF c

\* A command of the tick at t tells device d of class k.
Tells(core, d, k, t) == \E r \in core.out : r.device = d /\ k \in r.triggers /\ r.at = t

\* What a tick makes of a data class: an episode that is open afterwards was open before
\* and has not ended, or is told of now; and two days running are told of, unless the
\* device cools down or the episode is open.
DataClass(h, f, c, core, d, ch) ==
  /\ core.books.episode[d][ch] > 0 =>
       \/ /\ h.episode[d][ch] > 0
          /\ ~ (c.boundary /\ Evaluable(f, d, c.day) /\ ~ DataDev(f, d, c.day, ch))
       \/ c.boundary /\ DataDev(f, d, c.day, ch) /\ Tells(core, d, ch, c.t)
  /\ c.boundary /\ Evaluable(f, d, c.day) /\ DataDev(f, d, c.day, ch) /\ DataDev(f, d, c.day - 1, ch) =>
       \/ h.cooldown[d] > c.t \/ core.books.episode[d][ch] > 0 \/ Tells(core, d, ch, c.t)

LEMMA CmdDataClass ==
  ASSUME NEW h, TypedBooks(h), NEW f, NEW c, c.t \in Nat, CooldownUntil(f, c.t) \in Nat,
         NEW core, core = CmdTick(h, f, c), NEW d \in Devices, NEW ch \in Active
  PROVE  DataClass(h, f, c, core, d, ch)
<1>. DEFINE b == Observed(h, Devices, f.perf, c.t)
            fallen == [x \in Devices |-> Fallen(f, b, x, c)]
            e == Ended(b, fallen)
            found == [x \in Devices |-> Persistent(f, e, x, c)]
            present == Present(f, c)
            devs == Commanded(f, e, found, c.t)
            fresh == FreshClasses(f, e, found, d)
<1>0. IsBooks(h) /\ ch \in Triggers /\ ch # "perf"
  BY TriggerAssumption DEF TypedBooks, Triggers
<1>1. core = Issued(f, e, c, found, present, devs)
  BY <1>0, CmdStages
<1>2. IsBooks(b) /\ TypedBooks(b) /\ b.cooldown = h.cooldown /\ b.episode = h.episode
  BY <1>0, ObservedTyped, ObservedKeeps
<1>. HIDE DEF b
<1>3. ch \in fallen[d] <=> c.boundary /\ Evaluable(f, d, c.day) /\ ~ DataDev(f, d, c.day, ch)
  BY <1>0 DEF Fallen
<1>4. ch \in found[d] <=> c.boundary /\ DataPersistent(f, e, d, c.day, ch)
  <2>. HIDE DEF e
  <2>. QED  BY <1>0 DEF Persistent
<1>. HIDE DEF fallen
<1>5. /\ IsBooks(e) /\ TypedBooks(e) /\ e.cooldown = h.cooldown
      /\ e.episode[d][ch] = IF ch \in fallen[d] THEN 0 ELSE h.episode[d][ch]
      /\ h.episode[d][ch] \in Nat
  <2>1. TypedBooks(e)
    BY <1>2, EndedTyped
  <2>2. e = Ended(b, fallen)
    OBVIOUS
  <2>. HIDE DEF e
  <2>a. /\ IsBooks(e)
        /\ e.perf = b.perf /\ e.cooldown = b.cooldown /\ e.seq = b.seq
        /\ e.drift = [x \in Devices |-> [b.drift[x] EXCEPT !.triggers = @ \ fallen[x]]]
        /\ e.episode = [x \in Devices |-> [k \in Triggers |->
                          IF k \in fallen[x] THEN 0 ELSE b.episode[x][k]]]
    BY <1>2, <2>2, EndedFields
  <2>3. e.episode[d][ch] = IF ch \in fallen[d] THEN 0 ELSE h.episode[d][ch]
    BY <1>0, <1>2, <2>a
  <2>4. h.episode[d][ch] \in Nat
    BY <1>0 DEF TypedBooks, EpisodeType
  <2>. QED  BY <1>2, <2>1, <2>a, <2>3, <2>4
<1>. HIDE DEF e
<1>6. d \in devs <=> h.cooldown[d] <= c.t /\ fresh # {}
  BY <1>5 DEF Commanded
<1>7. ch \in fresh <=> ch \in found[d] /\ (~ f.timing.once \/ e.episode[d][ch] = 0)
  BY DEF FreshClasses
<1>. HIDE DEF found, present, devs
<1>8. core.books.episode[d][ch] = e.episode[d][ch] + (IF d \in devs /\ ch \in fresh THEN 1 ELSE 0)
  <2>. DEFINE n == core.books
  <2>1. n = Issued(f, e, c, found, present, devs).books /\ IsBooks(e)
    BY <1>1, <1>5
  <2>. HIDE DEF n
  <2>2. /\ IsBooks(n)
        /\ n.perf = e.perf
        /\ n.drift = Drifting(e, found, present)
        /\ n.episode = [x \in Devices |-> [k \in Triggers |-> e.episode[x][k] +
             (IF x \in devs /\ k \in FreshClasses(f, e, found, x) THEN 1 ELSE 0)]]
        /\ n.seq = [x \in Devices |-> e.seq[x] + (IF x \in devs THEN 1 ELSE 0)]
        /\ n.cooldown = [x \in Devices |-> IF x \in devs THEN CooldownUntil(f, c.t)
                                           ELSE e.cooldown[x]]
    BY <2>1, IssuedFields
  <2>3. n.episode[d][ch] = e.episode[d][ch] + (IF d \in devs /\ ch \in fresh THEN 1 ELSE 0)
    BY <1>0, <2>2
  <2>. QED  BY <2>3 DEF n
<1>9. ASSUME d \in devs, ch \in found[d]
      PROVE  Tells(core, d, ch, c.t)
  <2>. DEFINE r == CommandOf(f, e, c, found, present, d)
              n == 1 + Max({e.episode[d][k] : k \in FreshClasses(f, e, found, d)})
              g == GlobalDrift(found, present, d)
              co == {x \in present : found[x] \cap found[d] # {}}
              eff == EffectiveAt(f, c.t)
  <2>1. r \in core.out
    BY <1>1, <1>9, IssuedOut
  <2>2. r = [type |-> "command", device |-> d, at |-> c.t, effective |-> eff,
             seq |-> e.seq[d] + 1, global |-> g, triggers |-> found[d], co |-> co, n |-> n]
    BY Zenon DEF CommandOf
  <2>. HIDE DEF n, g, co, eff, r
  <2>3. r.device = d /\ r.at = c.t /\ r.triggers = found[d]
    BY <2>2
  <2>. QED  BY <1>9, <2>1, <2>3, Zenon DEF Tells
<1>. HIDE DEF fresh
<1>10. ASSUME core.books.episode[d][ch] > 0
       PROVE  \/ /\ h.episode[d][ch] > 0
                 /\ ~ (c.boundary /\ Evaluable(f, d, c.day) /\ ~ DataDev(f, d, c.day, ch))
              \/ c.boundary /\ DataDev(f, d, c.day, ch) /\ Tells(core, d, ch, c.t)
  <2>1. CASE d \in devs /\ ch \in fresh
    <3>1. ch \in found[d]
      BY <2>1, <1>7
    <3>. QED  BY <2>1, <3>1, <1>4, <1>9 DEF DataPersistent
  <2>2. CASE ~ (d \in devs /\ ch \in fresh)
    <3>1. e.episode[d][ch] > 0
      BY <2>2, <1>5, <1>8, <1>10
    <3>. QED  BY <3>1, <1>3, <1>5
  <2>. QED  BY <2>1, <2>2
<1>11. ASSUME c.boundary, Evaluable(f, d, c.day), DataDev(f, d, c.day, ch), DataDev(f, d, c.day - 1, ch)
       PROVE  h.cooldown[d] > c.t \/ core.books.episode[d][ch] > 0 \/ Tells(core, d, ch, c.t)
  <2>1. ch \in found[d]
    BY <1>4, <1>11 DEF DataPersistent
  <2>2. h.cooldown[d] \in Nat
    BY DEF TypedBooks
  <2>3. CASE h.cooldown[d] <= c.t /\ ch \in fresh
    BY <2>1, <2>3, <1>6, <1>9
  <2>4. CASE ch \notin fresh
    <3>1. e.episode[d][ch] # 0 /\ e.episode[d][ch] \in Nat
      BY <2>1, <2>4, <1>5, <1>7
    <3>. QED  BY <3>1, <1>8
  <2>. QED  BY <2>2, <2>3, <2>4
<1>. QED
  BY <1>10, <1>11, Zenon DEF DataClass

\* Every tick, with or without a decision.
LEMMA CoreDataClass ==
  ASSUME NEW h, TypedBooks(h), NEW sc, IsScenario(sc), NEW t \in Nat, t >= Hour, t <= LastTick,
         NEW core, core = CoreTick(h, sc, t), NEW d \in Devices, NEW ch \in Active
  PROVE  DataClass(h, Facts(sc), DecisionAt(t), core, d, ch)
<1>. DEFINE f == Facts(sc)
            c == DecisionAt(t)
            rows == RowsAt(sc, t - Hour)
            b == Observed(h, rows, f.perf, c.t)
<1>1. c.t = t
  BY DecisionDays DEF Hour
<1>2. f.timing = sc.timing
  BY DEF Facts
<1>3. CooldownUntil(f, t) \in Nat
  BY <1>2, CooldownIsAhead DEF IsScenario
<1>4. core = CoreOn(h, f, rows, c)
  BY Zenon DEF CoreTick
<1>5. IsBooks(h)
  BY DEF TypedBooks
<1>6. TypedBooks(b) /\ b.cooldown = h.cooldown /\ b.episode = h.episode
  BY <1>5, ObservedTyped, ObservedKeeps
<1>. HIDE DEF f, c, rows
<1>7. CASE IsCmdTick(f.timing, c)
  <2>1. core = CmdTick(b, f, c)
    BY <1>4, <1>7, Zenon DEF CoreOn
  <2>. HIDE DEF b
  <2>2. DataClass(b, f, c, core, d, ch)
    BY <2>1, <1>1, <1>3, <1>6, CmdDataClass
  <2>. QED  BY <2>2, <1>6, Zenon DEF DataClass, f, c
<1>8. CASE ~IsCmdTick(f.timing, c)
  <2>1. core = [books |-> b, out |-> {}]
    BY <1>4, <1>8, Zenon DEF CoreOn
  <2>2. ~ c.boundary
    BY <1>8 DEF IsCmdTick
  <2>. HIDE DEF b
  <2>3. core.books = b
    BY <2>1
  <2>. QED  BY <2>2, <2>3, <1>6, Zenon DEF DataClass, f, c
<1>. QED
  BY <1>7, <1>8

\* Command r told device d of channel ch at the end of a day of this spell.
ToldSince(sc, r, k, d, ch) ==
  /\ r.device = d /\ ch \in r.triggers
  /\ \E day \in 1..LastDay :
       /\ r.at = DayStart(day + 1) /\ r.at <= k * Hour
       /\ \A e \in day..LastDay : DayStart(e + 1) <= k * Hour => Deviated(sc, d, ch, e)

OpenIsTold(H, sc, k, d, ch) ==
  H[k].episode[d][ch] > 0 => \E r \in CommandsIn(H, sc, k) : ToldSince(sc, r, k, d, ch)

\* One more hour.
LEMMA CommandsGrow ==
  ASSUME NEW H, NEW sc, NEW k \in Nat, k >= 1
  PROVE  CommandsIn(H, sc, k) = CommandsIn(H, sc, k - 1) \cup Core(H, sc, k).out
<1>1. \A i : i \in 1..k <=> i \in 1..(k - 1) \/ i = k
  OBVIOUS
<1>2. ASSUME NEW r
      PROVE  r \in CommandsIn(H, sc, k) <=> r \in CommandsIn(H, sc, k - 1) \cup Core(H, sc, k).out
  <2>1. r \in CommandsIn(H, sc, k) <=> \E i \in 1..k : r \in Core(H, sc, i).out
    BY Zenon DEF CommandsIn
  <2>2. r \in CommandsIn(H, sc, k - 1) <=> \E i \in 1..(k - 1) : r \in Core(H, sc, i).out
    BY Zenon DEF CommandsIn
  <2>. QED  BY <1>1, <2>1, <2>2, Zenon
<1>. DEFINE C == CommandsIn(H, sc, k)
            D == CommandsIn(H, sc, k - 1) \cup Core(H, sc, k).out
<1>3. \A r : r \in C <=> r \in D
  BY <1>2, Zenon
<1>. HIDE DEF C, D
<1>4. C = D
  BY <1>3
<1>. QED
  BY <1>4, Zenon DEF C, D

\* The end of a day falls on a tick, so none is passed between two.
LEMMA NoDayBetween ==
  ASSUME NEW k \in Nat, k >= 1, k * Hour <= LastTick, NEW e \in 1..LastDay, DayStart(e + 1) <= k * Hour
  PROVE  DayStart(e + 1) <= (k - 1) * Hour \/ (DecisionAt(k * Hour).boundary /\ DecisionAt(k * Hour).day = e)
<1>1. /\ \E i \in Nat : DayStart(e + 1) = i * Hour
      /\ DecisionAt(DayStart(e + 1)).day = e /\ DecisionAt(DayStart(e + 1)).boundary
  BY BoundaryOfDay
<1>2. PICK i \in Nat : DayStart(e + 1) = i * Hour
  BY <1>1
<1>3. i <= k - 1 \/ i = k
  BY <1>2 DEF Hour
<1>4. CASE i <= k - 1
  BY <1>2, <1>4 DEF Hour
<1>5. CASE i = k
  BY <1>1, <1>2, <1>5
<1>. QED
  BY <1>3, <1>4, <1>5

\* An episode of a data class that is open was told of, and the channel has been
\* out of range ever since.
LEMMA EpisodesAreTold ==
  ASSUME NEW sc, IsScenario(sc), NEW n \in Nat, n * Hour <= LastTick, NEW H, IsHistory(H, sc, n),
         NEW d \in Devices, NEW ch \in Active
  PROVE  \A k \in 0..n : OpenIsTold(H, sc, k, d, ch)
<1>. DEFINE S == {k \in 0..n : OpenIsTold(H, sc, k, d, ch)}
<1>0. ch \in Triggers
  BY DEF Triggers
<1>1. 0 \in S
  <2>1. H[0].episode = [x \in Devices |-> [k \in Triggers |-> 0]]
    BY DEF IsHistory, EmptyBooks
  <2>2. ~ (H[0].episode[d][ch] > 0)
    BY <1>0, <2>1
  <2>. QED  BY <2>2 DEF OpenIsTold
<1>2. ASSUME NEW k \in 1..n, OpenIsTold(H, sc, k - 1, d, ch)
      PROVE  OpenIsTold(H, sc, k, d, ch)
  <2>. DEFINE t == k * Hour
              f == Facts(sc)
              c == DecisionAt(t)
              core == Core(H, sc, k)
              h == H[k - 1]
  <2>1. t \in Nat /\ t >= Hour /\ t <= LastTick /\ k - 1 \in 0..n /\ k \in Nat /\ k >= 1
    BY TickInRange
  <2>2. TypedBooks(h)
    BY <2>1, HistoryTyped
  <2>3. core = CoreTick(h, sc, t) /\ H[k] = core.books
    BY Zenon DEF Core, IsHistory
  <2>. HIDE DEF core, h
  <2>4. DataClass(h, f, c, core, d, ch)
    BY <2>1, <2>2, <2>3, CoreDataClass
  <2>5. c.t = t /\ (c.boundary => c.day \in 1..LastDay /\ t = DayStart(c.day + 1))
    <3>1. t >= 1
      BY <2>1 DEF Hour
    <3>. QED  BY <2>1, <3>1, DecisionDays, DayOfBoundary
  <2>6. CommandsIn(H, sc, k) = CommandsIn(H, sc, k - 1) \cup core.out
    BY <2>1, CommandsGrow DEF core
  <2>7. SUFFICES ASSUME H[k].episode[d][ch] > 0
                 PROVE  \E r \in CommandsIn(H, sc, k) : ToldSince(sc, r, k, d, ch)
    BY DEF OpenIsTold
  <2>8. \A day : /\ DataDev(f, d, day, ch) <=> HasRecord(sc, d, day) /\ Deviated(sc, d, ch, day)
                 /\ Evaluable(f, d, day) <=> HasRecord(sc, d, day) /\ sc.verdicts[d][day].evaluable
    BY FactsDays
  <2>. HIDE DEF f
  <2>9. ASSUME c.boundary, DataDev(f, d, c.day, ch), Tells(core, d, ch, c.t)
        PROVE  \E r \in CommandsIn(H, sc, k) : ToldSince(sc, r, k, d, ch)
    <3>1. PICK r \in core.out : r.device = d /\ ch \in r.triggers /\ r.at = t
      BY <2>5, <2>9 DEF Tells
    <3>2. ASSUME NEW e \in c.day..LastDay, DayStart(e + 1) <= k * Hour
          PROVE  Deviated(sc, d, ch, e)
      <4>1. c.day \in Nat /\ e \in Nat /\ LastDay \in Nat /\ c.day <= e
        BY <2>5, <2>9, ParamsAssumption
      <4>2. ~ (c.day < e)
        <5>1. c.day + 1 <= e => DayStart(c.day + 1) <= DayStart(e)
          BY <4>1, DaysInOrder
        <5>2. DayStart(e) + Hour <= DayStart(e + 1) /\ DayStart(e) \in Int /\ DayStart(e + 1) \in Int
          <6>1. e \in Int /\ e + 1 \in Int
            BY <4>1
          <6>. QED  BY <6>1, DaysInOrder
        <5>. QED  BY <5>1, <5>2, <4>1, <3>2, <2>5, <2>9 DEF Hour
      <4>3. e = c.day
        BY <4>1, <4>2
      <4>. QED  BY <4>3, <2>8, <2>9
    <3>3. c.day \in 1..LastDay /\ r.at = DayStart(c.day + 1) /\ r.at <= k * Hour
      BY <3>1, <2>5, <2>9, <2>1
    <3>4. ToldSince(sc, r, k, d, ch)
      BY <3>1, <3>2, <3>3, Zenon DEF ToldSince
    <3>. QED  BY <3>1, <3>4, <2>6
  <2>10. ASSUME h.episode[d][ch] > 0,
                ~ (c.boundary /\ Evaluable(f, d, c.day) /\ ~ DataDev(f, d, c.day, ch))
         PROVE  \E r \in CommandsIn(H, sc, k) : ToldSince(sc, r, k, d, ch)
    <3>1. PICK r \in CommandsIn(H, sc, k - 1) : ToldSince(sc, r, k - 1, d, ch)
      BY <1>2, <2>10 DEF OpenIsTold, h
    <3>2. PICK day \in 1..LastDay :
             /\ r.at = DayStart(day + 1) /\ r.at <= (k - 1) * Hour
             /\ \A e \in day..LastDay : DayStart(e + 1) <= (k - 1) * Hour => Deviated(sc, d, ch, e)
      BY <3>1, Zenon DEF ToldSince
    <3>0. LastDay \in Nat /\ day \in Nat
      BY ParamsAssumption
    <3>3. ASSUME NEW e \in day..LastDay, DayStart(e + 1) <= k * Hour
          PROVE  Deviated(sc, d, ch, e)
      <4>1. e \in 1..LastDay /\ e \in Nat /\ e - 1 \in Nat
        BY <3>0
      <4>2. CASE DayStart(e + 1) <= (k - 1) * Hour
        BY <3>2, <4>2
      <4>3. CASE c.boundary /\ c.day = e
        <5>1. day # e
          <6>1. t = DayStart(e + 1)
            BY <2>5, <4>3
          <6>. QED  BY <6>1, <3>2, <2>1 DEF Hour
        <5>2. e - 1 \in day..LastDay /\ e - 1 + 1 = e
          BY <3>0, <4>1, <5>1
        <5>3. DayStart(e - 1 + 1) <= (k - 1) * Hour
          <6>1. e - 1 \in 1..LastDay
            BY <5>2
          <6>2. PICK i \in Nat : DayStart(e - 1 + 1) = i * Hour
            BY <6>1, BoundaryOfDay
          <6>3. DayStart(e) + Hour <= DayStart(e + 1) /\ DayStart(e) \in Int /\ DayStart(e + 1) \in Int
            <7>1. e \in Int /\ e + 1 \in Int
              BY <4>1
            <7>. QED  BY <7>1, DaysInOrder
          <6>4. t = DayStart(e + 1)
            BY <2>5, <4>3
          <6>. QED  BY <5>2, <6>2, <6>3, <6>4, <2>1 DEF Hour
        <5>4. Deviated(sc, d, ch, e - 1)
          BY <3>2, <5>2, <5>3
        <5>5. HasRecord(sc, d, e) /\ sc.verdicts[d][e].evaluable => Deviated(sc, d, ch, e)
          BY <2>8, <2>10, <4>3
        <5>6. \/ Deviated(sc, d, ch, e) = Deviated(sc, d, ch, e - 1)
              \/ HasRecord(sc, d, e) /\ sc.verdicts[d][e].evaluable
          BY <4>1, DeviatedFacts
        <5>. QED  BY <5>4, <5>5, <5>6, Zenon
      <4>. QED
        BY <2>1, <3>3, <4>1, <4>2, <4>3, NoDayBetween
    <3>4. r.at <= k * Hour
      <4>1. r.at \in Int
        BY <3>0, <3>2, DaysInOrder
      <4>. QED  BY <3>2, <4>1, <2>1 DEF Hour
    <3>5. ToldSince(sc, r, k, d, ch)
      <4>1. r.device = d /\ ch \in r.triggers
        BY <3>1 DEF ToldSince
      <4>. QED  BY <4>1, <3>2, <3>3, <3>4, Zenon DEF ToldSince
    <3>. QED  BY <3>5, <2>6
  <2>. QED
    BY <2>3, <2>4, <2>7, <2>9, <2>10, Zenon DEF DataClass
<1>. HIDE DEF S
<1>3. \A k \in 1..n : k - 1 \in S => k \in S
  BY <1>2 DEF S
<1>4. \A k \in 0..n : k \in S
  BY <1>1, <1>3, EachUpTo
<1>. QED
  BY <1>4 DEF S

\* A device that cools down was told: by the command that sets the cooldown.
CoolIsTold(H, sc, k, d) ==
  H[k].cooldown[d] > 0 =>
    \E r \in CommandsIn(H, sc, k) :
      r.device = d /\ H[k].cooldown[d] = Later(r.effective, 1) /\ r.at <= k * Hour

LEMMA CooldownIsTold ==
  ASSUME NEW sc, IsScenario(sc), NEW n \in Nat, n * Hour <= LastTick, NEW H, IsHistory(H, sc, n),
         NEW d \in Devices
  PROVE  \A k \in 0..n : CoolIsTold(H, sc, k, d)
<1>. DEFINE S == {k \in 0..n : CoolIsTold(H, sc, k, d)}
<1>1. 0 \in S
  <2>1. H[0].cooldown = [x \in Devices |-> 0]
    BY DEF IsHistory, EmptyBooks
  <2>2. ~ (H[0].cooldown[d] > 0)
    BY <2>1
  <2>. QED  BY <2>2 DEF CoolIsTold
<1>2. ASSUME NEW k \in 1..n, CoolIsTold(H, sc, k - 1, d)
      PROVE  CoolIsTold(H, sc, k, d)
  <2>. DEFINE t == k * Hour
              f == Facts(sc)
              core == Core(H, sc, k)
              h == H[k - 1]
  <2>1. t \in Nat /\ t >= Hour /\ t <= LastTick /\ k - 1 \in 0..n /\ k \in Nat /\ k >= 1
    BY TickInRange
  <2>2. TypedBooks(h)
    BY <2>1, HistoryTyped
  <2>3. core = CoreTick(h, sc, t) /\ H[k] = core.books
    BY Zenon DEF Core, IsHistory
  <2>4. CommandsIn(H, sc, k) = CommandsIn(H, sc, k - 1) \cup core.out
    BY <2>1, CommandsGrow
  <2>. HIDE DEF core, h, f
  <2>5. PICK devs \in SUBSET Devices : Told(h, f, t, core, devs)
    BY <2>1, <2>2, <2>3, CoreEffects DEF f
  <2>6. SUFFICES ASSUME H[k].cooldown[d] > 0
                 PROVE  \E r \in CommandsIn(H, sc, k) :
                          r.device = d /\ H[k].cooldown[d] = Later(r.effective, 1) /\ r.at <= k * Hour
    BY DEF CoolIsTold
  <2>7. CASE d \in devs
    <3>1. PICK r \in core.out : r.device = d
      BY <2>5, <2>7 DEF Told, ToldOver
    <3>2. r.at = t /\ r.effective = EffectiveAt(f, t)
      BY <2>5 DEF Told, ToldOver
    <3>3. H[k].cooldown[d] = CooldownUntil(f, t)
      BY <2>3, <2>5, <2>7 DEF Told, ToldOver
    <3>4. H[k].cooldown[d] = Later(r.effective, 1)
      BY <3>2, <3>3, Zenon DEF CooldownUntil
    <3>5. r.at <= k * Hour
      BY <3>2, <2>1
    <3>. QED  BY <3>1, <3>4, <3>5, <2>4
  <2>8. CASE d \notin devs
    <3>1. H[k].cooldown[d] = h.cooldown[d]
      BY <2>3, <2>5, <2>8 DEF Told, ToldOver
    <3>2. PICK r \in CommandsIn(H, sc, k - 1) :
            r.device = d /\ h.cooldown[d] = Later(r.effective, 1) /\ r.at <= (k - 1) * Hour
      BY <3>1, <2>6, <1>2 DEF CoolIsTold, h
    <3>3. r.at <= k * Hour
      <4>1. r.at \in Nat
        <5>1. PICK i \in 1..(k - 1) : r \in Core(H, sc, i).out
          BY <3>2, Zenon DEF CommandsIn
        <5>2. i \in 1..n
          BY <2>1
        <5>3. r.at = i * Hour
          BY <5>1, <5>2, HistoryStep
        <5>. QED  BY <5>3, <5>1 DEF Hour
      <4>. QED  BY <3>2, <4>1, <2>1 DEF Hour
    <3>. QED  BY <3>1, <3>2, <3>3, <2>4
  <2>. QED  BY <2>7, <2>8
<1>. HIDE DEF S
<1>3. \A k \in 1..n : k - 1 \in S => k \in S
  BY <1>2 DEF S
<1>4. \A k \in 0..n : k \in S
  BY <1>1, <1>3, EachUpTo
<1>. QED
  BY <1>4 DEF S

\* The first day of the spell a drifting day belongs to.
LEMMA SpellFacts ==
  ASSUME NEW d \in Devices, NEW ch, NEW day \in 1..LastDay, Deviated(scenario, d, ch, day),
         NEW e, e = SpellStart(d, ch, day)
  PROVE  /\ e \in 1..day /\ ~ Deviated(scenario, d, ch, e - 1)
         /\ \A g \in e..day : Deviated(scenario, d, ch, g)
<1>. DEFINE st == EndState(scenario.verdicts[d], ch, LastDay)
            Starts(x) == (\A g \in x..day : st[g]) /\ ~ st[x - 1]
            B == {x \in 1..day : \A g \in x..day : st[g]}
<1>1. LastDay \in Nat /\ day \in Nat
  BY ParamsAssumption
<1>2. \A x : Deviated(scenario, d, ch, x) = st[x]
  BY Zenon DEF Deviated
<1>3. ~ st[0] /\ st[day]
  BY <1>2, DeviatedFacts
<1>4. SpellStart(d, ch, day) = CHOOSE x \in 1..day : Starts(x)
  BY Zenon DEF SpellStart
<1>. HIDE DEF st
<1>5. day \in B /\ B \in SUBSET Nat
  BY <1>1, <1>3
<1>6. PICK m \in B : \A x \in B : m <= x
  <2>. HIDE DEF B
  <2>. QED  BY <1>5, LeastExists
<1>7. ~ st[m - 1]
  <2>1. SUFFICES ASSUME st[m - 1]  PROVE FALSE
    OBVIOUS
  <2>2. m # 1
    BY <1>3, <2>1
  <2>3. m - 1 \in 1..day /\ ~ (m <= m - 1) /\ \A g \in (m - 1)..day : g = m - 1 \/ g \in m..day
    BY <1>1, <1>6, <2>2
  <2>4. m - 1 \in B
    BY <1>6, <2>1, <2>3
  <2>. QED  BY <1>6, <2>3, <2>4
<1>8. m \in 1..day /\ Starts(m)
  BY <1>6, <1>7
<1>. HIDE DEF Starts
<1>9. e \in 1..day /\ Starts(e)
  BY <1>4, <1>8, Zenon
<1>. QED
  BY <1>2, <1>9, Zenon DEF Starts

\* A history is not rewritten: the commands of its first hours are among all of them.
LEMMA CommandsStay ==
  ASSUME NEW H, NEW sc, NEW n \in Nat, NEW k \in 0..n
  PROVE  CommandsIn(H, sc, k) \subseteq CommandsIn(H, sc, n)
<1>1. \A i \in 1..k : i \in 1..n
  OBVIOUS
<1>. QED
  BY <1>1, Zenon DEF CommandsIn

\* A history tells of every drift: at the end of a drifting day there is a command
\* for its spell, or one that keeps the device cooling down.
LEMMA HistoryTells ==
  ASSUME IsScenario(scenario), NEW n \in Nat, n * Hour <= LastTick, NEW H, IsHistory(H, scenario, n),
         NEW d \in Devices, NEW ch \in Active, NEW day \in DriftDays(d, ch),
         DayStart(day + 1) <= n * Hour
  PROVE  \E c \in CommandsIn(H, scenario, n) :
           /\ c.device = d
           /\ \/ ch \in c.triggers /\ c.at > DayStart(SpellStart(d, ch, day)) /\ c.at <= DayStart(day + 1)
              \/ c.at <= DayStart(day + 1) /\ Later(c.effective, 1) > DayStart(day + 1)
<1>. DEFINE t == DayStart(day + 1)
            e == SpellStart(d, ch, day)
            f == Facts(scenario)
            Fits(c) == /\ c.device = d
                       /\ \/ ch \in c.triggers /\ c.at > DayStart(e) /\ c.at <= t
                          \/ c.at <= t /\ Later(c.effective, 1) > t
<1>1. /\ HasRecord(scenario, d, day) /\ scenario.verdicts[d][day].evaluable
      /\ Deviated(scenario, d, ch, day)
      /\ HasRecord(scenario, d, day - 1) /\ Deviated(scenario, d, ch, day - 1)
  BY Zenon DEF DriftDays, HasRecord, Deviated
<1>2. day \in 1..LastDay
  BY <1>1 DEF IsScenario, HasRecord
<1>3. LastDay \in Nat /\ day \in Nat /\ day \in Int /\ day + 1 \in Int
  BY <1>2, ParamsAssumption
<1>4. e \in 1..day /\ ~ Deviated(scenario, d, ch, e - 1)
  BY <1>1, <1>2, SpellFacts
<1>5. DayStart(e) \in Int /\ DayStart(e) < t
  <2>1. e \in Nat /\ e \in Int /\ e <= day
    BY <1>3, <1>4
  <2>2. DayStart(e) <= DayStart(day) /\ DayStart(e) \in Int /\ DayStart(day) \in Int
        /\ DayStart(day) + Hour <= DayStart(day + 1) /\ DayStart(day + 1) \in Int
    BY <1>3, <2>1, DaysInOrder
  <2>. QED  BY <2>2 DEF Hour
<1>. HIDE DEF e
<1>6. /\ t \in Nat /\ t >= Hour /\ t <= LastTick /\ \E k \in Nat : t = k * Hour
      /\ DecisionAt(t).day = day /\ DecisionAt(t).boundary
  BY <1>2, BoundaryOfDay
<1>. HIDE DEF t
<1>7. PICK k \in Nat : t = k * Hour
  BY <1>6
<1>8. k \in 1..n /\ k \in 0..n /\ k - 1 \in 0..n /\ k - 1 \in Nat
  BY <1>6, <1>7 DEF Hour, t
<1>. DEFINE core == Core(H, scenario, k)
            h == H[k - 1]
            c == DecisionAt(t)
<1>9. TypedBooks(h)
  BY <1>8, HistoryTyped
<1>10. core = CoreTick(h, scenario, t) /\ H[k] = core.books
  BY <1>7, <1>8, Zenon DEF Core, IsHistory
<1>11. c.t = t
  BY <1>6, DecisionDays DEF Hour
<1>. HIDE DEF core, h, c
<1>12. DataClass(h, f, c, core, d, ch)
  BY <1>6, <1>9, <1>10, CoreDataClass DEF c
<1>13. /\ c.boundary /\ Evaluable(f, d, c.day)
       /\ DataDev(f, d, c.day, ch) /\ DataDev(f, d, c.day - 1, ch)
  BY <1>1, <1>6, FactsDays DEF c
<1>14. h.cooldown[d] > t \/ core.books.episode[d][ch] > 0 \/ Tells(core, d, ch, t)
  BY <1>11, <1>12, <1>13, Zenon DEF DataClass
<1>15. CommandsIn(H, scenario, k) = CommandsIn(H, scenario, k - 1) \cup core.out
  BY <1>8, CommandsGrow DEF core
<1>16. CommandsIn(H, scenario, k) \subseteq CommandsIn(H, scenario, n)
  BY <1>8, CommandsStay
<1>17. SUFFICES \E r \in CommandsIn(H, scenario, k) : Fits(r)
  BY <1>16 DEF t, e
<1>18. CASE h.cooldown[d] > t
  <2>1. CoolIsTold(H, scenario, k - 1, d)
    BY <1>8, CooldownIsTold
  <2>2. h.cooldown[d] > 0
    BY <1>6, <1>9, <1>18 DEF TypedBooks
  <2>3. PICK r \in CommandsIn(H, scenario, k - 1) :
          r.device = d /\ h.cooldown[d] = Later(r.effective, 1) /\ r.at <= (k - 1) * Hour
    BY <2>1, <2>2 DEF CoolIsTold, h
  <2>4. r.at <= t
    <3>1. PICK i \in 1..(k - 1) : r \in Core(H, scenario, i).out
      BY <2>3, Zenon DEF CommandsIn
    <3>2. i \in 1..n
      BY <1>8
    <3>3. r.at = i * Hour
      BY <3>1, <3>2, HistoryStep
    <3>. QED  BY <3>1, <3>3, <1>7 DEF Hour
  <2>5. Later(r.effective, 1) > t
    BY <1>18, <2>3
  <2>. QED  BY <2>3, <2>4, <2>5, <1>15
<1>19. CASE core.books.episode[d][ch] > 0
  <2>1. OpenIsTold(H, scenario, k, d, ch)
    BY <1>8, EpisodesAreTold
  <2>2. PICK r \in CommandsIn(H, scenario, k) : ToldSince(scenario, r, k, d, ch)
    BY <2>1, <1>10, <1>19 DEF OpenIsTold
  <2>3. PICK o \in 1..LastDay :
          /\ r.at = DayStart(o + 1) /\ r.at <= k * Hour
          /\ \A g \in o..LastDay : DayStart(g + 1) <= k * Hour => Deviated(scenario, d, ch, g)
    BY <2>2, Zenon DEF ToldSince
  <2>4. o \in Nat /\ e \in Nat /\ o + 1 \in Nat /\ o + 1 \in Int
    BY <1>3, <1>4
  \* The spell has not begun later than the day told of.
  <2>5. e <= o
    <3>1. SUFFICES ASSUME o <= e - 1  PROVE FALSE
      BY <2>4
    <3>2. e - 1 \in o..LastDay /\ e - 1 + 1 = e
      BY <1>2, <1>3, <1>4, <2>4, <3>1
    <3>3. DayStart(e - 1 + 1) <= k * Hour
      <4>1. DayStart(e - 1 + 1) = DayStart(e)
        BY <3>2, Zenon
      <4>2. DayStart(e) <= t
        BY <1>5, <1>6
      <4>. QED  BY <4>1, <4>2, <1>7, Zenon
    <3>. QED  BY <1>4, <2>3, <3>2, <3>3
  <2>6. DayStart(e) < r.at /\ r.at <= t
    <3>1. DayStart(e) <= DayStart(o) /\ DayStart(o) + Hour <= DayStart(o + 1)
          /\ DayStart(o) \in Int /\ DayStart(o + 1) \in Int
      <4>1. o \in Int
        BY <2>4
      <4>. QED  BY <2>4, <2>5, <4>1, DaysInOrder
    <3>. QED  BY <1>5, <1>7, <2>3, <3>1 DEF Hour
  <2>7. r.device = d /\ ch \in r.triggers
    BY <2>2 DEF ToldSince
  <2>8. r.at > DayStart(e)
    BY <2>6
  <2>. QED  BY <2>6, <2>7, <2>8
<1>20. CASE Tells(core, d, ch, t)
  <2>1. PICK r \in core.out : r.device = d /\ ch \in r.triggers /\ r.at = t
    BY <1>20 DEF Tells
  <2>2. r.at > DayStart(e) /\ r.at <= t
    BY <1>5, <1>6, <2>1
  <2>. QED  BY <2>1, <2>2, <1>15
<1>. QED
  BY <1>14, <1>18, <1>19, <1>20

\* Whatever the order in which the streams arrive and after a restart, a channel
\* that is out of range two days running is never passed over: at the end of the
\* second day a command for this spell is out, or the device is still cooling
\* down from its last one (FleetDecisionFunction's commandTick, decide.py).
THEOREM FleetDriftIsCommanded == Spec => []DriftIsCommanded
<1>1. FleetInv => DriftIsCommanded
  <2>1. SUFFICES ASSUME FleetInv  PROVE DriftIsCommanded
    OBVIOUS
  <2>20. PICK n \in Nat : \E H : InHistory(H, n)
    BY <2>1, Zenon DEF FleetInv
  <2>2. PICK H : InHistory(H, n)
    BY <2>20
  <2>3. IsScenario(scenario)
    BY <2>1, ScenarioOf
  <2>4. /\ n * Hour <= LastTick /\ reached = n * Hour
        /\ IsHistory(H, scenario, n) /\ Commands = CommandsIn(H, scenario, n)
    BY <2>2, Zenon DEF InHistory
  <2>5. ASSUME NEW d \in Devices, NEW ch \in Active, NEW day \in DriftDays(d, ch),
               DayStart(day + 1) <= reached
        PROVE  \E c \in Commands :
                 /\ c.device = d
                 /\ \/ /\ ch \in c.triggers /\ c.at > DayStart(SpellStart(d, ch, day))
                       /\ c.at <= DayStart(day + 1)
                    \/ c.at <= DayStart(day + 1) /\ Later(c.effective, 1) > DayStart(day + 1)
    <3>1. DayStart(day + 1) <= n * Hour
      BY <2>4, <2>5
    <3>2. \E c \in CommandsIn(H, scenario, n) :
            /\ c.device = d
            /\ \/ ch \in c.triggers /\ c.at > DayStart(SpellStart(d, ch, day)) /\ c.at <= DayStart(day + 1)
               \/ c.at <= DayStart(day + 1) /\ Later(c.effective, 1) > DayStart(day + 1)
      BY <2>3, <2>4, <3>1, HistoryTells
    <3>. QED  BY <2>4, <3>2
  <2>. QED  BY <2>5, Zenon DEF DriftIsCommanded
<1>. QED
  BY <1>1, FleetInvariant, PTL

--------------------------------------------------------------------------------
(* What the offline run works on. *)

\* Two ways to follow the states from the same verdicts meet.
LEMMA WalksMeet ==
  ASSUME NEW vs, NEW ch, NEW n \in Nat, NEW s, NEW r, Walks(s, vs, ch, n), Walks(r, vs, ch, n)
  PROVE  \A d \in 0..n : s[d] = r[d]
<1>. DEFINE S == {d \in 0..n : s[d] = r[d]}
<1>1. 0 \in S
  BY DEF Walks
<1>2. ASSUME NEW d \in 1..n, d - 1 \in S
      PROVE  d \in S
  <2>1. s[d - 1] = r[d - 1] /\ d \in 0..n
    BY <1>2
  <2>2. s[d] = After(vs, ch, d, s[d - 1]) /\ r[d] = After(vs, ch, d, r[d - 1])
    BY Zenon DEF Walks
  <2>3. s[d] = r[d]
    BY <2>1, <2>2, Zenon
  <2>. QED  BY <2>1, <2>3
<1>. HIDE DEF S
<1>3. \A d \in 0..n : d \in S
  BY <1>1, <1>2, EachUpTo
<1>. QED
  BY <1>3 DEF S

\* The states the offline report gives the days (LmTransitions).
LmStep(vs, ch, f, d) ==
  d # 0 /\ LET prev == f[d - 1]
           IN  IF d \notin Judgeable(vs, ch) THEN prev
               ELSE IF prev THEN vs[d].dist[ch] # "near" ELSE vs[d].dist[ch] = "far"
LmState(vs, ch, n) == CHOOSE f : f = [d \in 0..n |-> LmStep(vs, ch, f, d)]
LmRows(s, n) ==
  {[day |-> d, kind |-> IF s[d] THEN "DEVIATE" ELSE "RECOVER"] : d \in {e \in 1..n : s[e] # s[e - 1]}}

LEMMA LmIsRows ==
  ASSUME NEW vs, NEW ch, NEW n
  PROVE  LmTransitions(vs, ch, n) = LmRows(LmState(vs, ch, n), n)
BY Zenon DEF LmTransitions, LmRows, LmState, LmStep

\* A day of the report changes the state exactly when the machine does.
LEMMA LmStepIsAfter ==
  ASSUME NEW vs, NEW ch, NEW f, NEW d, d # 0, f[d - 1] \in BOOLEAN
  PROVE  LmStep(vs, ch, f, d) = After(vs, ch, d, f[d - 1])
<1>. DEFINE prev == f[d - 1]
<1>1. LmStep(vs, ch, f, d) = IF d \notin Judgeable(vs, ch) THEN prev
                             ELSE IF prev THEN vs[d].dist[ch] # "near" ELSE vs[d].dist[ch] = "far"
  BY Zenon DEF LmStep
<1>2. After(vs, ch, d, f[d - 1]) = IF d \in DOMAIN vs /\ Crosses(vs[d], ch, prev) THEN ~prev ELSE prev
  BY Zenon DEF After
<1>3. d \in Judgeable(vs, ch) <=> d \in DOMAIN vs /\ vs[d].evaluable /\ vs[d].dist[ch] # "none"
  BY Zenon DEF Judgeable
<1>4. Crosses(vs[d], ch, prev) <=> vs[d].evaluable /\ ((~prev /\ vs[d].dist[ch] = "far")
                                                      \/ (prev /\ vs[d].dist[ch] = "near"))
  BY Zenon DEF Crosses
<1>5. prev \in BOOLEAN
  OBVIOUS
<1>6. "far" # "none" /\ "near" # "none" /\ "far" # "near"
  OBVIOUS
<1>. HIDE DEF prev
<1>. DEFINE l == LmStep(vs, ch, f, d)
            a == After(vs, ch, d, f[d - 1])
            far == vs[d].dist[ch] = "far"
            near == vs[d].dist[ch] = "near"
            given == d \in DOMAIN vs /\ vs[d].evaluable
<1>7. CASE prev
  <2>1. prev = TRUE
    BY <1>5, <1>7
  <2>2. CASE given /\ near
    <3>1. l = FALSE
      BY <1>1, <1>3, <1>6, <2>1, <2>2, Zenon
    <3>2. a = FALSE
      BY <1>2, <1>4, <2>1, <2>2, Zenon
    <3>. QED  BY <3>1, <3>2, Zenon
  <2>3. CASE ~ (given /\ near)
    <3>1. l = TRUE
      BY <1>1, <1>3, <2>1, <2>3, Zenon
    <3>2. a = TRUE
      BY <1>2, <1>4, <2>1, <2>3, Zenon
    <3>. QED  BY <3>1, <3>2, Zenon
  <2>. QED  BY <2>2, <2>3
<1>8. CASE ~ prev
  <2>1. prev = FALSE
    BY <1>5, <1>8
  <2>2. CASE given /\ far
    <3>1. l = TRUE
      BY <1>1, <1>3, <1>6, <2>1, <2>2, Zenon
    <3>2. a = TRUE
      BY <1>2, <1>4, <2>1, <2>2, Zenon
    <3>. QED  BY <3>1, <3>2, Zenon
  <2>3. CASE ~ (given /\ far)
    <3>1. l = FALSE
      BY <1>1, <1>3, <2>1, <2>3, Zenon
    <3>2. a = FALSE
      BY <1>2, <1>4, <2>1, <2>3, Zenon
    <3>. QED  BY <3>1, <3>2, Zenon
  <2>. QED  BY <2>2, <2>3
<1>. QED
  BY <1>7, <1>8

LEMMA LmStateWalks ==
  ASSUME NEW vs, NEW ch, NEW n \in Nat
  PROVE  Walks(LmState(vs, ch, n), vs, ch, n)
<1>. DEFINE end == LmState(vs, ch, n)
<1>1. PICK s : Walks(s, vs, ch, n)
  BY WalkExists
<1>2. s = [d \in 0..n |-> s[d]] /\ s[0] = FALSE /\ \A d \in 0..n : s[d] \in BOOLEAN
  BY <1>1 DEF Walks
<1>3. ASSUME NEW d \in 0..n
      PROVE  s[d] = LmStep(vs, ch, s, d)
  <2>1. CASE d = 0
    <3>1. LmStep(vs, ch, s, d) = FALSE
      BY <2>1, Zenon DEF LmStep
    <3>. QED  BY <3>1, <2>1, <1>2
  <2>2. CASE d # 0
    <3>1. d \in 1..n /\ d - 1 \in 0..n
      BY <2>2
    <3>2. s[d] = After(vs, ch, d, s[d - 1])
      BY <1>1, <3>1, Zenon DEF Walks
    <3>3. LmStep(vs, ch, s, d) = After(vs, ch, d, s[d - 1])
      BY <1>2, <2>2, <3>1, LmStepIsAfter
    <3>. QED  BY <3>2, <3>3, Zenon
  <2>. QED  BY <2>1, <2>2
<1>4. s = [d \in 0..n |-> LmStep(vs, ch, s, d)]
  BY <1>2, <1>3
<1>5. end = [d \in 0..n |-> LmStep(vs, ch, end, d)]
  BY <1>4, Zenon DEF LmState
<1>. HIDE DEF end
<1>6. \A d \in 0..n : end[d] = LmStep(vs, ch, end, d)
  BY <1>5, Zenon
<1>7. end[0] = FALSE
  <2>1. 0 \in 0..n
    OBVIOUS
  <2>2. LmStep(vs, ch, end, 0) = FALSE
    BY Zenon DEF LmStep
  <2>. QED  BY <2>1, <2>2, <1>6
<1>8. ASSUME NEW d \in 1..n, end[d - 1] \in BOOLEAN
      PROVE  end[d] \in BOOLEAN /\ end[d] = After(vs, ch, d, end[d - 1])
  <2>1. d \in 0..n /\ d # 0
    OBVIOUS
  <2>2. After(vs, ch, d, end[d - 1]) \in BOOLEAN
    BY <1>8, Zenon DEF After
  <2>3. LmStep(vs, ch, end, d) = After(vs, ch, d, end[d - 1])
    BY <1>8, <2>1, LmStepIsAfter
  <2>4. end[d] = LmStep(vs, ch, end, d)
    BY <2>1, <1>6
  <2>. QED  BY <2>2, <2>3, <2>4, Zenon
<1>9. \A d \in 0..n : end[d] \in BOOLEAN
  <2>. DEFINE S == {d \in 0..n : end[d] \in BOOLEAN}
  <2>1. 0 \in S
    <3>1. 0 \in 0..n
      OBVIOUS
    <3>2. end[0] \in BOOLEAN
      BY <1>7, Zenon
    <3>. QED  BY <3>1, <3>2
  <2>2. \A d \in 1..n : d - 1 \in S => d \in S
    BY <1>8
  <2>. HIDE DEF S
  <2>3. \A d \in 0..n : d \in S
    BY <2>1, <2>2, EachUpTo
  <2>. QED  BY <2>3 DEF S
<1>10. \A d \in 1..n : end[d] = After(vs, ch, d, end[d - 1])
  <2>1. \A d \in 1..n : d - 1 \in 0..n
    OBVIOUS
  <2>. QED  BY <1>8, <1>9, <2>1
<1>11. end \in [0..n -> BOOLEAN]
  BY <1>5, <1>9
<1>. QED
  BY <1>7, <1>10, <1>11, Zenon DEF Walks, end

\* The transitions of the offline report give every day the state of the online machine.
LEMMA StateOnIsEndState ==
  ASSUME NEW vs, NEW ch, NEW n \in Nat
  PROVE  \A day \in 0..n : StateOn(LmTransitions(vs, ch, n), day + 1) <=> EndState(vs, ch, n)[day]
<1>. DEFINE s == LmState(vs, ch, n)
            trs == LmRows(s, n)
            S == {day \in 0..n : StateOn(trs, day + 1) = s[day]}
<1>1. Walks(s, vs, ch, n)
  BY LmStateWalks
<1>2. LmTransitions(vs, ch, n) = trs
  BY LmIsRows
<1>3. \A day \in 0..n : EndState(vs, ch, n)[day] = s[day]
  BY <1>1, EndStateWalks, WalksMeet
<1>. HIDE DEF s
<1>4. \A d \in 0..n : s[d] \in BOOLEAN
  BY <1>1 DEF Walks
<1>5. /\ \A t \in trs : /\ t.day \in 1..n /\ s[t.day] # s[t.day - 1]
                        /\ t.kind = "DEVIATE" <=> s[t.day] = TRUE
      /\ \A d \in 1..n : s[d] # s[d - 1] => \E t \in trs : t.day = d
  <2>1. ASSUME NEW t \in trs
        PROVE  /\ t.day \in 1..n /\ s[t.day] # s[t.day - 1]
               /\ t.kind = "DEVIATE" <=> s[t.day] = TRUE
    <3>1. PICK d \in 1..n : /\ s[d] # s[d - 1]
                            /\ t = [day |-> d, kind |-> IF s[d] THEN "DEVIATE" ELSE "RECOVER"]
      BY DEF LmRows
    <3>2. s[d] \in BOOLEAN
      BY <1>4
    <3>. QED  BY <3>1, <3>2
  <2>2. ASSUME NEW d \in 1..n, s[d] # s[d - 1]
        PROVE  \E t \in trs : t.day = d
    <3>. DEFINE t == [day |-> d, kind |-> IF s[d] THEN "DEVIATE" ELSE "RECOVER"]
    <3>1. t \in trs
      BY <2>2 DEF LmRows
    <3>. QED  BY <3>1
  <2>. QED  BY <2>1, <2>2
<1>. HIDE DEF trs
<1>. DEFINE Past(d) == {t \in trs : t.day < d}
<1>6. \A d : StateOn(trs, d) <=> Past(d) # {} /\ \E t \in Past(d) : (\A u \in Past(d) : u.day <= t.day)
                                                                    /\ t.kind = "DEVIATE"
  BY Zenon DEF StateOn
<1>7. \A d : StateOn(trs, d) \in BOOLEAN
  BY Zenon DEF StateOn
<1>8. 0 \in S
  <2>1. Past(0 + 1) = {}
    BY <1>5
  <2>2. StateOn(trs, 0 + 1) = FALSE
    BY <2>1, <1>6, <1>7, Zenon
  <2>3. s[0] = FALSE /\ 0 \in 0..n
    BY <1>1 DEF Walks
  <2>. QED  BY <2>2, <2>3
<1>9. ASSUME NEW day \in 1..n, day - 1 \in S
      PROVE  day \in S
  <2>1. StateOn(trs, day - 1 + 1) = s[day - 1] /\ day - 1 + 1 = day /\ day \in 0..n /\ day - 1 \in 0..n
    BY <1>9
  <2>2. CASE s[day] = s[day - 1]
    <3>1. \A t \in trs : t.day < day + 1 <=> t.day < day
      BY <1>5, <2>2
    <3>2. Past(day + 1) = Past(day)
      BY <3>1
    <3>3. StateOn(trs, day + 1) = StateOn(trs, day)
      BY <3>2, <1>6, <1>7, Zenon
    <3>. QED  BY <3>3, <2>1, <2>2
  <2>3. CASE s[day] # s[day - 1]
    <3>1. PICK t \in trs : t.day = day
      BY <1>5, <2>3
    <3>2. t \in Past(day + 1) /\ \A u \in Past(day + 1) : u.day <= day
      BY <1>5, <3>1
    <3>3. \A u \in Past(day + 1) : (\A v \in Past(day + 1) : v.day <= u.day) => u.day = day
      BY <1>5, <3>1, <3>2
    <3>4. \A u \in trs : u.day = day => (u.kind = "DEVIATE" <=> s[day] = TRUE)
      BY <1>5
    <3>5. \A u \in Past(day + 1) : u \in trs
      OBVIOUS
    <3>. HIDE DEF Past
    <3>6. StateOn(trs, day + 1) <=> s[day] = TRUE
      BY <1>6, <3>1, <3>2, <3>3, <3>4, <3>5, Zenon
    <3>7. StateOn(trs, day + 1) = s[day]
      BY <3>6, <1>4, <1>7, <2>1, Zenon
    <3>. QED  BY <3>7, <2>1
  <2>. QED  BY <2>2, <2>3
<1>. HIDE DEF S
<1>10. \A day \in 0..n : day \in S
  BY <1>8, <1>9, EachUpTo
<1>. QED
  BY <1>2, <1>3, <1>10, Zenon DEF S

\* What the tables of prepare_inputs.py tell.
PrepareTells(inp, sc) ==
  /\ inp.timing = sc.timing
  /\ inp.perf = [d \in Devices |-> PerfItems(sc, d)]
  /\ \A d \in Devices, k \in 0..(LastTick \div Hour) :
       HasRow(inp, d, k * Hour) <=> RoundsIn(sc, d, k * Hour) # {}
  /\ DOMAIN inp.days = DayKeys(sc)
  /\ \A key \in DayKeys(sc) : inp.days[key] = DayRow(sc, key[1], key[2], key[3])
  /\ DOMAIN inp.evaluable = {<<key[1], key[2]>> : key \in DayKeys(sc)}
  /\ \A x \in DOMAIN inp.evaluable : inp.evaluable[x] = sc.verdicts[x[1]][x[2]].evaluable

LEMMA PrepareFields ==
  ASSUME NEW sc, IsScenario(sc), NEW inp, inp = Prepare(sc)
  PROVE  PrepareTells(inp, sc)
<1>. DEFINE hours == {k * Hour : k \in 0..(LastTick \div Hour)}
            rows == {x \in Devices \X hours : RoundsIn(sc, x[1], x[2]) # {}}
            frozen == {d \in Devices : FrozenRounds(sc, d) # {}}
            days == UNION {{d} \X (DOMAIN sc.verdicts[d]) \X Channels : d \in Devices}
            H == [x \in rows |-> HourRow(sc, x[1], x[2])]
            P == [d \in Devices |-> PerfItems(sc, d)]
            D == [x \in days |-> DayRow(sc, x[1], x[2], x[3])]
            Z == {<<y[1], y[2]>> : y \in days}
            V == [x \in Z |-> sc.verdicts[x[1]][x[2]].evaluable]
            B == [d \in Devices |->
                    {[ts |-> b.ts, emitted |-> b.emitted] : b \in {x \in sc.bursts : x.device = d}}]
            R == [x \in frozen \X Active |-> RefWidth]
            F == [d \in frozen |-> Min({r.ts : r \in FrozenRounds(sc, d)})]
            T == sc.timing
<1>1. inp = [timing |-> T, hours |-> H, perf |-> P, days |-> D, evaluable |-> V, bursts |-> B,
             refs |-> R, freeze |-> F]
  BY Zenon DEF Prepare
<1>2. days = DayKeys(sc)
  <2>1. ASSUME NEW x \in days
        PROVE  x \in DayKeys(sc)
    <3>1. PICK d \in Devices : x \in {d} \X (DOMAIN sc.verdicts[d]) \X Channels
      OBVIOUS
    <3>3. x = <<d, x[2], x[3]>> /\ x[2] \in DOMAIN sc.verdicts[d] /\ x[3] \in Channels
      BY <3>1
    <3>2. x[2] \in 1..LastDay
      BY <3>3 DEF IsScenario
    <3>. QED  BY <3>2, <3>3 DEF DayKeys
  <2>2. ASSUME NEW x \in DayKeys(sc)
        PROVE  x \in days
    <3>1. x = <<x[1], x[2], x[3]>> /\ x[1] \in Devices /\ x[2] \in DOMAIN sc.verdicts[x[1]]
          /\ x[3] \in Channels
      BY DEF DayKeys
    <3>2. x \in {x[1]} \X (DOMAIN sc.verdicts[x[1]]) \X Channels
      BY <3>1
    <3>. QED  BY <3>1, <3>2
  <2>. HIDE DEF days
  <2>. QED  BY <2>1, <2>2
<1>3. ASSUME NEW d \in Devices, NEW k \in 0..(LastTick \div Hour)
      PROVE  <<d, k * Hour>> \in rows <=> RoundsIn(sc, d, k * Hour) # {}
  <2>. DEFINE y == k * Hour
              x == <<d, y>>
  <2>1. y \in hours
    BY Zenon
  <2>. HIDE DEF hours, y
  <2>2. x \in Devices \X hours /\ x[1] = d /\ x[2] = y
    BY <2>1
  <2>. HIDE DEF x
  <2>3. x \in rows <=> RoundsIn(sc, d, y) # {}
    BY <2>2, Zenon
  <2>. QED  BY <2>3 DEF x, y
<1>4. DOMAIN H = rows /\ DOMAIN D = days /\ DOMAIN V = Z
  BY Zenon
<1>5. (\A x \in days : D[x] = DayRow(sc, x[1], x[2], x[3]))
      /\ \A x \in Z : V[x] = sc.verdicts[x[1]][x[2]].evaluable
  BY Zenon
<1>6. Z = {<<key[1], key[2]>> : key \in DayKeys(sc)}
  BY <1>2, Zenon
<1>. HIDE DEF H, P, D, V, B, R, F, T, rows, days, Z
<1>7. inp.timing = T /\ inp.hours = H /\ inp.perf = P /\ inp.days = D /\ inp.evaluable = V
  BY <1>1
<1>8. \A d \in Devices, k \in 0..(LastTick \div Hour) :
        HasRow(inp, d, k * Hour) <=> RoundsIn(sc, d, k * Hour) # {}
  BY <1>3, <1>4, <1>7, Zenon DEF HasRow
<1>9. DOMAIN inp.days = DayKeys(sc)
      /\ \A key \in DayKeys(sc) : inp.days[key] = DayRow(sc, key[1], key[2], key[3])
  BY <1>2, <1>4, <1>5, <1>7, Zenon
<1>10. /\ DOMAIN inp.evaluable = {<<key[1], key[2]>> : key \in DayKeys(sc)}
       /\ \A x \in DOMAIN inp.evaluable : inp.evaluable[x] = sc.verdicts[x[1]][x[2]].evaluable
  BY <1>4, <1>5, <1>6, <1>7, Zenon
<1>. QED
  BY <1>7, <1>8, <1>9, <1>10, Zenon DEF PrepareTells, T, P

\* The tables tell of the performance layer and of the days what the scenario says.
LEMMA PrepareSame ==
  ASSUME NEW sc, IsScenario(sc), NEW inp, inp = Prepare(sc), NEW f, f = Facts(sc), NEW c
  PROVE  SameFacts(inp, f, c)
<1>1. PrepareTells(inp, sc) /\ TellsOf(f, sc)
  BY PrepareFields, FactsFields
<1>2. inp.timing = f.timing /\ inp.perf = f.perf
  BY <1>1, Zenon DEF PrepareTells, TellsOf
<1>3. inp.evaluable = f.evaluable \/ \A x : (x \in DOMAIN inp.evaluable /\ inp.evaluable[x])
                                              <=> (x \in DOMAIN f.evaluable /\ f.evaluable[x])
  BY <1>1, Zenon DEF PrepareTells, TellsOf
<1>4. \A d, day : Evaluable(inp, d, day) <=> Evaluable(f, d, day)
  BY <1>3, Zenon DEF Evaluable
<1>5. ASSUME NEW key \in DayKeys(sc)
      PROVE  inp.days[key].deviated <=> f.days[key].deviated
  <2>1. /\ key[2] \in 0..LastDay /\ key[2] \in 1..LastDay /\ LastDay \in Nat
    BY ParamsAssumption DEF DayKeys
  <2>. DEFINE trs == LmTransitions(sc.verdicts[key[1]], key[3], LastDay)
              b == StateOn(trs, key[2] + 1)
              on == {t \in trs : t.day = key[2]}
              tr == IF on = {} THEN "none" ELSE (CHOOSE t \in on : TRUE).kind
              e == sc.verdicts[key[1]][key[2]].evaluable
  <2>2. inp.days[key] = [evaluable |-> e, deviated |-> b, transition |-> tr]
    BY <1>1, Zenon DEF PrepareTells, DayRow
  <2>3. b <=> EndState(sc.verdicts[key[1]], key[3], LastDay)[key[2]]
    BY <2>1, StateOnIsEndState
  <2>. HIDE DEF b, tr, e
  <2>4. inp.days[key].deviated = b
    BY <2>2
  <2>5. f.days[key].deviated = EndState(sc.verdicts[key[1]], key[3], LastDay)[key[2]]
    BY <1>1, Zenon DEF TellsOf, Verdict
  <2>. QED  BY <2>3, <2>4, <2>5, Zenon
<1>6. DOMAIN inp.days = DayKeys(sc) /\ DOMAIN f.days = DayKeys(sc)
  BY <1>1, Zenon DEF PrepareTells, TellsOf
<1>7. \A d, day, ch : DataDev(inp, d, day, ch) <=> DataDev(f, d, day, ch)
  BY <1>5, <1>6, Zenon DEF DataDev
<1>. QED
  BY <1>2, <1>4, <1>7, Zenon DEF SameFacts

\* The devices with a row in an hour are those with readings in it.
LEMMA PrepareRows ==
  ASSUME NEW sc, IsScenario(sc), NEW inp, inp = Prepare(sc), NEW k \in 0..(LastTick \div Hour)
  PROVE  {d \in Devices : HasRow(inp, d, k * Hour)} = RowsAt(sc, k * Hour)
<1>1. \A d \in Devices : HasRow(inp, d, k * Hour) <=> RoundsIn(sc, d, k * Hour) # {}
  BY PrepareFields, Zenon DEF PrepareTells
<1>2. ASSUME NEW r \in sc.rounds
      PROVE  k * Hour <= r.ts /\ r.ts < k * Hour + Hour <=> WindowOf(r.ts) = k * Hour
  <2>1. r.ts \in Nat
    BY DEF IsScenario
  <2>2. k \in Int
    OBVIOUS
  <2>. QED  BY <2>1, <2>2 DEF WindowOf, Hour
<1>3. \A d : RoundsIn(sc, d, k * Hour) # {} <=> \E r \in sc.rounds : r.device = d /\ WindowOf(r.ts) = k * Hour
  <2>1. \A d : RoundsIn(sc, d, k * Hour) # {} <=> \E r \in sc.rounds : /\ r.device = d /\ k * Hour <= r.ts
                                                                       /\ r.ts < k * Hour + Hour
    BY Zenon DEF RoundsIn
  <2>. QED  BY <1>2, <2>1, Zenon
<1>. QED
  BY <1>1, <1>3, Zenon DEF RowsAt

--------------------------------------------------------------------------------
(* The offline run gives the commands of the history. *)

LastHour == LastTick \div Hour

\* The last tick ends the last hour.
LEMMA LastHourIsTick == LastHour \in Nat /\ LastHour * Hour = LastTick
<1>1. LastDay \in 1..LastDay
  BY ParamsAssumption
<1>2. LastTick \in Nat /\ \E k \in Nat : LastTick = k * Hour
  BY <1>1, BoundaryOfDay DEF LastTick
<1>. QED
  BY <1>2 DEF LastHour, Hour

RunStep(f, inp, k) ==
  IF k = 0 THEN [books |-> EmptyBooks, out |-> {}] ELSE NextTick(f[k - 1], inp, k * Hour)

\* The stages of a run of n ticks.
IsRun(s, inp, n) == \A k \in 0..n : s[k] = RunStep(s, inp, k)

LEMMA RunExists ==
  ASSUME NEW inp, NEW n \in Nat
  PROVE  \E s : s = [k \in 0..n |-> RunStep(s, inp, k)]
<1>. DEFINE Some == {m \in 0..n : \E s : s = [k \in 0..m |-> RunStep(s, inp, k)]}
<1>1. 0 \in Some
  <2>. DEFINE e == [books |-> EmptyBooks, out |-> {}]
              s == [k \in 0..0 |-> e]
  <2>1. \A k \in 0..0 : RunStep(s, inp, k) = e
    <3>1. \A k \in 0..0 : k = 0
      OBVIOUS
    <3>. QED  BY <3>1, Zenon DEF RunStep
  <2>2. s = [k \in 0..0 |-> RunStep(s, inp, k)]
    <3>. HIDE DEF e
    <3>. QED  BY <2>1
  <2>. HIDE DEF s
  <2>. QED  BY <2>2
<1>2. ASSUME NEW m \in 1..n, m - 1 \in Some
      PROVE  m \in Some
  <2>1. PICK s : s = [k \in 0..(m - 1) |-> RunStep(s, inp, k)]
    BY <1>2
  <2>. DEFINE last == NextTick(s[m - 1], inp, m * Hour)
              r == [k \in 0..m |-> IF k = m THEN last ELSE s[k]]
  <2>2. \A k \in 0..(m - 1) : s[k] = RunStep(s, inp, k)
    BY <2>1, Zenon
  <2>3. /\ m # 0 /\ m - 1 \in 0..m /\ m - 1 # m /\ m \in 0..m
        /\ \A k \in 0..m : k # m => k \in 0..(m - 1)
        /\ \A k \in 0..(m - 1) : k # m /\ k \in 0..m
        /\ \A k \in 0..(m - 1) : k # 0 => k - 1 \in 0..(m - 1)
    OBVIOUS
  <2>. HIDE DEF last
  <2>4. r[m] = last /\ \A k \in 0..(m - 1) : r[k] = s[k]
    BY <2>3
  <2>5. ASSUME NEW k \in 0..m
        PROVE  r[k] = RunStep(r, inp, k)
    <3>. HIDE DEF r
    <3>1. CASE k = m
      <4>1. r[m - 1] = s[m - 1]
        <5>1. m - 1 \in 0..(m - 1)
          OBVIOUS
        <5>. QED  BY <5>1, <2>4
      <4>2. RunStep(r, inp, m) = NextTick(r[m - 1], inp, m * Hour)
        BY <2>3, Zenon DEF RunStep
      <4>. QED  BY <3>1, <4>1, <4>2, <2>4, Zenon DEF last
    <3>2. CASE k # m
      <4>1. k \in 0..(m - 1)
        BY <2>3, <3>2
      <4>2. r[k] = s[k] /\ s[k] = RunStep(s, inp, k)
        BY <4>1, <2>2, <2>4
      <4>3. RunStep(s, inp, k) = RunStep(r, inp, k)
        <5>1. CASE k = 0
          BY <5>1, Zenon DEF RunStep
        <5>2. CASE k # 0
          <6>1. r[k - 1] = s[k - 1]
            BY <4>1, <5>2, <2>3, <2>4
          <6>. QED  BY <5>2, <6>1, Zenon DEF RunStep
        <5>. QED  BY <5>1, <5>2
      <4>. QED  BY <4>2, <4>3, Zenon
    <3>. QED  BY <3>1, <3>2
  <2>6. r = [k \in 0..m |-> RunStep(r, inp, k)]
    <3>1. r = [k \in 0..m |-> r[k]]
      OBVIOUS
    <3>. HIDE DEF r
    <3>. QED  BY <3>1, <2>5
  <2>7. m \in 0..n
    OBVIOUS
  <2>. HIDE DEF r
  <2>. QED  BY <2>6, <2>7
<1>. HIDE DEF Some
<1>3. \A m \in 0..n : m \in Some
  BY <1>1, <1>2, EachUpTo
<1>4. n \in Some
  BY <1>3
<1>. QED
  BY <1>4 DEF Some

\* decide.py's run is the last stage.
LEMMA RunStages ==
  ASSUME NEW inp
  PROVE  \E s : IsRun(s, inp, LastHour) /\ Run(inp) = s[LastHour]
<1>. DEFINE n == LastHour
            Step(f, k) == IF k = 0 THEN [books |-> EmptyBooks, out |-> {}]
                          ELSE NextTick(f[k - 1], inp, k * Hour)
            s == CHOOSE f : f = [k \in 0..n |-> RunStep(f, inp, k)]
<1>1. Run(inp) = s[n]
  BY Zenon DEF Run, LastHour, RunStep
<1>2. n \in Nat
  BY LastHourIsTick
<1>3. s = [k \in 0..n |-> RunStep(s, inp, k)]
  BY <1>2, RunExists, Zenon
<1>. HIDE DEF s
<1>4. \A k \in 0..n : s[k] = RunStep(s, inp, k)
  BY <1>3, Zenon
<1>. QED
  BY <1>1, <1>4, Zenon DEF IsRun

\* A history of any length within the run exists.
LEMMA HistoryExists ==
  ASSUME NEW sc, NEW n \in Nat
  PROVE  \E H : IsHistory(H, sc, n)
<1>. DEFINE Some == {m \in 0..n : \E H : IsHistory(H, sc, m)}
<1>1. 0 \in Some
  <2>. DEFINE H == [k \in 0..0 |-> EmptyBooks]
  <2>1. IsHistory(H, sc, 0)
    BY DEF IsHistory
  <2>. HIDE DEF H
  <2>. QED  BY <2>1
<1>2. ASSUME NEW m \in 1..n, m - 1 \in Some
      PROVE  m \in Some
  <2>1. PICK H : IsHistory(H, sc, m - 1)
    BY <1>2
  <2>2. m - 1 \in Nat /\ m - 1 + 1 = m /\ m \in 0..n
    OBVIOUS
  <2>3. PICK G : Longer(G, H, sc, m - 1, m - 1 + 1)
    BY <2>1, <2>2, HistoryMore
  <2>4. IsHistory(G, sc, m)
    BY <2>2, <2>3, Zenon DEF Longer
  <2>. QED  BY <2>2, <2>4
<1>. HIDE DEF Some
<1>3. \A m \in 0..n : m \in Some
  BY <1>1, <1>2, EachUpTo
<1>4. n \in Some
  BY <1>3
<1>. QED
  BY <1>4 DEF Some

\* There is one history: two agree as far as both go.
LEMMA HistoriesMeet ==
  ASSUME NEW sc, NEW n \in Nat, NEW m \in Nat, n <= m, NEW H, IsHistory(H, sc, n), NEW G, IsHistory(G, sc, m)
  PROVE  CommandsIn(H, sc, n) = CommandsIn(G, sc, n)
<1>. DEFINE S == {k \in 0..n : H[k] = G[k]}
<1>1. 0 \in S
  BY DEF IsHistory
<1>2. ASSUME NEW k \in 1..n, k - 1 \in S
      PROVE  k \in S
  <2>1. k \in 1..m /\ k \in 0..n
    OBVIOUS
  <2>2. H[k - 1] = G[k - 1]
    BY <1>2
  <2>3. H[k] = Core(H, sc, k).books /\ G[k] = Core(G, sc, k).books
    BY <2>1, Zenon DEF IsHistory
  <2>4. Core(H, sc, k) = Core(G, sc, k)
    BY <2>2, Zenon DEF Core
  <2>. QED  BY <2>1, <2>3, <2>4
<1>. HIDE DEF S
<1>3. \A k \in 0..n : k \in S
  BY <1>1, <1>2, EachUpTo
<1>4. ASSUME NEW k \in 1..n
      PROVE  Core(H, sc, k) = Core(G, sc, k)
  <2>1. k - 1 \in 0..n
    OBVIOUS
  <2>2. H[k - 1] = G[k - 1]
    BY <1>3, <2>1 DEF S
  <2>. QED  BY <2>2, Zenon DEF Core
<1>. DEFINE C == CommandsIn(H, sc, n)
            D == CommandsIn(G, sc, n)
<1>5. \A r : r \in C <=> r \in D
  BY <1>4, Zenon DEF CommandsIn
<1>. HIDE DEF C, D
<1>6. C = D
  BY <1>5
<1>. QED
  BY <1>6, Zenon DEF C, D

\* After k ticks the offline run has the books and the commands of the history.
RunStands(s, H, sc, k) ==
  /\ IsBooks(s[k].books) /\ Same(s[k].books, H[k])
  /\ \A r : (r \in s[k].out /\ r.type = "command") <=> r \in CommandsIn(H, sc, k)

LEMMA RunFollows ==
  ASSUME NEW sc, IsScenario(sc), NEW inp, inp = Prepare(sc), NEW H, IsHistory(H, sc, LastHour),
         NEW s, IsRun(s, inp, LastHour)
  PROVE  RunStands(s, H, sc, LastHour)
<1>. DEFINE n == LastHour
            S == {k \in 0..n : RunStands(s, H, sc, k)}
<1>1. n \in Nat /\ n * Hour <= LastTick /\ LastTick \in Int
  BY LastHourIsTick, DaysInOrder, ParamsAssumption DEF LastTick
<1>2. \A k \in 0..n : TypedBooks(H[k])
  BY <1>1, HistoryTyped
<1>3. 0 \in S
  <2>1. 0 \in 0..n
    BY <1>1
  <2>2. s[0] = [books |-> EmptyBooks, out |-> {}]
    BY <2>1, Zenon DEF IsRun, RunStep
  <2>3. s[0].books = EmptyBooks /\ s[0].out = {}
    BY <2>2
  <2>4. H[0] = EmptyBooks /\ IsBooks(EmptyBooks)
    BY EmptyTyped, Zenon DEF IsHistory, TypedBooks
  <2>5. CommandsIn(H, sc, 0) = {}
    <3>1. 1..0 = {}
      OBVIOUS
    <3>. QED  BY <3>1 DEF CommandsIn
  <2>6. RunStands(s, H, sc, 0)
    BY <2>3, <2>4, <2>5, Zenon DEF RunStands, Same
  <2>. QED  BY <2>1, <2>6
<1>4. ASSUME NEW k \in 1..n, k - 1 \in S
      PROVE  k \in S
  <2>. DEFINE t == k * Hour
              f == Facts(sc)
              c == DecisionAt(t)
              h == H[k - 1]
              bk == s[k - 1].books
              rows == RowsAt(sc, t - Hour)
              step == TickAt(bk, inp, t)
              core == Core(H, sc, k)
  <2>1. /\ t \in Nat /\ t >= Hour /\ t <= LastTick /\ k \in Nat /\ k >= 1 /\ k # 0
        /\ k \in 0..n /\ k - 1 \in 0..n
    BY <1>1, TickInRange
  <2>2. RunStands(s, H, sc, k - 1)
    BY <1>4
  <2>3. IsBooks(bk) /\ IsBooks(h) /\ Same(bk, h)
    BY <1>2, <2>1, <2>2, Zenon DEF RunStands, TypedBooks
  <2>4. s[k] = NextTick(s[k - 1], inp, t)
    BY <2>1, Zenon DEF IsRun, RunStep
  <2>5. s[k].books = step.books /\ s[k].out = s[k - 1].out \cup step.out
    <3>. DEFINE B == step.books
                O == s[k - 1].out \cup step.out
    <3>1. s[k] = [books |-> B, out |-> O]
      BY <2>4, Zenon DEF NextTick, AlsoOut
    <3>. HIDE DEF B, O
    <3>2. s[k].books = B /\ s[k].out = O
      BY <3>1
    <3>. QED  BY <3>2 DEF B, O
  <2>6. core = CoreOn(h, f, rows, c) /\ H[k] = core.books
    BY Zenon DEF Core, CoreTick, IsHistory
  <2>7. SameFacts(inp, f, c)
    BY PrepareSame
  <2>8. rows = {d \in Devices : HasRow(inp, d, t - Hour)}
    <3>1. k - 1 \in 0..(LastTick \div Hour)
      BY <2>1 DEF LastHour
    <3>2. t - Hour = (k - 1) * Hour
      BY <2>1 DEF Hour
    <3>3. {d \in Devices : HasRow(inp, d, (k - 1) * Hour)} = RowsAt(sc, (k - 1) * Hour)
      BY <3>1, PrepareRows
    <3>. QED  BY <3>2, <3>3
  <2>9. CommandsIn(H, sc, k) = CommandsIn(H, sc, k - 1) \cup core.out
    BY <2>1, CommandsGrow
  <2>. HIDE DEF t, f, h, bk, rows, core, c
  <2>10. SameTick(step, core)
    <3>1. c = DecisionAt(t)
      BY DEF c
    <3>. HIDE DEF step
    <3>2. step = TickAt(bk, inp, t)
      BY DEF step
    <3>. QED  BY <2>1, <2>3, <2>6, <2>7, <2>8, <3>1, <3>2, TickSame
  <2>. HIDE DEF step
  <2>11. IsBooks(s[k].books) /\ Same(s[k].books, H[k])
    BY <2>5, <2>6, <2>10, Zenon DEF SameTick
  <2>12. \A r : (r \in s[k].out /\ r.type = "command") <=> r \in CommandsIn(H, sc, k)
    <3>1. \A r : (r \in s[k - 1].out /\ r.type = "command") <=> r \in CommandsIn(H, sc, k - 1)
      BY <2>2, Zenon DEF RunStands
    <3>2. \A r : (r \in step.out /\ r.type = "command") <=> r \in core.out
      BY <2>10, Zenon DEF SameTick
    <3>. QED  BY <2>5, <2>9, <3>1, <3>2
  <2>13. RunStands(s, H, sc, k)
    BY <2>11, <2>12, Zenon DEF RunStands
  <2>. QED  BY <2>1, <2>13
<1>. HIDE DEF S
<1>5. \A k \in 0..n : k \in S
  BY <1>1, <1>3, <1>4, EachUpTo
<1>6. n \in 0..n
  BY <1>1
<1>. QED
  BY <1>5, <1>6 DEF S

\* The commands of the offline run up to an hour are those of a history that long.
LEMMA OfflineCommands ==
  ASSUME NEW sc, IsScenario(sc), NEW n \in Nat, n * Hour <= LastTick, NEW H, IsHistory(H, sc, n),
         NEW out, out = Run(Prepare(sc)).out
  PROVE  \A r : r \in CommandsIn(H, sc, n) <=> /\ r \in out /\ r.type = "command"
                                               /\ TickTime(r) <= n * Hour + Slide
<1>. DEFINE m == LastHour
<1>1. m \in Nat /\ n <= m /\ m * Hour <= LastTick
  <2>1. LastTick \in Int
    BY DaysInOrder, ParamsAssumption DEF LastTick
  <2>. QED  BY <2>1, LastHourIsTick DEF Hour
<1>2. PICK G : IsHistory(G, sc, m)
  BY <1>1, HistoryExists
<1>3. CommandsIn(H, sc, n) = CommandsIn(G, sc, n)
  BY <1>1, <1>2, HistoriesMeet
<1>4. PICK s : IsRun(s, Prepare(sc), m) /\ Run(Prepare(sc)) = s[m]
  BY RunStages
<1>5. RunStands(s, G, sc, m)
  BY <1>2, <1>4, RunFollows
<1>6. \A r : (r \in out /\ r.type = "command") <=> r \in CommandsIn(G, sc, m)
  BY <1>4, <1>5, Zenon DEF RunStands
<1>7. \A k \in 1..m : \A r \in Core(G, sc, k).out : r.at = k * Hour
  BY <1>1, <1>2, HistoryStep
<1>. HIDE DEF m
<1>8. ASSUME NEW r
      PROVE  r \in CommandsIn(G, sc, n) <=> r \in CommandsIn(G, sc, m) /\ r.at <= n * Hour
  <2>1. ASSUME r \in CommandsIn(G, sc, n)
        PROVE  r \in CommandsIn(G, sc, m) /\ r.at <= n * Hour
    <3>1. PICK k \in 1..n : r \in Core(G, sc, k).out
      BY <2>1, Zenon DEF CommandsIn
    <3>2. k \in 1..m /\ k * Hour <= n * Hour
      BY <1>1, <3>1 DEF Hour
    <3>3. r.at = k * Hour
      BY <1>7, <3>1, <3>2
    <3>4. r \in CommandsIn(G, sc, m)
      BY <3>1, <3>2, Zenon DEF CommandsIn
    <3>. QED  BY <3>2, <3>3, <3>4
  <2>2. ASSUME r \in CommandsIn(G, sc, m), r.at <= n * Hour
        PROVE  r \in CommandsIn(G, sc, n)
    <3>1. PICK k \in 1..m : r \in Core(G, sc, k).out
      BY <2>2, Zenon DEF CommandsIn
    <3>2. r.at = k * Hour
      BY <1>7, <3>1
    <3>3. k \in 1..n
      BY <1>1, <2>2, <3>1, <3>2 DEF Hour
    <3>. QED  BY <3>1, <3>3, Zenon DEF CommandsIn
  <2>. QED  BY <2>1, <2>2
<1>9. ASSUME NEW r, r \in CommandsIn(G, sc, m)
      PROVE  r.at <= n * Hour <=> TickTime(r) <= n * Hour + Slide
  <2>1. PICK k \in 1..m : r \in Core(G, sc, k).out
    BY <1>9, Zenon DEF CommandsIn
  <2>2. r.at = k * Hour /\ k \in Int
    BY <1>7, <2>1
  <2>. QED  BY <2>2 DEF TickTime, Hour, Slide
<1>. QED
  BY <1>3, <1>6, <1>8, <1>9, Zenon

\* Whatever the order in which the streams arrive, wherever a checkpoint is taken
\* and after a restart: the commands that are out are exactly those decide.py
\* writes up to the same tick over the tables of prepare_inputs.py.
THEOREM FleetCommandsAreOffline == Spec => []CommandsAreOffline
<1>. DEFINE Kept == offline = Run(Prepare(scenario)).out
<1>1. Init => Kept
  BY Zenon DEF Init
<1>2. Kept /\ [Next]_vars => Kept'
  <2>1. SUFFICES ASSUME Kept, [Next]_vars  PROVE scenario' = scenario /\ offline' = offline
    BY Zenon
  <2>2. CASE Next
    BY <2>1, <2>2, Zenon DEF Next, ProcessElement, OnTimer, Checkpoint, Restart, Complete, vars
  <2>3. CASE UNCHANGED vars
    BY <2>3, Zenon DEF vars
  <2>. QED  BY <2>1, <2>2, <2>3
<1>3. FleetInv /\ Kept => CommandsAreOffline
  <2>1. SUFFICES ASSUME FleetInv, Kept  PROVE CommandsAreOffline
    BY Zenon
  <2>20. PICK n \in Nat : \E H : InHistory(H, n)
    BY <2>1, Zenon DEF FleetInv
  <2>2. PICK H : InHistory(H, n)
    BY <2>20
  <2>3. IsScenario(scenario)
    BY <2>1, ScenarioOf
  <2>4. /\ n * Hour <= LastTick /\ reached = n * Hour
        /\ IsHistory(H, scenario, n) /\ Commands = CommandsIn(H, scenario, n)
    BY <2>2, Zenon DEF InHistory
  <2>5. \A r : r \in Commands <=> /\ r \in offline /\ r.type = "command"
                                  /\ TickTime(r) <= reached + Slide
    BY <2>1, <2>3, <2>4, OfflineCommands
  <2>. DEFINE C == Commands
              D == {r \in UpTo(offline, reached + Slide) : r.type = "command"}
  <2>6. \A r : r \in C <=> r \in D
    BY <2>5, Zenon DEF UpTo
  <2>. HIDE DEF C, D
  <2>7. C = D
    BY <2>6
  <2>. QED  BY <2>7, Zenon DEF CommandsAreOffline, C, D
<1>. HIDE DEF Kept
<1>. QED
  BY <1>1, <1>2, <1>3, FleetInvariant, PTL DEF Spec
================================================================================
