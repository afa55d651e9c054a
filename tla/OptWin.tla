--------------------------------- MODULE OptWin ---------------------------------
(***************************************************************************)
(* The OPTWIN drift detector and the persistence gate behind it, step for  *)
(* step (m5b/optwin_offline.py; OptWinDetector and DriftGate online).      *)
(*                                                                         *)
(* The detector keeps the last WMax elements in a ring, split at Cut[n]    *)
(* into a historical and a new part, with a sum and a sum of squares of    *)
(* each.  An alarm of the F test or the T test empties it.  Elements and   *)
(* critical values are integers here, medians are doubled, and BETA, which *)
(* only keeps a quotient defined, is infinitely small.                     *)
(***************************************************************************)
EXTENDS Integers, Sequences, FiniteSets, FiniteSetsExt, TLC

CONSTANTS WMin, WMax,     \* W_MIN = 30 and the table's wmax
          Cut,            \* window length -> length of the historical part
          FCrit, TCrit,   \* critical values, the second squared; both in halves
          MedianSpan, K,  \* elements of the sliding median; of the whole check
          Rho             \* robustness, squared, in quarters

Windows == WMin..WMax

ASSUME OptWinAssumption ==
  /\ WMin \in Nat /\ WMax \in Nat /\ WMin <= WMax
  /\ Cut \in [Windows -> Nat] /\ \A n \in Windows : 2 <= Cut[n] /\ Cut[n] + 2 <= n
  /\ FCrit \in [Windows -> Nat] /\ TCrit \in [Windows -> Nat]
  /\ MedianSpan \in Nat \ {0} /\ K \in Nat /\ K >= MedianSpan
  /\ Rho \in Nat

Capacity == WMax + 1

Total(S, f) == MapThenSumSet(LAMBDA i : f[i], S)
Squares(S, f) == MapThenSumSet(LAMBDA i : f[i] * f[i], S)

\* sorted(a)[k - 1]: the least value that at least k elements do not exceed.
Ranked(s, k) == Min({v \in Range(s) : Cardinality({i \in DOMAIN s : s[i] <= v}) >= k})

\* _median, doubled.
Median(s) ==
  IF Len(s) % 2 = 1 THEN 2 * Ranked(s, Len(s) \div 2 + 1)
  ELSE Ranked(s, Len(s) \div 2) + Ranked(s, Len(s) \div 2 + 1)

--------------------------------------------------------------------------------
(* The detector *)

NoAlarm == [test |-> "none"]

NewDetector ==
  [buf |-> [i \in 0..WMax |-> 0], head |-> 0, n |-> 0, h |-> 0,
   sumH |-> 0, sqH |-> 0, sumN |-> 0, sqN |-> 0]

\* clear() leaves the ring as it is.
Clear(d) == [NewDetector EXCEPT !.buf = d.buf]

\* The elements of the window, oldest first.
Get(d, i) == d.buf[(d.head + i) % Capacity]

Append1(d, x) ==
  [d EXCEPT !.buf[(d.head + d.n) % Capacity] = x, !.n = @ + 1, !.sumN = @ + x, !.sqN = @ + x * x]

\* Mutant: an element that leaves the historical part stays in its sum of squares.
EvictSumOnly(d) ==
  IF d.n <= WMax THEN d
  ELSE LET y == d.buf[d.head]
           past == d.h > 0
       IN  [d EXCEPT !.head = (@ + 1) % Capacity, !.n = @ - 1,
              !.h = IF past THEN @ - 1 ELSE @,
              !.sumH = IF past THEN @ - y ELSE @,
              !.sumN = IF past THEN @ ELSE @ - y, !.sqN = IF past THEN @ ELSE @ - y * y]

Evict(d) ==
  IF d.n <= WMax THEN d
  ELSE LET y == d.buf[d.head]
           past == d.h > 0
       IN  [d EXCEPT !.head = (@ + 1) % Capacity, !.n = @ - 1,
              !.h = IF past THEN @ - 1 ELSE @,
              !.sumH = IF past THEN @ - y ELSE @, !.sqH = IF past THEN @ - y * y ELSE @,
              !.sumN = IF past THEN @ ELSE @ - y, !.sqN = IF past THEN @ ELSE @ - y * y]

\* The boundary moves to the cut of the present length, one element at a time in
\* the code, in either direction.
Shift(d, c, s, q) ==
  [d EXCEPT !.h = c, !.sumH = @ + s, !.sqH = @ + q, !.sumN = @ - s, !.sqN = @ - q]
MoveBoundary(d, c, elements) ==
  LET in == d.h..(c - 1)
      out == c..(d.h - 1)
  IN  Shift(d, c, Total(in, elements) - Total(out, elements),
                  Squares(in, elements) - Squares(out, elements))
Split(d) == MoveBoundary(d, Cut[d.n], [i \in 0..(d.n - 1) |-> Get(d, i)])

\* _variance as a fraction.
Variance(s, q, k) == [num |-> k * q - s * s, den |-> k * (k - 1)]

\* The F test: the new part scatters more.
Scattered(d) ==
  LET vH == Variance(d.sumH, d.sqH, d.h)
      vN == Variance(d.sumN, d.sqN, d.n - d.h)
  IN  2 * vN.num * vH.den > FCrit[d.n] * vH.num * vN.den

Rise(d) == d.sumN * d.h - d.sumH * (d.n - d.h)      \* mean_n - mean_h, times h m

Constant(d) ==
  /\ Variance(d.sumH, d.sqH, d.h).num = 0
  /\ Variance(d.sumN, d.sqN, d.n - d.h).num = 0

\* The T test: the new part lies higher.
Higher(d) ==
  LET m == d.n - d.h
      vH == Variance(d.sumH, d.sqH, d.h)
      vN == Variance(d.sumN, d.sqN, m)
  IN  /\ ~Constant(d)
      /\ Rise(d) > 0
      /\ 2 * Rise(d) * Rise(d) * vH.den * vN.den
           > TCrit[d.n] * d.h * m * (vH.num * m * vN.den + vN.num * d.h * vH.den)

Fired(d) ==
  IF Scattered(d) /\ Rise(d) > 0 THEN "F" ELSE IF Higher(d) THEN "T" ELSE "none"

Alarm(d, test) ==
  [test |-> test, hist |-> d.h, new |-> d.n - d.h,
   var |-> Variance(d.sumH, d.sqH, d.h),
   median |-> Median([i \in 1..d.h |-> Get(d, i - 1)])]

\* Mutant: an alarm leaves the window as it is.
TestedKeeping(d, test) ==
  [det |-> d, alarm |-> IF test = "none" THEN NoAlarm ELSE Alarm(d, test),
   unraised |-> Scattered(d) /\ Rise(d) <= 0]

\* update: unraised where f_without_rise is counted.
Tested(d, test) ==
  [det |-> IF test = "none" THEN d ELSE Clear(d),
   alarm |-> IF test = "none" THEN NoAlarm ELSE Alarm(d, test),
   unraised |-> Scattered(d) /\ Rise(d) <= 0]
TestWindow(d) == Tested(d, Fired(d))
Taken(d) ==
  IF d.n < WMin THEN [det |-> d, alarm |-> NoAlarm, unraised |-> FALSE] ELSE TestWindow(Split(d))
Update(d, x) == Taken(Evict(Append1(d, x)))

--------------------------------------------------------------------------------
(* The gate *)

NewGate == [last |-> <<>>, pending |-> FALSE, seen |-> 0, candidateTs |-> 0, origin |-> NoAlarm]

\* med > reference + robustness * hist_sd, for the alarm that began the check.
Above(med, origin) ==
  LET d == med - origin.median
  IN  d > 0 /\ d * d * origin.var.den > Rho * origin.var.num

LastOnes(s) == IF Len(s) > MedianSpan THEN Tail(s) ELSE s

\* An element of a running check, and its conclusion if it has one.
Reached(g) ==
  IF Len(g.last) < MedianSpan THEN "none"
  ELSE IF ~Above(Median(g.last), g.origin) THEN "REVOKE"
  ELSE IF g.seen = K THEN "CONFIRM" ELSE "none"
Conclude(g, ts, level) ==
  IF level = "none" THEN [gate |-> g, out |-> <<>>]
  ELSE [gate |-> [g EXCEPT !.pending = FALSE],
        out |-> << [ts |-> ts, level |-> level, test |-> g.origin.test,
                    candidateTs |-> g.candidateTs, duringCheck |-> FALSE] >>]
CheckWindow(g, ts) == Conclude(g, ts, Reached(g))
Check(g, ts, x) ==
  IF ~g.pending THEN [gate |-> g, out |-> <<>>]
  ELSE CheckWindow([g EXCEPT !.seen = @ + 1, !.last = LastOnes(Append(@, x))], ts)

\* Mutant: the elements of the last check stay.
CandidateOnOld(g, ts, alarm) ==
  IF alarm = NoAlarm THEN [gate |-> g, out |-> <<>>]
  ELSE [gate |-> IF g.pending THEN g
                 ELSE [g EXCEPT !.pending = TRUE, !.seen = 0, !.candidateTs = ts, !.origin = alarm],
        out |-> << [ts |-> ts, level |-> "CANDIDATE", test |-> alarm.test,
                    candidateTs |-> ts, duringCheck |-> g.pending] >>]

\* Every alarm is a candidate; it begins a check unless one is running.
Candidate(g, ts, alarm) ==
  IF alarm = NoAlarm THEN [gate |-> g, out |-> <<>>]
  ELSE [gate |-> IF g.pending THEN g
                 ELSE [last |-> <<>>, pending |-> TRUE, seen |-> 0, candidateTs |-> ts, origin |-> alarm],
        out |-> << [ts |-> ts, level |-> "CANDIDATE", test |-> alarm.test,
                    candidateTs |-> ts, duringCheck |-> g.pending] >>]

After(out, next) == [gate |-> next.gate, out |-> out \o next.out]
AfterCheck(checked, ts, alarm) == After(checked.out, Candidate(checked.gate, ts, alarm))
OnElement(g, ts, x, alarm) == AfterCheck(Check(g, ts, x), ts, alarm)
================================================================================
