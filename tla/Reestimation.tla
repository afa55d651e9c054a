------------------------------ MODULE Reestimation ------------------------------
(***************************************************************************)
(* m6a/reestimate.py: the freeze and one level 0 over a device's whole     *)
(* table of rounds [ts, x, guard], x giving the reading of each channel or *)
(* Absent.  Medians, scales and percentiles are kept times the denominator *)
(* of their quantile, normalized values as fractions.                      *)
(***************************************************************************)
EXTENDS Integers, Sequences, FiniteSets, SequencesExt

CONSTANTS
  Channels, Light, Censor,   \* the channel read on a log scale, and its largest reading
  Log,                       \* what log1p makes of a reading, order kept
  RefBins, Epsilon           \* cells of a reference; the smallest scale, times Quarters

Absent == -1
Quarters == 4
Deciles == 10

ASSUME ReestimationAssumption ==
  /\ Light \in Channels /\ RefBins \in Nat \ {0} /\ Epsilon \in Nat
  /\ \A v, w \in DOMAIN Log : v < w => Log[v] < Log[w]

Transform(c, v) == IF c = Light THEN Log[v] ELSE v
Usable(c, x) == x[c] # Absent /\ ~(c = Light /\ x[c] = Censor)

\* The sorted sample of a channel in some rounds.
SampleOf(rounds, c) ==
  LET in == SelectSeq(rounds, LAMBDA r : Usable(c, r.x))
  IN  SortSeq([i \in DOMAIN in |-> Transform(c, in[i].x[c])], <)

\* The scaler's percentile k / d, times d: between the two neighbours.
ScalerPercentile(s, k, d) ==
  LET pos == k * (Len(s) - 1)
      lo == pos \div d
      frac == pos % d
      hi == IF frac = 0 THEN lo ELSE lo + 1
  IN  IF Len(s) = 1 THEN s[1] * d ELSE s[lo + 1] * (d - frac) + s[hi + 1] * frac

\* numpy's, times d: from the nearer neighbour.
NpPercentile(s, k, d) ==
  LET pos == k * (Len(s) - 1)
      lo == pos \div d
      frac == pos % d
      a == s[lo + 1]
      b == s[lo + 2]
  IN  IF lo >= Len(s) - 1 THEN s[Len(s)] * d
      ELSE IF 2 * frac >= d THEN b * d - (b - a) * (d - frac) ELSE a * d + (b - a) * frac

\* Each order statistic once; the cells up to each edge, and the one above the last.
RefHist(s) ==
  LET m == Len(s)
      edges == SetToSortSeq({s[(j * (m - 1)) \div RefBins + 1] : j \in 0..RefBins}, <)
      upTo(v) == Cardinality({i \in DOMAIN s : s[i] <= v})
      below == Cardinality({i \in DOMAIN s : s[i] < edges[1]})
      counts == <<0, below>> \o [i \in DOMAIN edges |-> upTo(edges[i])] \o <<m>>
  IN  [edges |-> edges, cells |-> [i \in 1..(Len(counts) - 1) |-> counts[i + 1] - counts[i]], m |-> m,
       p10 |-> NpPercentile(s, 1, Deciles), median |-> NpPercentile(s, 2, Quarters),
       p90 |-> NpPercentile(s, 9, Deciles)]

NoHist == [edges |-> <<>>, cells |-> <<>>, m |-> 0, p10 |-> 0, median |-> 0, p90 |-> 0]

\* A channel without a sample, or with one too narrow, is not scaled.
ChannelParameters(s) ==
  LET range == ScalerPercentile(s, 3, Quarters) - ScalerPercentile(s, 1, Quarters)
      narrow == range <= Epsilon
  IN  IF s = <<>> THEN [median |-> 0, scale |-> Quarters, bypass |-> TRUE, hist |-> NoHist]
      ELSE [median |-> ScalerPercentile(s, 2, Quarters), bypass |-> narrow,
            scale |-> IF narrow THEN Quarters ELSE range, hist |-> RefHist(s)]

Calibrate(rounds) == [c \in Channels |-> ChannelParameters(SampleOf(rounds, c))]

\* The first rounds of the table, whether or not they are usable; FreezeAt is their end.
Freeze(table, warmup) == Calibrate(SubSeq(table, 1, warmup))
FreezeAt(table, warmup) == table[warmup].ts

Normalize(x, cal) ==
  [c \in Channels |->
     IF x[c] = Absent THEN <<0, 1>>
     ELSE LET v == Quarters * Transform(c, x[c])
          IN  IF cal[c].bypass THEN <<v, Quarters>> ELSE <<v - cal[c].median, cal[c].scale>>]

\* level0: the parameters from [eff - span, eff) without guarded rounds, and the
\* complete rounds of [eff - length, eff) normalized by them.
LevelZero(table, eff, span, length) ==
  LET in(r, back) == eff - back <= r.ts /\ r.ts < eff
      window == SelectSeq(table, LAMBDA r : in(r, span))
      cal == Calibrate(SelectSeq(window, LAMBDA r : ~r.guard))
      back == SelectSeq(table, LAMBDA r : in(r, length) /\ \A c \in Channels : r.x[c] # Absent)
  IN  [cal |-> cal, window |-> Len(window),
       guard |-> Cardinality({i \in DOMAIN window : window[i].guard}),
       backfill |-> {[ts |-> back[i].ts, x |-> Normalize(back[i].x, cal)] : i \in DOMAIN back}]

\* What main does with a table: nothing before the freeze.
Reestimated(table, eff, warmup, span, length) ==
  IF Len(table) < warmup \/ eff <= FreezeAt(table, warmup) THEN {}
  ELSE {LevelZero(SelectSeq(table, LAMBDA r : r.ts < eff), eff, span, length)}

--------------------------------------------------------------------------------
\* The two percentiles agree, and a reference leaves nothing outside its edges.
ReferenceIsWhole(s) ==
  LET h == RefHist(s)
  IN  /\ \A q \in {<<1, 4>>, <<2, 4>>, <<3, 4>>, <<1, 10>>, <<9, 10>>} :
           ScalerPercentile(s, q[1], q[2]) = NpPercentile(s, q[1], q[2])
      /\ FoldLeft(LAMBDA a, b : a + b, 0, h.cells) = h.m
      /\ h.cells[1] = 0 /\ h.cells[Len(h.cells)] = 0
      /\ \A i \in 2..(Len(h.cells) - 1) : h.cells[i] > 0
================================================================================
