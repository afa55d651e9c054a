----------------------------- MODULE ScalerReference -----------------------------
(***************************************************************************)
(* The adaptive scaler against m6a/reestimate.py on the same rounds, as    *)
(* m6a/compare_online.py compares a run with its simulation.               *)
(***************************************************************************)
EXTENDS AdaptiveScaler, Reestimation

CONSTANT Samples     \* sorted samples for which the reference itself is checked

ASSUME RoundsCarryReadings ==
  \A table \in Inputs : \A i \in DOMAIN table :
    LET r == table[i]
    IN  /\ r.x \in [Channels -> {Absent} \cup DOMAIN Log]
        /\ r.missing = \E c \in Channels : r.x[c] = Absent

RoundAt(ts) == CHOOSE r \in Rounds : r.ts = ts
InOrderOfTime(S) == LET t == SetToSortSeq(S, <) IN [i \in DOMAIN t |-> RoundAt(t[i])]

\* The values of parameters that were estimated from the rounds at these times.
ParametersFrom(times) == Calibrate(InOrderOfTime(times))
Values(backfill) == {[ts |-> q.ts, x |-> Normalize(RoundAt(q.ts).x, ParametersFrom(q.params))] : q \in backfill}

--------------------------------------------------------------------------------
(* compare_online.main: a run against its simulation, check by check.       *)

\* What the reference has for a version: the freeze, or the level 0 of its command.
Simulated(version) ==
  IF version = 1 THEN {[cal |-> Freeze(input, Warmup), backfill |-> {}]}
  ELSE UNION {Reestimated(input, c.eff, Warmup, Reestimate, Window) :
                c \in {d \in Stored : d.seq + 1 = version}}

Scaling(p) == [median |-> p.median, scale |-> p.scale, bypass |-> p.bypass]
SameParameters(cal, z) == \A c \in Channels : Scaling(cal[c]) = Scaling(z.cal[c])
SameHistograms(cal, z) == \A c \in Channels : cal[c].hist = z.cal[c].hist
SameValues(e, cal, z) == Normalize(RoundAt(e.ts).x, cal) = Normalize(RoundAt(e.ts).x, z.cal)

RoundIsSimulated(e, simulated) ==
  /\ simulated # {} /\ e.params # {}
  /\ \A z \in simulated, p \in e.params :
       LET cal == ParametersFrom(p)
       IN  /\ SameParameters(cal, z) /\ SameValues(e, cal, z)
           /\ e.hist => SameHistograms(cal, z)

\* compare.py: where a level 0 of the operator, with its backfill b, and one of the
\* reference differ.
Diffs(p, j) == {k \in DOMAIN p : p[k] # j[k]}
LevelZeroOf(e, b) ==
  [cal |-> ParametersFrom(CHOOSE p \in e.params : TRUE), backfill |-> Values(b)]

\* Whatever the cache has evicted and whenever a command ran, on a timer, with a round or
\* again after a restart: the first parameters are those of the reference's freeze, those of
\* a command are what the reference estimates from the whole table of rounds, and so is
\* every backfilled value (AdaptiveScalerFunction.level0, reestimate.level0).
EstimatesAreExact ==
  /\ LET out == {emitted[i] : i \in 1..Len(emitted)}
         rounds == {e \in out : Normalized(e)}
         simulated == [v \in {e.version : e \in rounds} |-> Simulated(v)]
     IN  \A e \in rounds :
           /\ RoundIsSimulated(e, simulated[e.version])
           /\ \A b \in e.backfill : \A z \in simulated[e.version] : Diffs(LevelZeroOf(e, b), z) = {}
  /\ pos = 0 => \A s \in Samples : ReferenceIsWhole(s)
================================================================================
