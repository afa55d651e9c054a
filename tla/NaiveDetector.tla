---------------------------- MODULE NaiveDetector ----------------------------
(***************************************************************************)
(* What distance-based outlier detection over a sliding window promises:   *)
(* after each slide, the outliers are the window's points with fewer than  *)
(* K other points of the window within distance R.                         *)
(***************************************************************************)
EXTENDS Integers, FiniteSets

CONSTANTS Distance(_, _), R, K

VARIABLES
  window,   \* the points judged in the last slide: [id, pos]
  outliers  \* their reported part, as ids

Neighbours(p, points) == {q \in points : q # p /\ Distance(p.pos, q.pos) <= R}

Outliers(points) == {p.id : p \in {q \in points : Cardinality(Neighbours(q, points)) < K}}

Init == window = {} /\ outliers = {}

\* Points come, go and are repositioned; the judgement follows from the window.
Next == outliers' = Outliers(window')

Spec == Init /\ [][Next]_<<window, outliers>>
================================================================================
