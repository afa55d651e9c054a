--------------------------------- MODULE Mcod ---------------------------------
(***************************************************************************)
(* McodCore: exact distance-based outliers over a sliding window, with     *)
(* micro-clusters.  A point is either in PD, with the numbers of its       *)
(* earlier and later neighbours, or a member of a micro-cluster, whose     *)
(* members are within R/2 of its center and more than K.  A slide inserts  *)
(* its new points, reports, expires the oldest slide, and re-inserts the   *)
(* members of micro-clusters that have shrunk.                             *)
(*                                                                         *)
(* A point's id is its arrival time.  Of positions only their distances    *)
(* matter, in units in which they are whole.  PD and the lists of          *)
(* micro-clusters are hash maps and lists filled from them: the order in   *)
(* which they are gone through is any.  A switch of parameters clears the  *)
(* state and refills it with the window's points at new positions.         *)
(***************************************************************************)
EXTENDS Integers, Sequences, FiniteSets, SequencesExt

CONSTANTS
  Positions,       \* where points can be
  Distance(_, _),  \* of two positions
  R, K,            \* radius and neighbour threshold
  SlideStep,       \* time units per slide
  Window,          \* time units per window
  Arrivals,        \* positions of the points one slide may bring, in arrival order
  Rescale,         \* what a switch of parameters does to a position
  MaxSlides,       \* bound
  MaxSwitches      \* bound

\* McodDistance is the Euclidean distance.
ASSUME DistanceAssumption ==
  /\ \A a, b \in Positions : Distance(a, b) \in Nat /\ Distance(a, b) = Distance(b, a)
  /\ \A a \in Positions : Distance(a, a) = 0
  /\ \A a, b, c \in Positions : Distance(a, c) <= Distance(a, b) + Distance(b, c)

ASSUME McodAssumption ==
  /\ R \in Nat /\ K \in Nat \ {0}
  /\ SlideStep \in Nat \ {0} /\ Window \in Nat \ {0} /\ Window % SlideStep = 0
  /\ MaxSlides \in Nat /\ MaxSwitches \in Nat
  /\ \A a \in Arrivals : a \in Seq(Positions) /\ Len(a) <= SlideStep
  /\ Rescale \in [Positions -> Positions]

VARIABLES
  pd, mc, mcCounter, \* McodState
  end,               \* end of the last window
  elements,          \* points of the last window: [id, pos]
  reported,          \* outliers of the last slide
  nSwitch

vars == <<pd, mc, mcCounter, end, elements, reported, nSwitch>>

--------------------------------------------------------------------------------
(* Points and neighbours.  A state is [pd, mc, counter].                    *)

State == [pd |-> pd, mc |-> mc, counter |-> mcCounter]
EmptyState == [pd |-> <<>>, mc |-> <<>>, counter |-> 1]

WithinHalfR(a, b) == 2 * Distance(a, b) <= R
WithinR(a, b) == Distance(a, b) <= R
WithinThreeHalfR(a, b) == 2 * Distance(a, b) <= 3 * R

NewPoint(e) ==
  [id |-> e.id, pos |-> e.pos, after |-> 0, before |-> <<>>, safe |-> FALSE, rmc |-> {}]

\* What a point keeps when it changes sides: safe_inlier and Rmc stay.
Forgotten(p) == [p EXCEPT !.after = 0, !.before = <<>>]

Oldest(arrivals) == CHOOSE i \in DOMAIN arrivals : \A j \in DOMAIN arrivals : arrivals[i] <= arrivals[j]

\* Of the earlier neighbours the newest K are kept: another takes the place of the oldest.
WithEarlier(p, a) ==
  IF Len(p.before) < K THEN [p EXCEPT !.before = Append(@, a)]
  ELSE IF a > p.before[Oldest(p.before)] THEN [p EXCEPT !.before = [@ EXCEPT ![Oldest(p.before)] = a]]
  ELSE p

WithLater(p) == [p EXCEPT !.after = @ + 1, !.safe = @ \/ p.after + 1 >= K]

\* Mutant: earlier neighbours count towards safety.
AddNeighborAlwaysLater(p, a) == WithLater(p)

AddNeighbor(p, a) == IF p.id > a THEN WithEarlier(p, a) ELSE WithLater(p)

\* p with every id of a set added.
AddNeighbors(p, ids) ==
  LET order == SetToSeq(ids)
      met[i \in 0..Cardinality(ids)] == IF i = 0 THEN p ELSE AddNeighbor(met[i - 1], order[i])
  IN  met[Cardinality(ids)]

--------------------------------------------------------------------------------
(* insertPoint.  "told" are the PD points that learn of the new one: all of *)
(* them, or on re-insertion only those re-inserted themselves.              *)

CloseMCs(s, pos) == {m \in DOMAIN s.mc : WithinThreeHalfR(pos, s.mc[m].center)}

Nearest(s, pos) ==
  CHOOSE m \in CloseMCs(s, pos) : \A n \in CloseMCs(s, pos) :
    LET dm == Distance(pos, s.mc[m].center)
        dn == Distance(pos, s.mc[n].center)
    IN  dm < dn \/ (dm = dn /\ m <= n)

InsertToMC(s, p, m, told) ==
  [s EXCEPT
     !.mc[m].members = @ \cup {Forgotten(p)},
     !.pd = [q \in DOMAIN @ |->
               IF q \in told /\ m \in @[q].rmc /\ WithinR(p.pos, @[q].pos)
                 THEN AddNeighbor(@[q], p.id) ELSE @[q]]]

Without(f, ids) == [q \in DOMAIN f \ ids |-> f[q]]
With(f, x, v) == [q \in DOMAIN f \cup {x} |-> IF q = x THEN v ELSE f[q]]

\* The points of PD within half of d.
InPD(s, pos, d) == {q \in DOMAIN s.pd : 2 * Distance(pos, s.pd[q].pos) <= d}

\* createMC: the close PD points and the new one; those around it remember it.
CreateMC(s, p, nc) ==
  LET around == InPD(s, p.pos, 3 * R) \ nc
      members == {Forgotten(s.pd[q]) : q \in nc} \cup {Forgotten(p)}
      pd1 == [q \in DOMAIN s.pd |->
                IF q \in around THEN [s.pd[q] EXCEPT !.rmc = @ \cup {s.counter}] ELSE s.pd[q]]
  IN  [pd |-> Without(pd1, nc),
       mc |-> With(s.mc, s.counter, [center |-> p.pos, members |-> members]),
       counter |-> s.counter + 1]

MemberIds(s, m, pos) == {x.id : x \in {y \in s.mc[m].members : WithinR(pos, y.pos)}}

\* Into PD, with the neighbours among the members of close micro-clusters.
InsertToPD(s, p) ==
  LET close == CloseMCs(s, p.pos)
      q == AddNeighbors(p, UNION {MemberIds(s, m, p.pos) : m \in close})
  IN  [s EXCEPT !.pd = With(@, p.id, [q EXCEPT !.rmc = @ \cup close])]

InsertPoint(s, p, told) ==
  LET close == CloseMCs(s, p.pos)
      near == InPD(s, p.pos, 2 * R)
      nc == InPD(s, p.pos, R)
      q == AddNeighbors(p, near)
      met == [s EXCEPT !.pd = [x \in DOMAIN @ |->
                IF x \in near \cap told THEN AddNeighbor(@[x], p.id) ELSE @[x]]]
  IN  IF close # {} /\ WithinHalfR(p.pos, s.mc[Nearest(s, p.pos)].center)
        THEN InsertToMC(s, p, Nearest(s, p.pos), told)
      ELSE IF Cardinality(nc) >= K THEN CreateMC(met, q, nc)
      ELSE InsertToPD(met, q)

InsertNew(s, e) == InsertPoint(s, NewPoint(e), DOMAIN s.pd)

\* The points es of the times from up to, and without, to, in the order of time.
InsertAll(s, es, from, to) ==
  LET at(t) == {e \in es : e.id = t}
      done[t \in from..to] ==
        IF t = from THEN s
        ELSE IF at(t - 1) = {} THEN done[t - 1]
        ELSE InsertNew(done[t - 1], CHOOSE e \in at(t - 1) : TRUE)
  IN  done[to]

--------------------------------------------------------------------------------
(* deletePoint and the dissolution of micro-clusters.                       *)

\* Mutant: members of micro-clusters are not found.
ExpireInPD(s, expired) == [s EXCEPT !.pd = Without(@, expired)]

\* Every expired point is found by its id: in PD, or else among the members of a
\* micro-cluster.
Expire(s, expired) ==
  LET kept(m) == {x \in s.mc[m].members : x.id \in expired => x.id \in DOMAIN s.pd}
  IN  [s EXCEPT !.pd = Without(@, expired),
                !.mc = [m \in DOMAIN @ |-> [@[m] EXCEPT !.members = kept(m)]]]

\* Mutant: a micro-cluster of K members is kept.
ShrunkBelow(s, expired) ==
  {m \in DOMAIN s.mc : Cardinality({x \in s.mc[m].members : x.id \notin expired}) < K}

\* The micro-clusters a deletion has left with at most K members.
Shrunk(s, expired) ==
  {m \in DOMAIN s.mc :
     /\ \E x \in s.mc[m].members : x.id \in expired
     /\ Cardinality({x \in s.mc[m].members : x.id \notin expired}) <= K}

\* Mutant: re-insertion tells every point in PD again.
ReinsertedTellsAll(s, p, ids) == InsertPoint(s, Forgotten(p), DOMAIN s.pd)

Reinserted(s, p, ids) == InsertPoint(s, Forgotten(p), ids)

Dissolve(s, ms) ==
  LET points == UNION {s.mc[m].members : m \in ms}
      ids == {x.id : x \in points}
      order == SetToSeq(points)
      done[i \in 0..Cardinality(points)] ==
        IF i = 0 THEN [s EXCEPT !.mc = Without(@, ms)] ELSE Reinserted(done[i - 1], order[i], ids)
  IN  done[Cardinality(points)]

--------------------------------------------------------------------------------
(* processSlide.                                                            *)

Effective(p, start) == p.after + Cardinality({i \in DOMAIN p.before : p.before[i] >= start})

Reported(s, start) ==
  {q \in DOMAIN s.pd : ~s.pd[q].safe /\ Effective(s.pd[q], start) < K}

Elements(arrival, from) == {[id |-> from + i - 1, pos |-> arrival[i]] : i \in DOMAIN arrival}

InWindow(es, start) == {e \in es : e.id >= start}

\* One slide over "old" elements already in state s.
ProcessSlide(s, old, arrival) ==
  LET start == end + SlideStep - Window
      new == Elements(arrival, end)
      full == InsertAll(s, new, end, end + SlideStep)
      expired == {e.id : e \in {x \in old \cup new : x.id < start + SlideStep}}
      final == Dissolve(Expire(full, expired), Shrunk(full, expired))
  IN  /\ end' = end + SlideStep
      /\ elements' = old \cup new
      /\ reported' = Reported(full, start)
      /\ pd' = final.pd /\ mc' = final.mc /\ mcCounter' = final.counter

Slide(arrival) ==
  /\ end < MaxSlides * SlideStep
  /\ ProcessSlide(State, InWindow(elements, end + SlideStep - Window), arrival)
  /\ UNCHANGED nSwitch

Rescaled(es) == {[e EXCEPT !.pos = Rescale[@]] : e \in es}

\* The slide's first point has a new version: clearForColdStart and backfill first.
SwitchAndSlide(arrival) ==
  LET start == end + SlideStep - Window
      refill == Rescaled(InWindow(elements, start))
  IN  /\ end < MaxSlides * SlideStep /\ nSwitch < MaxSwitches /\ arrival # <<>>
      /\ ProcessSlide(InsertAll(EmptyState, refill, start, end), refill, arrival)
      /\ nSwitch' = nSwitch + 1

Init ==
  /\ pd = <<>> /\ mc = <<>> /\ mcCounter = 1
  /\ end = 0 /\ elements = {} /\ reported = {} /\ nSwitch = 0

Next == \E arrival \in Arrivals : Slide(arrival) \/ SwitchAndSlide(arrival)

Spec == Init /\ [][Next]_vars

--------------------------------------------------------------------------------
(* Properties.                                                              *)

Active == {e \in elements : e.id >= end - Window + SlideStep}

\* Between slides, PD and the micro-clusters hold each point still in the window
\* exactly once, where it is.
StateIsWindow ==
  /\ Active = {[id |-> q, pos |-> pd[q].pos] : q \in DOMAIN pd} \cup
                {[id |-> x.id, pos |-> x.pos] : x \in UNION {mc[m].members : m \in DOMAIN mc}}
  /\ \A m \in DOMAIN mc : \A x \in mc[m].members :
       /\ x.id \notin DOMAIN pd
       /\ \A n \in DOMAIN mc : \A y \in mc[n].members : x.id = y.id => m = n /\ x = y

\* Micro-clusters have more than K members, all within R/2 of the center: that is
\* why none of them needs a neighbour count, also after expiry and re-insertion.
ClustersAreDense ==
  \A m \in DOMAIN mc :
    /\ m < mcCounter /\ Cardinality(mc[m].members) > K
    /\ \A x \in mc[m].members : WithinHalfR(x.pos, mc[m].center)

\* A point marked safe has K neighbours that outlive it; the mark survives that the
\* point is absorbed by a micro-cluster and falls out of it again.
SafeIsEarned ==
  \A q \in DOMAIN pd : pd[q].safe =>
    Cardinality({e \in Active : e.id > q /\ WithinR(e.pos, pd[q].pos)}) >= K

\* McodCore finds the outliers the naive detector finds.
Naive == INSTANCE NaiveDetector WITH window <- elements, outliers <- reported
NaiveSpec == Naive!Spec
================================================================================
