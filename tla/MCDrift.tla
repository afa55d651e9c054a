--------------------------------- MODULE MCDrift ---------------------------------
(* Short streams for TLC.  The cuts rise by one and once fall, as those of the
   tables under docs/m5b/tables do. *)
EXTENDS DriftReports

MCCut == 4 :> 2 @@ 5 :> 3 @@ 6 :> 2
MCFCrit == 4 :> 3 @@ 5 :> 3 @@ 6 :> 3
MCTCrit == 4 :> 1 @@ 5 :> 1 @@ 6 :> 1

MCSlots == [tenMinutes |-> 10, hourly |-> 8, rate |-> 10, days |-> 0]

\* Ten minutes without rounds, without outliers, and with some.
MCBins == {[outliers |-> 0, admitted |-> 0], [outliers |-> 0, admitted |-> 2],
           [outliers |-> 2, admitted |-> 2]}

\* The second device rises once, stays up and falls.
MCOther == << [ts |-> 1, x |-> 0], [ts |-> 2, x |-> 0], [ts |-> 3, x |-> 3], [ts |-> 4, x |-> 3],
              [ts |-> 5, x |-> 3], [ts |-> 6, x |-> 3], [ts |-> 7, x |-> 0], [ts |-> 9, x |-> 0] >>
MCStrict == 4 :> 9 @@ 5 :> 9 @@ 6 :> 9
Combo(k, hourly, f, t) == [k |-> k, hourly |-> hourly, f |-> f, t |-> t]
MCDefault == Combo(5, FALSE, MCFCrit, MCTCrit)
MCCombos == {MCDefault, Combo(3, FALSE, MCFCrit, MCTCrit), Combo(5, FALSE, MCStrict, MCStrict),
             Combo(3, TRUE, MCFCrit, MCTCrit)}
MCStable == {[device |-> "it", day |-> 0], [device |-> "it", day |-> 2], [device |-> "other", day |-> 1]}
MCProfile ==
  {[device |-> "it", day |-> 2, channel |-> "Gas", ref |-> 1, width |-> 4],
   [device |-> "it", day |-> 1, channel |-> "Gas", ref |-> 2, width |-> 3],
   [device |-> "other", day |-> 2, channel |-> "Light", ref |-> 0, width |-> 9],
   [device |-> "other", day |-> 1, channel |-> "Light", ref |-> 1, width |-> 4]}
Span(start, end) == [start |-> start, end |-> end]
MCTail == Span(4, 8)
MCSun == {Span(2, 3), Span(6, 7)}
MCEvening == Span(7, 8)
MCInjected == {Span(5, 6)}

\* Three local days and the first round of a fourth.
MCDayLengths == <<3, 3, 2, 1>>
MCHalf == <<1, 2>>
MCThird == <<1, 3>>
MCNewSample == <<2, 2, 0>>

Quiet == [type |-> "none", start |-> 0, end |-> 0, by |-> 0]
Inject(type, start, end, by) == [type |-> type, start |-> start, end |-> end, by |-> by]
Plan(gone, missing, swap, spec) == [gone |-> gone, missing |-> missing, swap |-> swap, spec |-> spec]

\* A round gone, a reading missing, the reference replaced, or an injection.
MCPlans ==
  {Plan(1, 0, 0, Quiet), Plan(0, 1, 0, Quiet), Plan(0, 0, 1, Quiet),
   Plan(0, 1, 0, Inject("stuck", 3, 7, 0)), Plan(1, 0, 0, Inject("step", 4, 6, 2)),
   Plan(0, 0, 0, Inject("ramp", 4, 7, 1))}
================================================================================
