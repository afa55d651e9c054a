------------------------------- MODULE DataDays -------------------------------
(***************************************************************************)
(* The long-memory layer of the data drift module: per device and channel  *)
(* a two-state machine over local days.  A day's statistics are abstracted *)
(* to where the distance to the reference lies: "far" (significant and     *)
(* above d0), "mid" (above d0 but not significant), "near" (at or below    *)
(* d0), or "none" (no usable reading).  A verdict of a device's day is     *)
(* [evaluable, dist].                                                      *)
(*                                                                         *)
(* Three programs hold this machine: M5aCore online, run_offline.py's      *)
(* lm_transitions, and the fold of prepare_inputs.py over its transitions. *)
(***************************************************************************)
EXTENDS Integers, FiniteSets

CONSTANTS Channels, Active

ASSUME ChannelAssumption == Active \subseteq Channels

Distances == {"far", "mid", "near", "none"}
Verdicts == [evaluable : BOOLEAN, dist : [Channels -> Distances]]

\* M5aCore.closeDay: does this day change the state of channel ch?
Crosses(v, ch, deviated) ==
  /\ v.evaluable
  /\ \/ ~deviated /\ v.dist[ch] = "far"
     \/ deviated /\ v.dist[ch] = "near"

\* The state at the end of each of the first n days, from the verdicts vs.
EndState(vs, ch, n) ==
  LET s[d \in 0..n] ==
        d # 0 /\ LET prev == s[d - 1]
                 IN  IF d \in DOMAIN vs /\ Crosses(vs[d], ch, prev) THEN ~prev ELSE prev
  IN  s

\* lm_events: the days on which the test alone would report.
LmEvents(vs, ch) ==
  {d \in DOMAIN vs : vs[d].evaluable /\ vs[d].dist[ch] = "far"}

Judgeable(vs, ch) == {d \in DOMAIN vs : vs[d].evaluable /\ vs[d].dist[ch] # "none"}

\* lm_transitions: the rows of the evaluable days in order; out keeps the changes.
LmTransitions(vs, ch, n) ==
  LET st[d \in 0..n] ==
        d # 0 /\ LET prev == st[d - 1]
                 IN  IF d \notin Judgeable(vs, ch) THEN prev
                     ELSE IF prev THEN vs[d].dist[ch] # "near" ELSE vs[d].dist[ch] = "far"
  IN  {[day |-> d, kind |-> IF st[d] THEN "DEVIATE" ELSE "RECOVER"] :
         d \in {e \in 1..n : st[e] # st[e - 1]}}

\* state_on: the state when day begins, from the transitions alone.
StateOn(transitions, day) ==
  LET past == {t \in transitions : t.day < day}
  IN  past # {} /\ \E t \in past : (\A u \in past : u.day <= t.day) /\ t.kind = "DEVIATE"
================================================================================
