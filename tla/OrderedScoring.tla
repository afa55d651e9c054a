---------------------------- MODULE OrderedScoring ----------------------------
(***************************************************************************)
(* What the context channel promises downstream, whatever it does inside:  *)
(* each device is a queue whose rounds are scored in the order they were   *)
(* accepted, and the output watermark never passes a round that is still   *)
(* to be scored.  A restart takes the queues back to the last checkpoint   *)
(* and the watermark back to its start; nothing else ever moves back.      *)
(***************************************************************************)
EXTENDS Integers, Sequences

CONSTANT Keys

VARIABLES accepted, scored, wm, saved

vars == <<accepted, scored, wm, saved>>

Extends(s, t) == Len(s) <= Len(t) /\ SubSeq(t, 1, Len(s)) = s

Empty == [k \in Keys |-> <<>>]

Init ==
  /\ accepted = Empty /\ scored = Empty /\ wm = 0
  /\ saved = [accepted |-> Empty, scored |-> Empty]

\* Rounds are accepted and served in order; what is accepted, and what is
\* served, was not yet covered by the watermark, and what is left is not
\* covered by the new one.
Serve ==
  /\ \A k \in Keys :
       /\ Extends(accepted[k], accepted'[k])
       /\ Extends(scored[k], scored'[k])
       /\ Extends(scored'[k], accepted'[k])
       /\ \A i \in Len(scored[k]) + 1 .. Len(accepted'[k]) : accepted'[k][i].ts > wm
       /\ \A i \in Len(scored'[k]) + 1 .. Len(accepted'[k]) : accepted'[k][i].ts > wm'
  /\ wm' >= wm
  /\ UNCHANGED saved

Save ==
  /\ saved' = [accepted |-> accepted, scored |-> scored]
  /\ UNCHANGED <<accepted, scored, wm>>

Recover ==
  /\ accepted' = saved.accepted /\ scored' = saved.scored
  /\ wm' = 0
  /\ UNCHANGED saved

Next == Serve \/ Save \/ Recover

Spec == Init /\ [][Next]_vars
================================================================================
